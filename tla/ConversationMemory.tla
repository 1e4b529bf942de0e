------------------------- MODULE ConversationMemory -------------------------
(***************************************************************************)
(* The conversations the console keeps: each browser session has a current *)
(* thread and its chat on the screen; a turn is saved by looking up the    *)
(* thread, inserting or updating its row, and adding the message, each a   *)
(* transaction of its own.  Any session can open or delete any thread.     *)
(***************************************************************************)
EXTENDS Naturals, FiniteSets

CONSTANTS Consoles,   \* browser sessions
          Threads,    \* ids of conversations, one per new chat
          NoThread,
          MaxTurns,   \* bound: messages said, all together
          MaxWall     \* bound: ticks of the wall clock

ASSUME MemoryAssumption == NoThread \notin Threads /\ MaxTurns \in Nat /\ MaxWall \in Nat

Msgs == 1..MaxTurns

VARIABLES memBackend, \* "sqlite" or "spanner"
          title,      \* the threads' rows: title[t], or "absent"
          messages,   \* the messages that have a row
          order,      \* what a row is read back by: its id (sqlite), its ts (Spanner)
          lastId,     \* the last id sqlite gave (AUTOINCREMENT)
          wall,       \* time.time()
          said,       \* the messages said so far
          author,     \* history: [by, thread, role] of a message
          thread,     \* the current thread of a console
          dialog,     \* the turns on its screen
          saving,     \* what save_message does next: [step, msg, found]
          deleting,   \* the thread a console is deleting, half done
          ended,      \* history: the messages whose save is over
          refused,    \* history: the messages whose save the backend refused
          shared,     \* history: threads two consoles used at once, or half deleted
          crossed     \* history: messages a delete removed, or whose save it overlapped

memoryVars == <<memBackend, title, messages, order, lastId, wall, said, author, thread, dialog,
                saving, deleting, ended, refused, shared, crossed>>

Resting == [step |-> "none", msg |-> 0, found |-> FALSE]

MemoryInit ==
    /\ memBackend \in {"sqlite", "spanner"}
    /\ title = [t \in Threads |-> "absent"]
    /\ messages = {} /\ order = [m \in Msgs |-> 0] /\ lastId = 0 /\ wall = 0 /\ said = 0
    /\ author = [m \in Msgs |-> [by |-> "none", thread |-> NoThread, role |-> "none"]]
    /\ thread = [c \in Consoles |-> NoThread]
    /\ dialog = [c \in Consoles |-> {}]
    /\ saving = [c \in Consoles |-> Resting]
    /\ deleting = [c \in Consoles |-> NoThread]
    /\ ended = {} /\ refused = {} /\ shared = {} /\ crossed = {}

Free(c) == saving[c] = Resting /\ deleting[c] = NoThread
Saving(m) == \E c \in Consoles : saving[c].step # "none" /\ saving[c].msg = m
Open(t) == {c \in Consoles : thread[c] = t}

\* get_messages: a thread's rows, sqlite's ORDER BY id and Spanner's ORDER BY ts;
\* what the second says of equal timestamps is open.
get_messages(t) == {m \in messages : author[m].thread = t}
ReadBefore(m, n) == order[m] < order[n]

\* list_threads: each row with the number of its messages.
list_threads ==
    {[thread_id |-> t, title |-> title[t], msg_count |-> Cardinality(get_messages(t))] :
        t \in {x \in Threads : title[x] # "absent"}}

\* A turn is put on the screen and saved.  The user's turn starts a run, whose
\* answer is the next turn; a run that fails has none (agent_chat).
SaveMessage(c, role) ==
    /\ Free(c) /\ said < MaxTurns /\ thread[c] # NoThread
    /\ role = "assistant" => dialog[c] # {}
    /\ LET m == said + 1 IN
        /\ said' = m
        /\ author' = [author EXCEPT ![m] = [by |-> c, thread |-> thread[c], role |-> role]]
        /\ dialog' = [dialog EXCEPT ![c] = @ \cup {m}]
        /\ saving' = [saving EXCEPT ![c] = [step |-> "lookup", msg |-> m, found |-> FALSE]]
        /\ crossed' = IF \E d \in Consoles : deleting[d] = thread[c] THEN crossed \cup {m} ELSE crossed
    /\ UNCHANGED <<memBackend, title, messages, order, lastId, wall, thread, deleting, ended, refused, shared>>

Step(c, s) == saving' = [saving EXCEPT ![c] = s]
\* The exception is swallowed, and the message is not added.
Drop(c, why) ==
    /\ Step(c, Resting)
    /\ ended' = ended \cup {saving[c].msg}
    /\ refused' = IF why = "refused" THEN refused \cup {saving[c].msg} ELSE refused

\* upsert_thread: SELECT, in a snapshot or outside any transaction.
UpsertLookup(c) ==
    /\ saving[c].step = "lookup"
    /\ \/ /\ Step(c, [saving[c] EXCEPT !.step = "upsert", !.found = title[author[saving[c].msg].thread] # "absent"])
          /\ UNCHANGED <<ended, refused>>
       \/ Drop(c, "refused")
    /\ UNCHANGED <<memBackend, title, messages, order, lastId, wall, said, author, thread, dialog, deleting, shared, crossed>>

\* upsert_thread: insert the row or update it, as the lookup said.  A row that
\* is there by now cannot be inserted; Spanner cannot update one that is gone,
\* for sqlite that is an update of nothing.  The title is the user's last turn
\* in sqlite, the first saved turn's in Spanner.
UpsertWrite(c) ==
    LET m == saving[c].msg
        t == author[m].thread
        name == IF author[m].role = "user" THEN m ELSE 0
        next == Step(c, [saving[c] EXCEPT !.step = "add"]) /\ UNCHANGED <<ended, refused>>
    IN
    /\ saving[c].step = "upsert"
    /\ \/ /\ ~saving[c].found /\ title[t] = "absent"
          /\ title' = [title EXCEPT ![t] = IF name = 0 THEN "untitled" ELSE "titled"] /\ next
       \/ /\ ~saving[c].found /\ title[t] # "absent" /\ Drop(c, "exists") /\ UNCHANGED title
       \/ /\ saving[c].found /\ title[t] # "absent" /\ next
          /\ title' = IF memBackend = "sqlite" /\ name # 0 THEN [title EXCEPT ![t] = "titled"] ELSE title
       \/ /\ saving[c].found /\ title[t] = "absent" /\ UNCHANGED title
          /\ IF memBackend = "sqlite" THEN next ELSE Drop(c, "gone")
       \/ Drop(c, "refused") /\ UNCHANGED title
    /\ UNCHANGED <<memBackend, messages, order, lastId, wall, said, author, thread, dialog, deleting, shared, crossed>>

\* mutant: thread and timestamp are the key of a message
AddReplaces(c) ==
    /\ saving[c].step = "add"
    /\ messages' = {m \in messages : memBackend = "sqlite" \/ order[m] # wall} \cup {saving[c].msg}
    /\ lastId' = IF memBackend = "sqlite" THEN lastId + 1 ELSE lastId
    /\ order' = [order EXCEPT ![saving[c].msg] = IF memBackend = "sqlite" THEN lastId + 1 ELSE wall]
    /\ Step(c, Resting) /\ ended' = ended \cup {saving[c].msg}
    /\ UNCHANGED <<memBackend, title, wall, said, author, thread, dialog, deleting, refused, shared, crossed>>

add_message(c) ==
    /\ saving[c].step = "add"
    /\ \/ /\ messages' = messages \cup {saving[c].msg}
          /\ lastId' = IF memBackend = "sqlite" THEN lastId + 1 ELSE lastId
          /\ order' = [order EXCEPT ![saving[c].msg] = IF memBackend = "sqlite" THEN lastId + 1 ELSE wall]
          /\ Step(c, Resting) /\ ended' = ended \cup {saving[c].msg} /\ UNCHANGED refused
       \/ Drop(c, "refused") /\ UNCHANGED <<messages, order, lastId>>
    /\ UNCHANGED <<memBackend, title, wall, said, author, thread, dialog, deleting, shared, crossed>>

\* A new conversation has an id nobody has used.
new_thread(c) ==
    /\ Free(c)
    /\ \E t \in Threads : /\ \A m \in 1..said : author[m].thread # t
                          /\ Open(t) = {}
                          /\ thread' = [thread EXCEPT ![c] = t]
    /\ dialog' = [dialog EXCEPT ![c] = {}]
    /\ UNCHANGED <<memBackend, title, messages, order, lastId, wall, said, author, saving, deleting, ended, refused, shared, crossed>>

\* "Open" in the list of conversations.
load_thread(c, t) ==
    /\ Free(c) /\ \E row \in list_threads : row.thread_id = t
    /\ thread' = [thread EXCEPT ![c] = t]
    /\ dialog' = [dialog EXCEPT ![c] = get_messages(t)]
    /\ shared' = IF Open(t) \ {c} # {} \/ (\E d \in Consoles : deleting[d] = t) THEN shared \cup {t} ELSE shared
    /\ UNCHANGED <<memBackend, title, messages, order, lastId, wall, said, author, saving, deleting, ended, refused, crossed>>

Crossing(t) == {m \in Msgs : author[m].thread = t /\ (Saving(m) \/ m \in messages)}
Without(t) == messages \ get_messages(t)

\* "Delete": the messages, then the row; one transaction in sqlite, two in
\* Spanner, and the second may raise, committed or not.
DeleteMessages(c, t) ==
    /\ Free(c) /\ \E row \in list_threads : row.thread_id = t
    /\ messages' = Without(t)
    /\ shared' = IF Open(t) \ {c} # {} THEN shared \cup {t} ELSE shared
    /\ crossed' = crossed \cup Crossing(t)
    /\ IF memBackend = "sqlite"
       THEN /\ title' = [title EXCEPT ![t] = "absent"]
            /\ thread' = [thread EXCEPT ![c] = IF @ = t THEN NoThread ELSE @]
            /\ dialog' = [dialog EXCEPT ![c] = IF thread[c] = t THEN {} ELSE @]
            /\ UNCHANGED deleting
       ELSE /\ deleting' = [deleting EXCEPT ![c] = t]
            /\ UNCHANGED <<title, thread, dialog>>
    /\ UNCHANGED <<memBackend, order, lastId, wall, said, author, saving, ended, refused>>

\* mutant: the row stays, without a title
ThreadRowBlanked(c) ==
    /\ deleting[c] # NoThread
    /\ title' = [title EXCEPT ![deleting[c]] = "blank"]
    /\ deleting' = [deleting EXCEPT ![c] = NoThread]
    /\ UNCHANGED <<memBackend, messages, order, lastId, wall, said, author, thread, dialog, saving, ended, refused, shared, crossed>>

DeleteThreadRow(c) ==
    LET t == deleting[c] IN
    /\ t # NoThread
    /\ deleting' = [deleting EXCEPT ![c] = NoThread]
    /\ \/ /\ title' = [title EXCEPT ![t] = "absent"]
          /\ thread' = [thread EXCEPT ![c] = IF @ = t THEN NoThread ELSE @]
          /\ dialog' = [dialog EXCEPT ![c] = IF thread[c] = t THEN {} ELSE @]
          /\ UNCHANGED shared
       \/ /\ title' = [title EXCEPT ![t] = "absent"] \/ UNCHANGED title
          /\ UNCHANGED <<thread, dialog>> /\ shared' = shared \cup {t}
    /\ UNCHANGED <<memBackend, messages, order, lastId, wall, said, author, saving, ended, refused, crossed>>

MemoryTick ==
    /\ wall < MaxWall /\ wall' = wall + 1
    /\ UNCHANGED <<memBackend, title, messages, order, lastId, said, author, thread, dialog, saving, deleting, ended, refused, shared, crossed>>

MemoryNext ==
    \/ \E c \in Consoles : \/ \E role \in {"user", "assistant"} : SaveMessage(c, role)
                           \/ UpsertLookup(c) \/ UpsertWrite(c) \/ add_message(c)
                           \/ new_thread(c) \/ DeleteThreadRow(c)
                           \/ \E t \in Threads : load_thread(c, t) \/ DeleteMessages(c, t)
    \/ MemoryTick

MemorySpec == MemoryInit /\ [][MemoryNext]_memoryVars

\* Types: a thread's row, the messages and what a console is about keep their
\* shape (spanner_backend.py, sqlite_backend.py).
MemoryTypeOK ==
    /\ memBackend \in {"sqlite", "spanner"}
    /\ title \in [Threads -> {"absent", "untitled", "titled"}]
    /\ messages \subseteq Msgs /\ order \in [Msgs -> Nat] /\ lastId \in Nat /\ wall \in 0..MaxWall
    /\ said \in 0..MaxTurns
    /\ author \in [Msgs -> [by : Consoles \cup {"none"}, thread : Threads \cup {NoThread},
                            role : {"none", "user", "assistant"}]]
    /\ thread \in [Consoles -> Threads \cup {NoThread}] /\ dialog \in [Consoles -> SUBSET Msgs]
    /\ saving \in [Consoles -> [step : {"none", "lookup", "upsert", "add"}, msg : 0..MaxTurns, found : BOOLEAN]]
    /\ deleting \in [Consoles -> Threads \cup {NoThread}]
    /\ ended \subseteq Msgs /\ refused \subseteq Msgs /\ crossed \subseteq Msgs /\ shared \subseteq Threads

\* save_message and delete_thread (ui/state.py:186-196, spanner_backend.py:187-189):
\* a message without its thread's row (which no list shows and no delete
\* removes) is left behind only by a save that overlapped a delete.
OrphansOnlyByDelete ==
    \A m \in messages : title[author[m].thread] = "absent" => m \in crossed

\* upsert_thread looks before it writes (spanner_backend.py:127-141):
\* a turn the backend did not refuse is lost only in a thread that another
\* console had open too, or to a delete.
LostOnlyWhenShared ==
    \A m \in ended \ (messages \cup refused) :
        author[m].thread \in shared \/ m \in crossed

\* load_thread and get_messages (ui/state.py:173-183, sqlite_backend.py:96-104):
\* a thread of one console reads back as its screen shows it: every turn the
\* backend took, in the order said (Spanner: up to equal timestamps).
ReadsBackAsSaid ==
    \A c \in Consoles : Free(c) /\ thread[c] \notin shared \cup {NoThread} =>
        /\ get_messages(thread[c]) = dialog[c] \ refused
        /\ \A m, n \in get_messages(thread[c]) : m < n =>
              ReadBefore(m, n) \/ (memBackend = "spanner" /\ order[m] = order[n])

\* ui/state.py:160-196 over both backends: consoles that save, open and delete
\* conversations side by side lose a turn, or leave one without its thread, only
\* where they used one conversation at once.
TurnsAreKept == OrphansOnlyByDelete /\ LostOnlyWhenShared /\ ReadsBackAsSaid

=============================================================================
