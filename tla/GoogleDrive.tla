---------------------------- MODULE GoogleDrive ----------------------------
(* The Google Drive and Docs MCP server (gdrive/server.py).  Each process   *)
(* serves one tool call at a time (its tools are plain functions), but      *)
(* several processes and people at the Docs editor work on one document.    *)
(*                                                                          *)
(* A document is the sequence of its characters: a text is empty or one     *)
(* character here, and Docs counts body positions from 1, with a final      *)
(* newline that no one can remove.                                          *)
EXTENDS Integers, Sequences, FiniteSets, SequencesExt

CONSTANTS
  Servers,        \* processes of the server
  Words,          \* characters that are written
  Modes,          \* "secure", "open", "service": how processes may be configured
  Zones,          \* offsets from UTC a process may run at, ahead positive
  Lifetime,       \* how long Google's tokens live
  MaxDriveCalls,  \* bound: tool calls
  MaxEdits,       \* bound: edits at the Docs editor
  MaxDriveClock   \* bound: ticks of the clock

ASSUME DriveAssumption ==
  /\ Modes \subseteq {"secure", "open", "service"} /\ Zones \subseteq Int
  /\ Lifetime \in Nat \ {0} /\ MaxDriveCalls \in Nat /\ MaxEdits \in Nat /\ MaxDriveClock \in Nat \ {0}

VARIABLES
  mode,     \* the configuration of the processes, the same for all
  sharedToken,   \* GOOGLE_ACCESS_TOKEN is set as well
  zone,     \* server -> its offset from UTC
  cached,   \* server -> _sa_token_cache
  docs,     \* the documents, a sequence of [body, text]: the text it was created for
  toolCall,     \* server -> the call it serves
  lived,    \* history: the calls that ended
  calls, edits, clock

driveVars == <<mode, sharedToken, zone, cached, docs, toolCall, lived, calls, edits, clock>>

Texts == {<<>>} \cup {<<w>> : w \in Words}
NoCred == [as |-> "none", until |-> 0]
NoDriveCall == [tool |-> "none", step |-> "idle", cred |-> NoCred, at |-> 0, doc |-> 0,
                text |-> <<>>, by |-> <<>>, index |-> 0, read |-> <<>>]
Call(tool, doc, text, by, index) ==
  [tool |-> tool, step |-> "called", cred |-> NoCred, at |-> 0, doc |-> doc,
   text |-> text, by |-> by, index |-> index, read |-> <<>>]
NoCache == [token |-> 0, expiry |-> 0]   \* (None, 0.0)

(***************************************************************************)
(* Credentials.  A service identity's token is named by the time it expires; *)
(* creds.expiry is a naive UTC time that .timestamp() reads as local time.  *)
(***************************************************************************)
Mint(s) == [token |-> clock + Lifetime, expiry |-> clock + Lifetime - zone[s]]

\* mutant: what is cached is never looked at again
CachedForEver(s) == IF cached[s].token # 0 THEN cached[s] ELSE Mint(s)

\* One tick is the 60 seconds a cached token must still have.
_service_account_token(s) ==
  IF cached[s].token # 0 /\ clock < cached[s].expiry - 1 THEN cached[s] ELSE Mint(s)

_access_token(s, bearer) ==
  CASE mode = "secure" -> [as |-> IF bearer THEN "caller" ELSE "none", until |-> clock + 1]
    [] mode # "secure" /\ sharedToken -> [as |-> "shared", until |-> clock + 1]
    [] mode # "secure" /\ ~sharedToken /\ mode = "service" ->
         [as |-> "service", until |-> _service_account_token(s).token]
    [] OTHER -> NoCred

\* The process keeps what it minted for the calls to come.
Minted(s, cred) == IF cred.as = "service" THEN [cached EXCEPT ![s] = _service_account_token(s)]
                   ELSE cached

(***************************************************************************)
(* Docs (external): an insertion beyond the final newline is refused.      *)
(***************************************************************************)
Inserts(body, index) == index \in 1 .. Len(body) + 1
Inserted(body, index, text) == SubSeq(body, 1, index - 1) \o text \o SubSeq(body, index, Len(body))
Replaced(body, find, by) ==
  FlattenSeq([i \in DOMAIN body |-> IF <<body[i]>> = find THEN by ELSE <<body[i]>>])

\* The last element ends after the newline: the end is the position before it.
_doc_end_index(body) == LET endIndex == Len(body) + 2
                        IN  IF endIndex - 1 > 1 THEN endIndex - 1 ELSE 1

\* The call ends, with or without an answer, on a document that was as it is now.
Ends(s, how, on, was) ==
  /\ toolCall' = [toolCall EXCEPT ![s] = NoDriveCall]
  /\ lived' = lived \cup {[call |-> toolCall[s], how |-> how, on |-> on, was |-> was]}

Answers(s, on, was) == Ends(s, "ok", on, was)
Raises(s, on) == Ends(s, "error", on, <<>>)

\* get_client (200-208) needs a token before anything is sent.
Calls(s, call, bearer) ==
  LET cred == _access_token(s, bearer)
      served == [call EXCEPT !.cred = cred, !.at = clock]
  IN  /\ toolCall[s] = NoDriveCall /\ calls < MaxDriveCalls
      /\ calls' = calls + 1
      /\ cached' = Minted(s, cred)
      /\ IF cred.as = "none"
           THEN /\ UNCHANGED toolCall
                /\ lived' = lived \cup {[call |-> served, how |-> "error", on |-> 0, was |-> <<>>]}
           ELSE toolCall' = [toolCall EXCEPT ![s] = served] /\ UNCHANGED lived
      /\ UNCHANGED <<mode, sharedToken, zone, docs, edits, clock>>

AppendCalled(s, bearer) == \E d \in DOMAIN docs, w \in Words :
                             Calls(s, Call("append_text", d, <<w>>, <<>>, 0), bearer)
InsertCalled(s, bearer) == \E d \in DOMAIN docs, w \in Words, i \in 0 .. 3 :
                             Calls(s, Call("insert_text", d, <<w>>, <<>>, i), bearer)
ReplaceCalled(s, bearer) == \E d \in DOMAIN docs, w \in Words, by \in Texts :
                              Calls(s, Call("replace_text", d, <<w>>, by, 0), bearer)
CreateCalled(s, bearer) == \E text \in Texts : Calls(s, Call("create_document", 0, text, <<>>, 0), bearer)
ReadCalled(s, bearer) == \E d \in DOMAIN docs : Calls(s, Call("get_document", d, <<>>, <<>>, 0), bearer)

Serving(s, tool, step) == toolCall[s] # NoDriveCall /\ toolCall[s].tool = tool /\ toolCall[s].step = step

\* Every request may fail: the network, or Google's refusal, as _check raises it.
Fails(s) ==
  /\ toolCall[s] # NoDriveCall
  /\ Raises(s, toolCall[s].doc)
  /\ UNCHANGED <<mode, sharedToken, zone, cached, docs, calls, edits, clock>>

get_document(s) ==
  /\ Serving(s, "get_document", "called")
  /\ Answers(s, toolCall[s].doc, docs[toolCall[s].doc].body)
  /\ UNCHANGED <<mode, sharedToken, zone, cached, docs, calls, edits, clock>>

\* append_text reads the document, then inserts at the end it read.
AppendReads(s) ==
  /\ Serving(s, "append_text", "called")
  /\ LET body == docs[toolCall[s].doc].body
     IN  toolCall' = [toolCall EXCEPT ![s].index = _doc_end_index(body), ![s].read = body,
                                         ![s].step = "read"]
  /\ UNCHANGED <<mode, sharedToken, zone, cached, docs, lived, calls, edits, clock>>

Update(d, body) == docs' = [docs EXCEPT ![d].body = body]

AppendWrites(s) ==
  /\ Serving(s, "append_text", "read")
  /\ LET c == toolCall[s]
         body == docs[c.doc].body
     IN  IF Inserts(body, c.index)
           THEN Update(c.doc, Inserted(body, c.index, c.text)) /\ Answers(s, c.doc, body)
           ELSE UNCHANGED docs /\ Raises(s, c.doc)
  /\ UNCHANGED <<mode, sharedToken, zone, cached, calls, edits, clock>>

insert_text(s) ==
  /\ Serving(s, "insert_text", "called")
  /\ LET c == toolCall[s]
         body == docs[c.doc].body
         index == IF c.index > 1 THEN c.index ELSE 1
     IN  IF Inserts(body, index)
           THEN Update(c.doc, Inserted(body, index, c.text)) /\ Answers(s, c.doc, body)
           ELSE UNCHANGED docs /\ Raises(s, c.doc)
  /\ UNCHANGED <<mode, sharedToken, zone, cached, calls, edits, clock>>

replace_text(s) ==
  /\ Serving(s, "replace_text", "called")
  /\ LET c == toolCall[s]
         body == docs[c.doc].body
     IN  Update(c.doc, Replaced(body, c.text, c.by)) /\ Answers(s, c.doc, body)
  /\ UNCHANGED <<mode, sharedToken, zone, cached, calls, edits, clock>>

\* mutant: the text is left for later
CreatedWithoutText(s) ==
  /\ Serving(s, "create_document", "called")
  /\ docs' = Append(docs, [body |-> <<>>, text |-> toolCall[s].text])
  /\ Answers(s, Len(docs) + 1, <<>>)
  /\ UNCHANGED <<mode, sharedToken, zone, cached, calls, edits, clock>>

\* create_document: the document exists, empty, before its text is inserted.
DocumentCreated(s) ==
  /\ Serving(s, "create_document", "called")
  /\ docs' = Append(docs, [body |-> <<>>, text |-> toolCall[s].text])
  /\ IF toolCall[s].text = <<>>
       THEN Answers(s, Len(docs) + 1, <<>>)
       ELSE /\ toolCall' = [toolCall EXCEPT ![s].step = "created", ![s].doc = Len(docs) + 1]
            /\ UNCHANGED lived
  /\ UNCHANGED <<mode, sharedToken, zone, cached, calls, edits, clock>>

BodyWritten(s) ==
  /\ Serving(s, "create_document", "created")
  /\ LET c == toolCall[s]
         body == docs[c.doc].body
     IN  Update(c.doc, Inserted(body, 1, c.text)) /\ Answers(s, c.doc, body)
  /\ UNCHANGED <<mode, sharedToken, zone, cached, calls, edits, clock>>

(***************************************************************************)
(* Around the processes.                                                   *)
(***************************************************************************)
SomeoneEdits ==
  /\ edits < MaxEdits /\ edits' = edits + 1
  /\ \E d \in DOMAIN docs : \E i \in 1 .. Len(docs[d].body) + 1 :
       \/ \E w \in Words : Update(d, Inserted(docs[d].body, i, <<w>>))
       \/ i \in DOMAIN docs[d].body /\ Update(d, RemoveAt(docs[d].body, i))
  /\ UNCHANGED <<mode, sharedToken, zone, cached, toolCall, lived, calls, clock>>

Restart(s) ==
  /\ toolCall[s] = NoDriveCall /\ cached[s] # NoCache
  /\ cached' = [cached EXCEPT ![s] = NoCache]
  /\ UNCHANGED <<mode, sharedToken, zone, docs, toolCall, lived, calls, edits, clock>>

DriveTick ==
  /\ clock < MaxDriveClock /\ \A s \in Servers : toolCall[s] = NoDriveCall
  /\ clock' = clock + 1
  /\ UNCHANGED <<mode, sharedToken, zone, cached, docs, toolCall, lived, calls, edits>>

DriveInit ==
  /\ mode \in Modes /\ sharedToken \in BOOLEAN /\ zone \in [Servers -> Zones]
  /\ cached = [s \in Servers |-> NoCache]
  /\ \E w \in Words : docs = <<[body |-> <<w>>, text |-> <<>>]>>
  /\ toolCall = [s \in Servers |-> NoDriveCall] /\ lived = {}
  /\ calls = 0 /\ edits = 0 /\ clock = 1

DriveNext ==
  \/ \E s \in Servers, bearer \in BOOLEAN :
       \/ AppendCalled(s, bearer) \/ InsertCalled(s, bearer) \/ ReplaceCalled(s, bearer)
       \/ CreateCalled(s, bearer) \/ ReadCalled(s, bearer)
  \/ \E s \in Servers :
       \/ get_document(s) \/ AppendReads(s) \/ AppendWrites(s) \/ insert_text(s) \/ replace_text(s)
       \/ DocumentCreated(s) \/ BodyWritten(s) \/ Fails(s) \/ Restart(s)
  \/ SomeoneEdits \/ DriveTick

DriveSpec == DriveInit /\ [][DriveNext]_driveVars

-----------------------------------------------------------------------------

\* Types: the variables keep their shape; a document is a sequence of characters, and
\* so is what a call read.
DriveCalls ==
  [tool : {"none", "append_text", "insert_text", "replace_text", "create_document", "get_document"},
   step : {"idle", "called", "read", "created"},
   cred : [as : {"none", "caller", "shared", "service"}, until : Nat],
   at : 0 .. MaxDriveClock, doc : Nat, text : Texts, by : Texts, index : Nat, read : Seq(Words)]

DriveTypeOK ==
  /\ mode \in Modes /\ sharedToken \in BOOLEAN /\ zone \in [Servers -> Zones]
  /\ cached \in [Servers -> [token : 0 .. MaxDriveClock + Lifetime, expiry : Int]]
  /\ docs \in Seq([body : Seq(Words), text : Texts])
  /\ toolCall \in [Servers -> DriveCalls]
  /\ \A s \in Servers : toolCall[s] # NoDriveCall => toolCall[s].doc \in 0 .. Len(docs)
  /\ lived \subseteq [call : DriveCalls, how : {"ok", "error"}, on : 0 .. Len(docs), was : Seq(Words)]
  /\ calls \in 0 .. MaxDriveCalls /\ edits \in 0 .. MaxEdits /\ clock \in 1 .. MaxDriveClock

\* append_text (server.py:400-423): a text reported as appended went in at the end of
\* the document as it was read: at its end if it was the same when the text arrived, and
\* before its end only if it had grown by then.  (Of a document that had shrunk, Docs
\* refuses the position, and the caller is told.)
AppendedAtTheEnd ==
  \A l \in lived :
    l.call.tool = "append_text" /\ l.how = "ok" =>
      LET end == Len(l.was) + 1
      IN  /\ l.was = l.call.read => l.call.index = end
          /\ l.call.index = end \/ Len(l.was) > Len(l.call.read)

\* create_document (server.py:367-397): a document whose text was to be inserted
\* and that no one edited is empty only while the call is underway or when the
\* caller was told of an error.
EmptyOnlyByFailure ==
  \A d \in DOMAIN docs :
    docs[d].text # <<>> /\ docs[d].body = <<>> =>
      \/ \E s \in Servers : Serving(s, "create_document", "created") /\ toolCall[s].doc = d
      \/ \E l \in lived : l.call.tool = "create_document" /\ l.how = "error" /\ l.on = d
      \/ edits > 0
      \/ \E l \in lived : l.call.tool = "replace_text" /\ l.on = d

\* append_text, insert_text, create_document (server.py:367-447): as long as no one else
\* edits a document or replaces in it, no text a caller was told is written is lost to
\* another call: the document has grown by each of them since, and no two of them were
\* written to the same state of it.
Wrote(d) == {l \in lived : /\ l.on = d /\ l.how = "ok" /\ l.call.text # <<>>
                           /\ l.call.tool \in {"append_text", "insert_text", "create_document"}}
NoWriteIsLost ==
  \A d \in DOMAIN docs :
    edits = 0 /\ (\A l \in lived : l.on = d => l.call.tool # "replace_text") =>
      /\ \A l \in Wrote(d) : Len(l.was) < Len(docs[d].body)
      /\ \A l, m \in Wrote(d) : Len(l.was) = Len(m.was) => l = m

\* _access_token (server.py:176-197): in secure mode every request runs as its
\* caller, whatever shared credential is configured next to it, and a call
\* without a bearer never reaches Google.
CallersActAsThemselves ==
  mode = "secure" =>
    /\ \A s \in Servers : toolCall[s] # NoDriveCall => toolCall[s].cred.as = "caller"
    /\ \A l \in lived : l.call.cred.as # "caller" => l.how = "error" /\ l.on = 0

\* _service_account_token (server.py:116-173): a process at UTC or ahead of it
\* never starts a call with a token that has expired.  (Behind UTC it does: the
\* expiry it caches lies ahead by its offset.)
TokensAreAlive ==
  \A s \in Servers : toolCall[s] # NoDriveCall /\ zone[s] >= 0 => toolCall[s].cred.until > toolCall[s].at

\* server.py:367-447: a text a caller was told is written went in where the caller's own
\* read put it, is not lost to another call, and is not left out of a new document
\* without an error.
DocumentsHoldTheirText == AppendedAtTheEnd /\ EmptyOnlyByFailure /\ NoWriteIsLost

\* server.py:116-208: a call runs under the credential the mode asks for, while it is
\* valid.
CredentialsFit == CallersActAsThemselves /\ TokensAreAlive

=============================================================================
