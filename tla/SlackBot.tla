------------------------------ MODULE SlackBot ------------------------------
(***************************************************************************)
(* The Slack bot: Slack delivers an event once or more, the bot drops what *)
(* is not a question to it and what it has already seen, and a thread of   *)
(* its own answers each question.  What it has seen is kept in memory, for *)
(* a limited time and up to a limited number.                              *)
(***************************************************************************)
EXTENDS Naturals, Sequences, FiniteSets

CONSTANTS Posts,          \* messages in Slack (channel, ts and text are the key)
          SEEN_TTL,       \* _SEEN_TTL_SEC, in ticks
          SEEN_MAX,       \* _SEEN_MAX
          MaxDeliveries,  \* bound: deliveries of one message
          MaxClock,       \* bound: ticks
          MaxCrashes      \* bound: restarts of the bot

ASSUME SlackAssumption ==
    /\ SEEN_TTL \in Nat /\ SEEN_MAX \in Nat \ {0}
    /\ MaxDeliveries \in Nat /\ MaxClock \in Nat /\ MaxCrashes \in Nat

\* What a message is to the bot: a mention in a channel, a direct message,
\* a message it must not take up.
Kinds == {"mention", "dm", "help", "own reply", "edited", "channel"}

VARIABLES postKind,   \* what m is to the bot
          delivered,  \* how often Slack has delivered m
          seen,       \* _SEEN_EVENTS: [key, at, nth], nth is the place in its order
          now,        \* time.time()
          crashes,    \* restarts so far
          handler,    \* handler[m][i]: the thread of m's i-th delivery
          runs,       \* ask() calls made for m
          answered,   \* the messages whose last reply was posted
          postFailed, \* the messages for which say() and postMessage failed
          marks,      \* history: [key, at, crashes] for every event taken up
          died        \* history: the messages whose thread died in a crash

slackVars == <<postKind, delivered, seen, now, crashes, handler, runs, answered, postFailed, marks, died>>

SlackInit ==
    /\ postKind \in [Posts -> Kinds]
    /\ delivered = [m \in Posts |-> 0]
    /\ seen = {} /\ now = 0 /\ crashes = 0
    /\ handler = [m \in Posts |-> [i \in 1..MaxDeliveries |-> "none"]]
    /\ runs = [m \in Posts |-> 0]
    /\ answered = {} /\ postFailed = {} /\ marks = <<>> /\ died = {}

\* The listeners' early returns: app_mention events are all questions; of the
\* message events only direct ones that no bot sent and no edit caused.
IsQuestion(m) == postKind[m] \in {"mention", "dm", "help"}

Recent(S) == {e \in S : now - e.at <= SEEN_TTL}

\* mutant: popitem(last=True)
EvictsNewest(S) == {e \in S : Cardinality({f \in S : f.nth < e.nth}) < SEEN_MAX}

\* popitem(last=False) until at most _SEEN_MAX are left: the latest stay.
Later(e, S) == {f \in S : f.nth > e.nth}
Newest(S) == {e \in S : Cardinality(Later(e, S)) < SEEN_MAX}

\* _seen_event, under its lock: forget the stale, then test and mark.
_seen_event(m) == \E e \in Recent(seen) : e.key = m
Mark(m) ==
    /\ seen' = IF _seen_event(m) THEN Recent(seen)
               ELSE Newest(Recent(seen) \cup {[key |-> m, at |-> now, nth |-> Len(marks) + 1]})
    /\ marks' = IF _seen_event(m) THEN marks
                ELSE Append(marks, [key |-> m, at |-> now, crashes |-> crashes])

\* Slack delivers m, again perhaps; bolt runs on_mention or on_message.
OnEvent(m) ==
    /\ delivered[m] < MaxDeliveries
    /\ delivered' = [delivered EXCEPT ![m] = @ + 1]
    /\ IF ~IsQuestion(m) THEN UNCHANGED <<seen, marks, handler>>
       ELSE /\ Mark(m)
            /\ handler' = IF _seen_event(m) THEN handler
                          ELSE [handler EXCEPT ![m][delivered[m] + 1] = "begin"]
    /\ UNCHANGED <<postKind, now, crashes, runs, answered, postFailed, died>>

\* _reply: say, else chat_postMessage; if that fails too the thread ends.
Reply(m, i, next) ==
    \/ /\ handler' = [handler EXCEPT ![m][i] = next]
       /\ answered' = IF next = "done" THEN answered \cup {m} ELSE answered
       /\ UNCHANGED postFailed
    \/ /\ handler' = [handler EXCEPT ![m][i] = "done"]
       /\ postFailed' = postFailed \cup {m}
       /\ UNCHANGED answered

\* _handle: the help text, or "Working..." and then the agent.
BeginHandling(m, i) ==
    /\ handler[m][i] = "begin"
    /\ Reply(m, i, IF postKind[m] = "help" THEN "done" ELSE "ask")
    /\ UNCHANGED <<postKind, delivered, seen, now, crashes, runs, marks, died>>

Ask(m, i) ==
    /\ handler[m][i] = "ask"
    /\ runs' = [runs EXCEPT ![m] = @ + 1]
    /\ handler' = [handler EXCEPT ![m][i] = "asking"]
    /\ UNCHANGED <<postKind, delivered, seen, now, crashes, answered, postFailed, marks, died>>

\* ask() returned or raised: the answer or the error is posted.
AskReturns(m, i) ==
    /\ handler[m][i] = "asking"
    /\ Reply(m, i, "done")
    /\ UNCHANGED <<postKind, delivered, seen, now, crashes, runs, marks, died>>

SlackTick ==
    /\ now < MaxClock /\ now' = now + 1
    /\ UNCHANGED <<postKind, delivered, seen, crashes, handler, runs, answered, postFailed, marks, died>>

\* The process dies and is started again: what it has seen is gone.
BotRestarts ==
    /\ crashes < MaxCrashes /\ crashes' = crashes + 1
    /\ seen' = {}
    /\ died' = died \cup {m \in Posts : \E i \in 1..MaxDeliveries : handler[m][i] \in {"begin", "ask", "asking"}}
    /\ handler' = [m \in Posts |-> [i \in 1..MaxDeliveries |->
                     IF handler[m][i] = "none" THEN "none" ELSE "done"]]
    /\ UNCHANGED <<postKind, delivered, now, runs, answered, postFailed, marks>>

SlackNext ==
    \/ \E m \in Posts : OnEvent(m)
    \/ \E m \in Posts, i \in 1..MaxDeliveries : BeginHandling(m, i) \/ Ask(m, i) \/ AskReturns(m, i)
    \/ SlackTick
    \/ BotRestarts

SlackSpec == SlackInit /\ [][SlackNext]_slackVars

\* Types: _SEEN_EVENTS never holds more than _SEEN_MAX keys (slack_bot.py:66-80).
SlackTypeOK ==
    /\ postKind \in [Posts -> Kinds]
    /\ delivered \in [Posts -> 0..MaxDeliveries]
    /\ seen \subseteq [key : Posts, at : 0..MaxClock, nth : 1..Len(marks)]
    /\ IsFiniteSet(seen) /\ Cardinality(seen) <= SEEN_MAX
    /\ now \in 0..MaxClock /\ crashes \in 0..MaxCrashes
    /\ handler \in [Posts -> [1..MaxDeliveries -> {"none", "begin", "ask", "asking", "done"}]]
    /\ runs \in [Posts -> 0..MaxDeliveries]
    /\ answered \subseteq Posts /\ postFailed \subseteq Posts /\ died \subseteq Posts
    /\ marks \in Seq([key : Posts, at : 0..MaxClock, crashes : 0..MaxCrashes])

\* "one user message, one agent run" (slack_bot.py:30), as far as the bot
\* remembers: a message is taken up again only after a restart, after the
\* time to live, or when SEEN_MAX newer messages pushed it out.
OneRunPerMessage ==
    \A i, j \in 1..Len(marks) : i < j /\ marks[i].key = marks[j].key =>
        \/ marks[j].crashes > marks[i].crashes
        \/ marks[j].at - marks[i].at > SEEN_TTL
        \/ j - i > SEEN_MAX

TakenUp(m) == {i \in 1..Len(marks) : marks[i].key = m}

\* _handle behind the listeners' early returns (slack_bot.py:174-222): no run
\* without a question; the agent runs at most once per message taken
\* up, and the bot's own replies never start one, nor do edits.
RunsAreQuestions ==
    \A m \in Posts :
        runs[m] <= IF postKind[m] \in {"mention", "dm"} THEN Cardinality(TakenUp(m)) ELSE 0

\* _handle answers whatever ask does (slack_bot.py:174-199):
\* a question that was taken up is answered, or still in the works, unless
\* Slack refused a reply to it or the bot died at it.
SilentOnlyByFailure ==
    \A m \in Posts : TakenUp(m) # {} =>
        \/ m \in answered \cup postFailed \cup died
        \/ \E i \in 1..MaxDeliveries : handler[m][i] \in {"begin", "ask", "asking"}

\* slack_bot.py:60-222: redeliveries, evictions and restarts leave each question
\* with one run and one answer, as far as the bot can remember and reply.
QuestionsAreAnsweredOnce == OneRunPerMessage /\ RunsAreQuestions /\ SilentOnlyByFailure

=============================================================================
