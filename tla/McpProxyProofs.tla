---------------------------- MODULE McpProxyProofs ----------------------------
(***************************************************************************)
(* Proofs about McpProxy, for any requests, servers, limits, tokens and     *)
(* answers: its types, that the limiters let through what they may and      *)
(* refuse nobody for somebody else, and that a refused request has neither  *)
(* a sample nor an answer.                                                 *)
(***************************************************************************)
EXTENDS McpProxy, FiniteSetTheorems, TLAPS

-----------------------------------------------------------------------------
(* Which requests are at a limiter, and what their counters are.           *)

\* The limited requests have a server and a token.
AtLimiter(r) == req[r] \in Inputs /\ req[r].ns \in Namespaces /\ req[r].bearer # NoToken

RouteInv ==
  \A r \in Requests :
    /\ stage[r] # "idle" => req[r] \in Inputs
    /\ stage[r] \in {"all", "tool"} => AtLimiter(r)

\* The function types the steps of the route and the limiters rest on.
ShapeOK ==
  /\ stage \in [Requests -> Stages]
  /\ req \in [Requests -> Inputs \cup {NoInput}]
  /\ reply \in [Requests -> {"none", "upstream", "400", "401", "404", "429", "500"}]
  /\ window \in [Counters -> SUBSET Requests]
  /\ admitted \in [Counters -> SUBSET Requests]
  /\ blame \in [Requests -> SUBSET Requests]
  /\ rejected \subseteq Requests

\* What processResponse reads and records.
TraceOK ==
  /\ rest \in [Requests -> Seq(Messages)]
  /\ \A r \in Requests : \E a \in Answers : Len(rest[r]) <= Len(a.msgs)
  /\ processing \in [Requests -> {"nothing", "json", "stream"}]
  /\ span \in [Requests -> {"none", "open", "ok", "error"}]
  /\ samples \in [Requests -> Nat]

LEMMA CounterOfType ==
  ASSUME NEW r \in Requests, AtLimiter(r), NEW what \in Tools \cup {"all"}
  PROVE  /\ CounterOf(r, what) \in Counters
         /\ CounterOf(r, what)[1] = req[r].ns /\ CounterOf(r, what)[2] = what
         /\ CounterOf(r, what)[3] = mcpRateLimitKey(req[r].bearer)
  <1>1. mcpRateLimitKey(req[r].bearer) \in Keys
    BY DEF AtLimiter, Keys
  <1> QED
    BY <1>1 DEF AtLimiter, CounterOf, Counters

LEMMA RouteInit == Init => RouteInv /\ ShapeOK /\ TraceOK
  <1> SUFFICES ASSUME Init PROVE RouteInv /\ ShapeOK /\ TraceOK
    OBVIOUS
  <1>1. RouteInv /\ ShapeOK
    BY DEF Init, RouteInv, ShapeOK, Stages
  <1>2. PICK a \in Answers : a.msgs \in Seq(Messages)
    BY AnswersAssumption DEF Answer
  <1>3. Len(a.msgs) >= 0 /\ Len(<< >>) = 0
    BY <1>2
  <1> QED
    BY <1>1, <1>2, <1>3 DEF Init, TraceOK

\* The check of a limiter: the server's, or the tool's of a tools/call.
LimitOf(ns, what) == IF what = "all" THEN AllLimit[ns] ELSE ToolLimit[ns][what]

Counts(r, what) ==
  /\ stage[r] \in {"all", "tool"}
  /\ Check(r, CounterOf(r, what), LimitOf(req[r].ns, what),
           IF stage[r] = "all" THEN "tool" ELSE "wrap")
  /\ UNCHANGED <<req, traceVars>>

\* The limiters' counters change in a check, and when a window ends.
LEMMA LimitMoves ==
  ASSUME [Next]_vars
  PROVE  \/ UNCHANGED limitVars
         \/ \E c \in Counters : Lapse(c)
         \/ \E r \in Requests, what \in Tools \cup {"all"} : Counts(r, what)
  <1>1. ASSUME NEW r \in Requests, CheckAll(r), ~UNCHANGED limitVars PROVE Counts(r, "all")
    BY <1>1 DEF CheckAll, Counts, LimitOf
  <1>2. ASSUME NEW r \in Requests, CheckTool(r), ~UNCHANGED limitVars
        PROVE  req[r].body \in Tools /\ Counts(r, req[r].body)
    BY <1>2, ConfigAssumption DEF CheckTool, Counts, LimitOf
  <1>3. CASE /\ ~\E c \in Counters : Lapse(c)
             /\ ~\E r \in Requests : CheckAll(r) \/ CheckTool(r)
    BY <1>3 DEF Next, Handle, vars, Arrive, PassThrough, LimiterFails, WrapRequest, Forward,
                ForwardFails, Process, EndOfBody, BreakOff, limitVars
  <1> QED
    BY <1>1, <1>2, <1>3

\* Where a request is, and what it is, once it has arrived.
LEMMA Arrived ==
  ASSUME ShapeOK, [Next]_vars, NEW q \in Requests, stage[q] # "idle"
  PROVE  stage'[q] # "idle" /\ req'[q] = req[q]
  <1>1. ASSUME NEW r \in Requests, NEW i \in Inputs, Arrive(r, i)
        PROVE  stage'[q] # "idle" /\ req'[q] = req[q]
    BY <1>1 DEF Arrive, Reject, Finish, Goto, Set, ShapeOK
  <1>2. ASSUME NEW r \in Requests, Handle(r) PROVE stage'[q] # "idle" /\ req'[q] = req[q]
    BY <1>2 DEF Handle, PassThrough, CheckAll, CheckTool, Check, Reject, LimiterFails, WrapRequest,
                Forward, ForwardFails, Process, EndOfBody, BreakOff, Finish, Goto, Set, ShapeOK
  <1>3. CASE UNCHANGED vars \/ \E c \in Counters : Lapse(c)
    BY <1>3 DEF vars, Lapse
  <1> QED
    BY <1>1, <1>2, <1>3 DEF Next

\* In a check the request is counted, and refused or let through.
LEMMA CountsStep ==
  ASSUME ShapeOK, RouteInv, NEW r \in Requests, NEW what \in Tools \cup {"all"}, Counts(r, what)
  PROVE  LET c == CounterOf(r, what)
         IN  /\ AtLimiter(r) /\ c \in Counters /\ req' = req
             /\ window' = [window EXCEPT ![c] = window[c] \cup {r}]
             /\ \/ /\ stage' = [stage EXCEPT ![r] = "done"] /\ reply' = [reply EXCEPT ![r] = "429"]
                   /\ rejected' = rejected \cup {r}
                   /\ blame' = [blame EXCEPT ![r] = window[c] \cup {r}]
                   /\ admitted' = admitted
                \/ /\ stage' = [stage EXCEPT ![r] = IF stage[r] = "all" THEN "tool" ELSE "wrap"]
                   /\ admitted' = [admitted EXCEPT ![c] = admitted[c] \cup {r}]
                   /\ ~Exceeds(Cardinality(window[c] \cup {r}), LimitOf(c[1], c[2]), c[1])
                   /\ UNCHANGED <<reply, rejected, blame>>
  <1>1. AtLimiter(r)
    BY DEF Counts, RouteInv
  <1>2. /\ CounterOf(r, what) \in Counters
        /\ CounterOf(r, what)[1] = req[r].ns /\ CounterOf(r, what)[2] = what
    BY <1>1, CounterOfType
  <1> DEFINE c == CounterOf(r, what)
  <1>3. /\ Check(r, c, LimitOf(c[1], c[2]), IF stage[r] = "all" THEN "tool" ELSE "wrap")
        /\ req' = req
    BY <1>2 DEF Counts
  <1> HIDE DEF c
  <1>4. window[c] \cup {r} = window'[c]
    BY <1>2, <1>3 DEF Check, Set, ShapeOK, c
  <1>5. \/ /\ stage' = [stage EXCEPT ![r] = "done"] /\ reply' = [reply EXCEPT ![r] = "429"]
           /\ rejected' = rejected \cup {r}
           /\ blame' = [blame EXCEPT ![r] = window[c] \cup {r}]
           /\ admitted' = admitted
        \/ /\ stage' = [stage EXCEPT ![r] = IF stage[r] = "all" THEN "tool" ELSE "wrap"]
           /\ admitted' = [admitted EXCEPT ![c] = admitted[c] \cup {r}]
           /\ ~Exceeds(Cardinality(window[c] \cup {r}), LimitOf(c[1], c[2]), c[1])
           /\ UNCHANGED <<reply, rejected, blame>>
    <2>1. CASE Exceeds(Cardinality(window[c] \cup {r}), LimitOf(c[1], c[2]), c[1])
      BY <1>3, <1>4, <2>1 DEF Check, Set, Reject, Finish
    <2>2. CASE ~Exceeds(Cardinality(window[c] \cup {r}), LimitOf(c[1], c[2]), c[1])
      BY <1>3, <2>2 DEF Check, Set, Goto
    <2> QED
      BY <2>1, <2>2
  <1>6. window' = [window EXCEPT ![c] = window[c] \cup {r}]
    BY <1>3 DEF Check, Set
  <1> QED
    BY <1>1, <1>2, <1>3, <1>5, <1>6 DEF c

LEMMA ShapeNext == ShapeOK /\ RouteInv /\ [Next]_vars => ShapeOK'
  <1> SUFFICES ASSUME ShapeOK, RouteInv, [Next]_vars PROVE ShapeOK'
    OBVIOUS
  <1>1. CASE UNCHANGED vars
    BY <1>1 DEF vars, ShapeOK
  <1>2. ASSUME NEW c \in Counters, Lapse(c) PROVE ShapeOK'
    BY <1>2 DEF Lapse, ShapeOK, Set
  <1>3. ASSUME NEW r \in Requests, NEW what \in Tools \cup {"all"}, Counts(r, what)
        PROVE  ShapeOK'
    <2> DEFINE c == CounterOf(r, what)
    <2>1. /\ c \in Counters /\ req' = req
          /\ window' = [window EXCEPT ![c] = window[c] \cup {r}]
          /\ \/ /\ stage' = [stage EXCEPT ![r] = "done"] /\ reply' = [reply EXCEPT ![r] = "429"]
                /\ rejected' = rejected \cup {r}
                /\ blame' = [blame EXCEPT ![r] = window[c] \cup {r}]
                /\ admitted' = admitted
             \/ /\ stage' = [stage EXCEPT ![r] = IF stage[r] = "all" THEN "tool" ELSE "wrap"]
                /\ admitted' = [admitted EXCEPT ![c] = admitted[c] \cup {r}]
                /\ UNCHANGED <<reply, rejected, blame>>
      BY <1>3, CountsStep
    <2> HIDE DEF c
    <2> QED
      BY <2>1 DEF ShapeOK, Stages
  <1>4. ASSUME NEW r \in Requests, NEW i \in Inputs, Arrive(r, i) PROVE ShapeOK'
    BY <1>4 DEF Arrive, Reject, Finish, Goto, Set, ShapeOK, Stages, limitVars
  <1>5. ASSUME NEW r \in Requests, Handle(r), UNCHANGED limitVars PROVE ShapeOK'
    BY <1>5 DEF Handle, PassThrough, CheckAll, CheckTool, Check, Reject, LimiterFails, WrapRequest,
                Forward, ForwardFails, Process, EndOfBody, BreakOff, Finish, Goto, Set, ShapeOK,
                Stages, limitVars
  <1> QED
    BY <1>1, <1>2, <1>3, <1>4, <1>5, LimitMoves DEF Next

LEMMA RouteNext == ShapeOK /\ RouteInv /\ [Next]_vars => RouteInv'
  <1> SUFFICES ASSUME ShapeOK, RouteInv, [Next]_vars, NEW q \in Requests
               PROVE  /\ stage'[q] # "idle" => req'[q] \in Inputs
                      /\ stage'[q] \in {"all", "tool"} =>
                           req'[q] \in Inputs /\ req'[q].ns \in Namespaces /\ req'[q].bearer # NoToken
    BY DEF RouteInv, AtLimiter
  <1>1. CASE UNCHANGED vars \/ \E c \in Counters : Lapse(c)
    BY <1>1 DEF vars, Lapse, RouteInv, AtLimiter
  <1>2. ASSUME NEW i \in Inputs, Arrive(q, i)
        PROVE  /\ req'[q] \in Inputs
               /\ stage'[q] \in {"all", "tool"} => req'[q].ns \in Namespaces /\ req'[q].bearer # NoToken
    BY <1>2 DEF Arrive, Reject, Finish, Goto, Set, ShapeOK, HasLimiter, TokenAccepted
  <1>3. CASE Handle(q)
    BY <1>3 DEF Handle, PassThrough, CheckAll, CheckTool, Check, Reject, LimiterFails, WrapRequest,
                Forward, ForwardFails, Process, EndOfBody, BreakOff, Finish, Goto, Set, ShapeOK,
                RouteInv, AtLimiter
  <1>4. ASSUME NEW r \in Requests, r # q, Handle(r) \/ \E i \in Inputs : Arrive(r, i)
        PROVE  stage'[q] = stage[q] /\ req'[q] = req[q]
    BY <1>4 DEF Handle, PassThrough, CheckAll, CheckTool, Check, Reject, LimiterFails, WrapRequest,
                Forward, ForwardFails, Process, EndOfBody, BreakOff, Finish, Goto, Set, ShapeOK,
                Arrive
  <1> QED
    BY <1>1, <1>2, <1>3, <1>4 DEF Next, RouteInv, AtLimiter

-----------------------------------------------------------------------------
(* The limiters.                                                           *)

\* What a counter counted has arrived, at its server and with its key.
CountedBy(c, q) ==
  stage[q] # "idle" /\ AtLimiter(q) /\ req[q].ns = c[1] /\ mcpRateLimitKey(req[q].bearer) = c[3]

WindowInv ==
  \A c \in Counters : IsFiniteSet(window[c]) /\ \A q \in window[c] : CountedBy(c, q)

\* What was let through was counted, and the count was within the limit.
AdmittedInv ==
  \A c \in Counters :
    /\ admitted[c] \subseteq window[c]
    /\ c[1] \notin ReportOnly => Cardinality(admitted[c]) <= LimitOf(c[1], c[2])

\* A refused request and what its counter had counted have one server and one key.
BlameInv ==
  \A r \in Requests : \A q \in blame[r] :
    \E c \in Counters : CountedBy(c, r) /\ CountedBy(c, q)

LEMMA LimitInit == Init => WindowInv /\ AdmittedInv /\ BlameInv
  <1> SUFFICES ASSUME Init PROVE WindowInv /\ AdmittedInv /\ BlameInv
    OBVIOUS
  <1>1. IsFiniteSet({}) /\ Cardinality({}) = 0
    BY FS_EmptySet
  <1>2. \A c \in Counters : LimitOf(c[1], c[2]) \in Nat
    BY ConfigAssumption DEF Counters, LimitOf
  <1> QED
    BY <1>1, <1>2 DEF Init, WindowInv, AdmittedInv, BlameInv

\* What a counter counted stays what it was.
LEMMA CountedStays ==
  ASSUME ShapeOK, [Next]_vars, NEW q \in Requests, NEW c, CountedBy(c, q)
  PROVE  CountedBy(c, q)'
  BY Arrived DEF CountedBy, AtLimiter

LEMMA LimitNext ==
  /\ ShapeOK /\ RouteInv /\ WindowInv /\ AdmittedInv /\ BlameInv /\ [Next]_vars
  => WindowInv' /\ AdmittedInv' /\ BlameInv'
  <1> SUFFICES ASSUME ShapeOK, RouteInv, WindowInv, AdmittedInv, BlameInv, [Next]_vars
               PROVE  WindowInv' /\ AdmittedInv' /\ BlameInv'
    OBVIOUS
  <1>0. /\ \A q \in Requests, c \in Counters : CountedBy(c, q) => CountedBy(c, q)'
        /\ \A c \in Counters : window[c] \subseteq Requests
        /\ \A r \in Requests : blame[r] \subseteq Requests
    BY CountedStays DEF ShapeOK
  <1>1. CASE UNCHANGED limitVars
    BY <1>0, <1>1 DEF limitVars, WindowInv, AdmittedInv, BlameInv
  <1>2. ASSUME NEW c \in Counters, Lapse(c) PROVE WindowInv' /\ AdmittedInv' /\ BlameInv'
    <2>1. /\ window' = [window EXCEPT ![c] = {}] /\ admitted' = [admitted EXCEPT ![c] = {}]
          /\ blame' = blame
      BY <1>2 DEF Lapse, Set
    <2>2. IsFiniteSet({}) /\ Cardinality({}) = 0 /\ LimitOf(c[1], c[2]) \in Nat
      BY FS_EmptySet, ConfigAssumption DEF Counters, LimitOf
    <2> QED
      BY <1>0, <2>1, <2>2 DEF WindowInv, AdmittedInv, BlameInv, ShapeOK
  <1>3. ASSUME NEW r \in Requests, NEW what \in Tools \cup {"all"}, Counts(r, what)
        PROVE  WindowInv' /\ AdmittedInv' /\ BlameInv'
    <2> DEFINE c == CounterOf(r, what)
    <2>1. /\ c \in Counters
          /\ window' = [window EXCEPT ![c] = window[c] \cup {r}]
          /\ \/ /\ blame' = [blame EXCEPT ![r] = window[c] \cup {r}]
                /\ admitted' = admitted
             \/ /\ admitted' = [admitted EXCEPT ![c] = admitted[c] \cup {r}]
                /\ ~Exceeds(Cardinality(window[c] \cup {r}), LimitOf(c[1], c[2]), c[1])
                /\ blame' = blame
      BY <1>3, CountsStep
    <2>2. CountedBy(c, r)
      <3>1. AtLimiter(r) /\ c[1] = req[r].ns /\ c[3] = mcpRateLimitKey(req[r].bearer)
        BY <1>3, CountsStep, CounterOfType
      <3> QED
        BY <1>3, <3>1 DEF CountedBy, Counts
    <2>3. IsFiniteSet(window[c] \cup {r}) /\ LimitOf(c[1], c[2]) \in Nat
      <3>1. IsFiniteSet(window[c])
        BY <2>1 DEF WindowInv
      <3>2. c[1] \in Namespaces /\ c[2] \in Tools \cup {"all"}
        <4> HIDE DEF c
        <4> QED
          BY <2>1 DEF Counters
      <3> HIDE DEF c
      <3>3. IsFiniteSet(window[c] \cup {r})
        BY <3>1, FS_AddElement
      <3>4. LimitOf(c[1], c[2]) \in Nat
        BY <3>2, ConfigAssumption DEF LimitOf
      <3> QED
        BY <3>3, <3>4
    <2> HIDE DEF c
    <2>4. WindowInv'
      <3> SUFFICES ASSUME NEW d \in Counters
                   PROVE  IsFiniteSet(window'[d]) /\ \A q \in window'[d] : CountedBy(d, q)'
        BY DEF WindowInv
      <3> QED
        BY <1>0, <2>1, <2>2, <2>3 DEF WindowInv, ShapeOK
    <2>5. AdmittedInv'
      <3> SUFFICES ASSUME NEW d \in Counters
                   PROVE  /\ admitted'[d] \subseteq window'[d]
                          /\ d[1] \notin ReportOnly => Cardinality(admitted'[d]) <= LimitOf(d[1], d[2])
        BY DEF AdmittedInv, LimitOf
      <3>1. admitted'[d] \subseteq window'[d]
        BY <2>1 DEF AdmittedInv, ShapeOK
      <3>2. CASE admitted'[d] = admitted[d]
        BY <3>1, <3>2 DEF AdmittedInv
      <3>3. CASE /\ d = c /\ admitted'[c] = admitted[c] \cup {r}
                 /\ ~Exceeds(Cardinality(window[c] \cup {r}), LimitOf(c[1], c[2]), c[1])
        <4>1. admitted[c] \cup {r} \subseteq window[c] \cup {r}
          BY <2>1 DEF AdmittedInv
        <4>2. /\ Cardinality(admitted[c] \cup {r}) <= Cardinality(window[c] \cup {r})
              /\ Cardinality(admitted[c] \cup {r}) \in Nat /\ Cardinality(window[c] \cup {r}) \in Nat
          BY <2>3, <4>1, FS_Subset, FS_CardinalityType
        <4> QED
          BY <2>3, <3>1, <3>3, <4>2 DEF Exceeds
      <3> QED
        BY <2>1, <3>2, <3>3 DEF ShapeOK
    <2>6. BlameInv'
      <3> SUFFICES ASSUME NEW x \in Requests, NEW q \in blame'[x]
                   PROVE  \E d \in Counters : CountedBy(d, x)' /\ CountedBy(d, q)'
        BY DEF BlameInv
      <3>1. CASE q \in blame[x]
        BY <1>0, <3>1 DEF BlameInv
      <3>2. CASE x = r /\ q \in window[c] \cup {r}
        BY <1>0, <2>1, <2>2, <3>2 DEF WindowInv
      <3> QED
        BY <2>1, <3>1, <3>2 DEF ShapeOK
    <2> QED
      BY <2>4, <2>5, <2>6
  <1> QED
    BY <1>1, <1>2, <1>3, LimitMoves

(* The limiters let through what they may, and refuse nobody for somebody    *)
(* else, however requests interleave (rate-limiting.ts, mcp/server.ts).    *)
THEOREM LimitersHold == Spec => []LimitsHold
  <1> DEFINE Inv == ShapeOK /\ RouteInv /\ WindowInv /\ AdmittedInv /\ BlameInv
  <1>1. Init => Inv
    BY RouteInit, LimitInit
  <1>2. Inv /\ [Next]_vars => Inv'
    BY ShapeNext, RouteNext, LimitNext
  <1>3. Inv => AdmittedWithinLimit
    BY DEF AdmittedWithinLimit, AdmittedInv, LimitOf
  <1>4. Inv => RefusedForOwnRequests
    <2> SUFFICES ASSUME Inv, NEW r \in Requests, NEW q \in blame[r]
                 PROVE  /\ req[q].ns = req[r].ns
                        /\ req[r].bearer.user # NoUser => req[q].bearer.user = req[r].bearer.user
      BY DEF RefusedForOwnRequests
    <2>1. PICK c \in Counters : CountedBy(c, r) /\ CountedBy(c, q)
      BY DEF BlameInv
    <2>2. /\ req[r] \in Inputs /\ req[q] \in Inputs
          /\ req[r].bearer # NoToken /\ req[q].bearer # NoToken
          /\ req[q].ns = req[r].ns
          /\ mcpRateLimitKey(req[r].bearer) = mcpRateLimitKey(req[q].bearer)
      BY <2>1 DEF CountedBy, AtLimiter
    <2> QED
      BY <2>2, IdsAssumption DEF mcpRateLimitKey
  <1>5. Inv => LimitsHold
    BY <1>3, <1>4 DEF LimitsHold
  <1>6. Spec => []Inv
    BY <1>1, <1>2, PTL DEF Spec
  <1> QED
    BY <1>5, <1>6, PTL

-----------------------------------------------------------------------------
(* Spans and samples.                                                      *)

\* A message is of no interest, or ends the span; the answer also ends the processing.
LEMMA ProcessStep ==
  ASSUME NEW r \in Requests, Process(r)
  PROVE  /\ processing[r] # "nothing"
         /\ \/ processing' = processing \/ processing' = [processing EXCEPT ![r] = "nothing"]
         /\ \/ UNCHANGED <<span, samples>>
            \/ \E status \in {"ok", "error"} :
                 /\ span' = [span EXCEPT ![r] = IF span[r] = "open" THEN status ELSE span[r]]
                 /\ samples' = [samples EXCEPT ![r] = samples[r] + 1]
                 /\ status = "ok" => processing' = [processing EXCEPT ![r] = "nothing"]
  <1> DEFINE m == Head(rest[r])
  <1>1. processing[r] # "nothing" /\ HandleMessage(r, m)
    BY DEF Process
  <1> HIDE DEF m
  <1>2. CASE m = "answer"
    BY <1>1, <1>2 DEF HandleMessage, End, Set
  <1>3. CASE m \in {"failure", "no response"}
    BY <1>1, <1>3 DEF HandleMessage, End, Set
  <1>4. CASE m \notin {"answer", "failure", "no response"}
    BY <1>1, <1>4 DEF HandleMessage, End, Set
  <1> QED
    BY <1>2, <1>3, <1>4

LEMMA TraceNext == TraceOK /\ [Next]_vars => TraceOK'
  <1> SUFFICES ASSUME TraceOK, [Next]_vars PROVE TraceOK'
    OBVIOUS
  <1>1. CASE UNCHANGED traceVars
    BY <1>1 DEF traceVars, TraceOK
  <1>2. ASSUME NEW r \in Requests, WrapRequest(r) PROVE TraceOK'
    BY <1>2 DEF WrapRequest, Set, TraceOK
  <1>3. ASSUME NEW r \in Requests, NEW a \in Answers, Forward(r, a) PROVE TraceOK'
    <2>1. a.msgs \in Seq(Messages) /\ a.content \in {"json", "stream", "other", "none"}
      BY AnswersAssumption DEF Answer
    <2>2. rest' = rest \/ rest' = [rest EXCEPT ![r] = a.msgs]
      BY <1>3 DEF Forward, Set, traceVars
    <2>3. Len(a.msgs) <= Len(a.msgs)
      BY <2>1
    <2>4. /\ rest' \in [Requests -> Seq(Messages)]
          /\ \A q \in Requests : \E b \in Answers : Len(rest'[q]) <= Len(b.msgs)
      BY <2>1, <2>2, <2>3 DEF TraceOK
    <2>5. /\ span' = span \/ span' = [span EXCEPT ![r] = "error"]
          /\ samples' = samples \/ samples' = [samples EXCEPT ![r] = 1]
          /\ processing' = processing \/ processing' = [processing EXCEPT ![r] = a.content]
      BY <1>3 DEF Forward, Set, traceVars
    <2>6. processing' \in [Requests -> {"nothing", "json", "stream"}]
      BY <1>3, <2>1 DEF Forward, Set, traceVars, TraceOK
    <2>7. span' \in [Requests -> {"none", "open", "ok", "error"}]
      BY <2>5 DEF TraceOK
    <2>8. samples' \in [Requests -> Nat]
      BY <2>5 DEF TraceOK
    <2> QED
      BY <2>4, <2>6, <2>7, <2>8 DEF TraceOK
  <1>4. ASSUME NEW r \in Requests, Process(r) PROVE TraceOK'
    <2>1. rest[r] \in Seq(Messages) /\ rest[r] # << >> /\ rest' = [rest EXCEPT ![r] = Tail(rest[r])]
      BY <1>4 DEF Process, Set, TraceOK
    <2>2. /\ Tail(rest[r]) \in Seq(Messages) /\ Len(Tail(rest[r])) <= Len(rest[r])
          /\ Len(Tail(rest[r])) \in Nat /\ Len(rest[r]) \in Nat
      BY <2>1
    <2>3. PICK a \in Answers : Len(rest[r]) <= Len(a.msgs) /\ a.msgs \in Seq(Messages)
      BY AnswersAssumption DEF TraceOK, Answer
    <2>4. Len(Tail(rest[r])) <= Len(a.msgs)
      BY <2>2, <2>3
    <2>5. /\ rest' \in [Requests -> Seq(Messages)]
          /\ \A q \in Requests : \E b \in Answers : Len(rest'[q]) <= Len(b.msgs)
      BY <2>1, <2>2, <2>4 DEF TraceOK
    <2>6. /\ processing' \in [Requests -> {"nothing", "json", "stream"}]
          /\ span' \in [Requests -> {"none", "open", "ok", "error"}]
          /\ samples' \in [Requests -> Nat]
      <3>1. CASE UNCHANGED <<span, samples>>
        BY <1>4, <3>1, ProcessStep DEF TraceOK
      <3>2. ASSUME NEW status \in {"ok", "error"},
                   span' = [span EXCEPT ![r] = IF span[r] = "open" THEN status ELSE span[r]],
                   samples' = [samples EXCEPT ![r] = samples[r] + 1]
            PROVE  /\ span' \in [Requests -> {"none", "open", "ok", "error"}]
                   /\ samples' \in [Requests -> Nat]
        BY <3>2 DEF TraceOK
      <3>3. processing' \in [Requests -> {"nothing", "json", "stream"}]
        BY <1>4, ProcessStep DEF TraceOK
      <3> QED
        BY <1>4, <3>1, <3>2, <3>3, ProcessStep
    <2> QED
      BY <2>5, <2>6 DEF TraceOK
  <1>5. ASSUME NEW r \in Requests, EndOfBody(r) \/ BreakOff(r) PROVE TraceOK'
    BY <1>5 DEF EndOfBody, BreakOff, Set, TraceOK
  <1>6. CASE ~\E r \in Requests :
               \/ WrapRequest(r) \/ Process(r) \/ EndOfBody(r) \/ BreakOff(r)
               \/ \E a \in Answers : Forward(r, a)
    BY <1>1, <1>6 DEF Next, Handle, vars, traceVars, Arrive, PassThrough, CheckAll, CheckTool,
                      LimiterFails, ForwardFails, Lapse
  <1> QED
    BY <1>2, <1>3, <1>4, <1>5, <1>6

\* Nothing is recorded before the request is forwarded, and nothing ever of one that was
\* refused; a span is open while there is no sample, and ends well with the only one.
SampleInv ==
  \A r \in Requests :
    /\ stage[r] # "done" =>
         /\ samples[r] = 0 /\ processing[r] = "nothing" /\ r \notin rejected
         /\ span[r] \in {"none", "open"} /\ (stage[r] # "fetch" => span[r] = "none")
    /\ r \in rejected =>
         samples[r] = 0 /\ processing[r] = "nothing" /\ reply[r] \notin {"none", "upstream"}
    /\ span[r] = "open" => samples[r] = 0
    /\ span[r] = "ok" => samples[r] = 1 /\ processing[r] = "nothing"

LEMMA SampleInit == Init => SampleInv
  BY DEF Init, SampleInv

\* What a step does with a request that takes no part in it.
LEMMA Bystander ==
  ASSUME ShapeOK, TraceOK, [Next]_vars, NEW q \in Requests,
         ~Handle(q), ~\E i \in Inputs : Arrive(q, i)
  PROVE  /\ stage'[q] = stage[q] /\ reply'[q] = reply[q] /\ (q \in rejected' <=> q \in rejected)
         /\ processing'[q] = processing[q] /\ span'[q] = span[q] /\ samples'[q] = samples[q]
  <1>1. ASSUME NEW r \in Requests, NEW i \in Inputs, Arrive(r, i), r # q
        PROVE  /\ stage'[q] = stage[q] /\ reply'[q] = reply[q] /\ (q \in rejected' <=> q \in rejected)
               /\ processing'[q] = processing[q] /\ span'[q] = span[q] /\ samples'[q] = samples[q]
    BY <1>1 DEF Arrive, Reject, Finish, Goto, Set, ShapeOK, traceVars
  <1>2. ASSUME NEW r \in Requests, Handle(r), r # q
        PROVE  /\ stage'[q] = stage[q] /\ reply'[q] = reply[q] /\ (q \in rejected' <=> q \in rejected)
    BY <1>2 DEF Handle, PassThrough, CheckAll, CheckTool, Check, Reject, LimiterFails, WrapRequest,
                Forward, ForwardFails, Process, EndOfBody, BreakOff, Finish, Goto, Set, ShapeOK
  <1>3. ASSUME NEW r \in Requests, Handle(r), r # q
        PROVE  processing'[q] = processing[q] /\ span'[q] = span[q] /\ samples'[q] = samples[q]
    BY <1>3 DEF Handle, PassThrough, CheckAll, CheckTool, LimiterFails, WrapRequest, Forward,
                ForwardFails, Process, HandleMessage, End, EndOfBody, BreakOff, Set, TraceOK, traceVars
  <1>4. CASE UNCHANGED vars \/ \E c \in Counters : Lapse(c)
    BY <1>4 DEF vars, Lapse, traceVars
  <1> QED
    BY <1>1, <1>2, <1>3, <1>4 DEF Next

LEMMA SampleNext == ShapeOK /\ TraceOK /\ SampleInv /\ [Next]_vars => SampleInv'
  <1> SUFFICES ASSUME ShapeOK, TraceOK, SampleInv, [Next]_vars, NEW r \in Requests
               PROVE  /\ stage'[r] # "done" =>
                           /\ samples'[r] = 0 /\ processing'[r] = "nothing" /\ r \notin rejected'
                           /\ span'[r] \in {"none", "open"}
                           /\ stage'[r] # "fetch" => span'[r] = "none"
                      /\ r \in rejected' =>
                           /\ samples'[r] = 0 /\ processing'[r] = "nothing"
                           /\ reply'[r] \notin {"none", "upstream"}
                      /\ span'[r] = "open" => samples'[r] = 0
                      /\ span'[r] = "ok" => samples'[r] = 1 /\ processing'[r] = "nothing"
    BY DEF SampleInv
  <1> USE DEF SampleInv, ShapeOK, TraceOK, Set
  <1>1. ASSUME NEW i \in Inputs, Arrive(r, i)
        PROVE  /\ stage[r] = "idle" /\ UNCHANGED traceVars
               /\ \/ stage'[r] = "done" /\ reply'[r] \in {"401", "404"} /\ rejected' = rejected \cup {r}
                  \/ stage'[r] \in {"pass", "all", "wrap"} /\ rejected' = rejected
    BY <1>1 DEF Arrive, Reject, Finish, Goto
  <1>2. CASE PassThrough(r) \/ LimiterFails(r) \/ ForwardFails(r)
    BY <1>2 DEF PassThrough, LimiterFails, ForwardFails, Finish, traceVars
  <1>3. CASE CheckAll(r) \/ CheckTool(r)
    BY <1>3 DEF CheckAll, CheckTool, Check, Reject, Finish, Goto, traceVars
  <1>4. CASE WrapRequest(r)
    BY <1>4 DEF WrapRequest, Finish, Goto
  <1>5. ASSUME NEW a \in Answers, Forward(r, a)
        PROVE  /\ stage[r] = "fetch" /\ stage'[r] = "done" /\ rejected' = rejected
               /\ \/ UNCHANGED traceVars
                  \/ span'[r] = "error" /\ samples'[r] = 1
                  \/ span'[r] = span[r] /\ samples'[r] = samples[r]
    BY <1>5 DEF Forward, Finish
  <1>6. CASE Process(r)
    <2>1. /\ stage[r] = "done" /\ span[r] # "ok" /\ r \notin rejected
          /\ UNCHANGED <<stage, rejected, reply>>
      BY <1>6 DEF Process
    <2>2. span[r] \in {"none", "open", "error"} /\ samples[r] \in Nat
      BY <2>1
    <2>3. CASE UNCHANGED <<span, samples>>
      BY <2>1, <2>2, <2>3
    <2>4. ASSUME NEW status \in {"ok", "error"},
                 span' = [span EXCEPT ![r] = IF span[r] = "open" THEN status ELSE span[r]],
                 samples' = [samples EXCEPT ![r] = samples[r] + 1],
                 status = "ok" => processing' = [processing EXCEPT ![r] = "nothing"]
          PROVE  /\ span'[r] # "open"
                 /\ span'[r] = "ok" => samples'[r] = 1 /\ processing'[r] = "nothing"
      <3>1. span'[r] = (IF span[r] = "open" THEN status ELSE span[r]) /\ samples'[r] = samples[r] + 1
        BY <2>4
      <3>2. span[r] = "open" => samples[r] = 0
        OBVIOUS
      <3> QED
        BY <2>2, <2>4, <3>1, <3>2
    <2> QED
      BY <1>6, <2>1, <2>3, <2>4, ProcessStep
  <1>7. CASE EndOfBody(r) \/ BreakOff(r)
    BY <1>7 DEF EndOfBody, BreakOff
  <1>8. CASE ~Handle(r) /\ ~\E i \in Inputs : Arrive(r, i)
    BY <1>8, Bystander
  <1> QED
    BY <1>1, <1>2, <1>3, <1>4, <1>5, <1>6, <1>7, <1>8 DEF Handle, traceVars

(* A refused request has no sample and no upstream answer, and a span that   *)
(* ended well has exactly one sample.  No more is said: a stream that brings *)
(* a failure before its answer may leave a sample of each, under a span that *)
(* ended with the failure (mcp/server.ts, mcp/otel.ts).                    *)
THEOREM SamplesTell == Spec => []SamplesTellTheOutcome
  <1> DEFINE Inv == ShapeOK /\ RouteInv /\ TraceOK /\ SampleInv
  <1>1. Init => Inv
    BY RouteInit, SampleInit
  <1>2. Inv /\ [Next]_vars => Inv'
    BY ShapeNext, RouteNext, TraceNext, SampleNext
  <1>3. Inv => SamplesTellTheOutcome
    BY DEF SampleInv, ShapeOK, SamplesTellTheOutcome, RejectedMeansRefused, OkIsRecordedOnce
  <1> QED
    BY <1>1, <1>2, <1>3, PTL DEF Spec

(* Stages, counters and records have their types (routes/mcp.ts).          *)
THEOREM ProxyTypeCorrect == Spec => []TypeOK
  <1>1. Init => ShapeOK /\ RouteInv /\ TraceOK
    BY RouteInit
  <1>2. ShapeOK /\ RouteInv /\ TraceOK /\ [Next]_vars => (ShapeOK /\ RouteInv /\ TraceOK)'
    BY ShapeNext, RouteNext, TraceNext
  <1>3. ShapeOK /\ RouteInv /\ TraceOK => TypeOK
    BY DEF ShapeOK, TraceOK, TypeOK
  <1> QED
    BY <1>1, <1>2, <1>3, PTL DEF Spec

-----------------------------------------------------------------------------
(* The answer of a stream.  AnswerEndsSpan is checked under fairness, which  *)
(* gives a request one more step, again and again; what follows is why each *)
(* of them brings processResponse nearer to the answer.                     *)

\* The answer is still among what the upstream is sending.
AnswerComes(r) == \E k \in DOMAIN rest[r] : rest[r][k] = "answer"

\* processResponse has found it, or the stream broke off before it.
Settled(r) == span[r] \in {"ok", "error"} \/ (processing[r] = "nothing" /\ AnswerComes(r))

(* While an answer is to come, it stays to come, and each step for its       *)
(* request takes one message off, until the span is settled.                *)
ReadsOn(r) ==
  processing[r] # "nothing" /\ AnswerComes(r) =>
    /\ Len(rest[r]) \in Nat
    /\ \/ Settled(r)'
       \/ /\ processing'[r] # "nothing" /\ AnswerComes(r)'
          /\ Len(rest'[r]) =< Len(rest[r])
          /\ Handle(r) => Len(rest'[r]) < Len(rest[r])

\* Only a request with a span has its answer read.
ReadInv == \A r \in Requests : processing[r] # "nothing" => span[r] # "none"

LEMMA RestOfOthers ==
  ASSUME TraceOK, [Next]_vars, NEW q \in Requests,
         ~Handle(q), ~\E i \in Inputs : Arrive(q, i)
  PROVE  rest'[q] = rest[q]
  <1>1. ASSUME NEW r \in Requests, NEW i \in Inputs, Arrive(r, i) PROVE rest' = rest
    BY <1>1 DEF Arrive, traceVars
  <1>2. ASSUME NEW r \in Requests, Handle(r), r # q PROVE rest'[q] = rest[q]
    BY <1>2 DEF Handle, PassThrough, CheckAll, CheckTool, LimiterFails, WrapRequest, Forward,
                ForwardFails, Process, EndOfBody, BreakOff, Set, TraceOK, traceVars
  <1>3. CASE UNCHANGED vars \/ \E c \in Counters : Lapse(c)
    BY <1>3 DEF vars, Lapse, traceVars
  <1> QED
    BY <1>1, <1>2, <1>3 DEF Next

LEMMA ReadNext == ShapeOK /\ TraceOK /\ SampleInv /\ ReadInv /\ [Next]_vars => ReadInv'
  <1> SUFFICES ASSUME ShapeOK, TraceOK, SampleInv, ReadInv, [Next]_vars,
                      NEW r \in Requests, processing'[r] # "nothing"
               PROVE  span'[r] # "none"
    BY DEF ReadInv
  <1> USE DEF ReadInv, TraceOK, Set
  <1>1. CASE ~Handle(r) /\ ~\E i \in Inputs : Arrive(r, i)
    BY <1>1, Bystander
  <1>2. CASE \/ PassThrough(r) \/ CheckAll(r) \/ CheckTool(r) \/ LimiterFails(r) \/ ForwardFails(r)
             \/ \E i \in Inputs : Arrive(r, i)
    BY <1>2 DEF PassThrough, CheckAll, CheckTool, LimiterFails, ForwardFails, Arrive, traceVars
  <1>3. CASE WrapRequest(r)
    <2>1. stage[r] = "wrap" /\ processing' = processing
      BY <1>3 DEF WrapRequest
    <2> QED
      BY <2>1 DEF SampleInv
  <1>4. ASSUME NEW a \in Answers, Forward(r, a) PROVE span'[r] # "none"
    BY <1>4 DEF Forward, SampleInv, traceVars
  <1>5. CASE Process(r)
    BY <1>5, ProcessStep
  <1>6. CASE EndOfBody(r) \/ BreakOff(r)
    BY <1>6 DEF EndOfBody, BreakOff
  <1> QED
    BY <1>1, <1>2, <1>3, <1>4, <1>5, <1>6 DEF Handle

LEMMA ReadStep ==
  ASSUME TraceOK, TraceOK', SampleInv, ReadInv, ShapeOK, [Next]_vars, NEW r \in Requests
  PROVE  ReadsOn(r)
  <1> SUFFICES ASSUME processing[r] # "nothing", AnswerComes(r) PROVE ReadsOn(r)
    BY DEF ReadsOn
  <1>1. rest[r] \in Seq(Messages) /\ stage[r] = "done" /\ span[r] \in {"open", "ok", "error"}
    BY DEF TraceOK, SampleInv, ReadInv
  <1>2. CASE ~Handle(r) /\ ~\E i \in Inputs : Arrive(r, i)
    <2>1. rest'[r] = rest[r] /\ processing'[r] = processing[r]
      BY <1>2, Bystander, RestOfOthers
    <2> QED
      BY <1>1, <1>2, <2>1 DEF ReadsOn, AnswerComes
  <1>3. CASE Process(r)
    <2> DEFINE m == Head(rest[r])
    <2>1. rest[r] # <<>> /\ rest'[r] = Tail(rest[r]) /\ HandleMessage(r, m)
      BY <1>3 DEF Process, Set, TraceOK
    <2>5. m = rest[r][1]
      BY <1>1, <2>1
    <2> HIDE DEF m
    <2>2. CASE m = "answer"
      <3>1. span' = [span EXCEPT ![r] = IF span[r] = "open" THEN "ok" ELSE span[r]]
        BY <2>1, <2>2 DEF HandleMessage, End, Set
      <3> QED
        BY <1>1, <3>1 DEF ReadsOn, Settled, TraceOK
    <2>3. CASE m \in {"failure", "no response"}
      <3>1. span' = [span EXCEPT ![r] = IF span[r] = "open" THEN "error" ELSE span[r]]
        BY <2>1, <2>3 DEF HandleMessage, End, Set
      <3> QED
        BY <1>1, <3>1 DEF ReadsOn, Settled, TraceOK
    <2>4. CASE m \notin {"answer", "failure", "no response"}
      <3>1. processing' = processing
        BY <2>1, <2>4 DEF HandleMessage
      <3>2. PICK k \in DOMAIN rest[r] : rest[r][k] = "answer"
        BY DEF AnswerComes
      <3>3. k \in 1..Len(rest[r]) /\ k # 1
        <4>1. DOMAIN rest[r] = 1..Len(rest[r]) /\ rest[r][1] = m
          BY <1>1, <2>5
        <4> QED
          BY <2>4, <3>2, <4>1
      <3>4. /\ Len(Tail(rest[r])) = Len(rest[r]) - 1 /\ Len(rest[r]) \in Nat
            /\ k - 1 \in DOMAIN Tail(rest[r]) /\ Tail(rest[r])[k - 1] = rest[r][k]
        BY <1>1, <2>1, <3>3
      <3> QED
        BY <2>1, <3>1, <3>2, <3>4 DEF ReadsOn, AnswerComes
    <2> QED
      BY <2>2, <2>3, <2>4
  <1>4. ~EndOfBody(r)
    <2>1. DOMAIN <<>> = {}
      OBVIOUS
    <2> QED
      BY <2>1 DEF EndOfBody, AnswerComes
  <1>5. CASE BreakOff(r)
    BY <1>1, <1>5 DEF BreakOff, ReadsOn, Settled, AnswerComes, Set, TraceOK
  <1>6. ~\E i \in Inputs : Arrive(r, i)
    BY <1>1 DEF Arrive
  <1>7. Handle(r) => Process(r) \/ EndOfBody(r) \/ BreakOff(r)
    BY <1>1 DEF Handle, PassThrough, CheckAll, CheckTool, LimiterFails, WrapRequest, Forward,
                ForwardFails
  <1> QED
    BY <1>2, <1>3, <1>4, <1>5, <1>6, <1>7

(* What AnswerEndsSpan needs besides fairness, for streams of any length    *)
(* and any number of requests: nothing but a message taken off, a settled   *)
(* span or a broken stream happens to a request whose answer is to come;    *)
(* no event before it and no other request sets it back (processResponse).  *)
THEOREM AnswersDrawNearer == Spec => [][\A r \in Requests : ReadsOn(r)]_vars
  <1> DEFINE Inv == ShapeOK /\ RouteInv /\ TraceOK /\ SampleInv /\ ReadInv
  <1>1. Init => Inv
    <2>1. Init => ReadInv
      BY DEF Init, ReadInv
    <2> QED
      BY <2>1, RouteInit, SampleInit
  <1>2. Inv /\ [Next]_vars => Inv'
    BY ShapeNext, RouteNext, TraceNext, SampleNext, ReadNext
  <1>3. Inv /\ Inv' /\ [Next]_vars => \A r \in Requests : ReadsOn(r)
    BY ReadStep
  <1> QED
    BY <1>1, <1>2, <1>3, PTL DEF Spec

=============================================================================
