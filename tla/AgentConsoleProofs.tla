------------------------- MODULE AgentConsoleProofs --------------------------
(* What is proved of the agent: its graph of nodes with the approval gate,  *)
(* and the web console that runs it.                                        *)
EXTENDS AgentConsole, SequenceTheorems, WellFoundedInduction, TLAPS

(***************************************************************************)
(* Theorems of AgentGraph: its types; that what a run executes was approved *)
(* in that run and allowed by the settings it started with; that a record  *)
(* is complete; and that the graph implements ApprovalGate.                *)
(***************************************************************************)

-----------------------------------------------------------------------------
(* The payload.                                                            *)

(* A nonempty set of positions in a sequence has a last one: no infinite    *)
(* ascent within 1..n.                                                      *)
LEMMA LastPosition ==
  ASSUME NEW n \in Nat, NEW S \in SUBSET (1..n), S # {}
  PROVE  \E i \in S : \A j \in S : j <= i
<1> DEFINE T == {n - i : i \in S}
<1>1. T \subseteq Nat /\ T # {}
  <2>1. \A i \in S : i \in Nat /\ i <= n
    OBVIOUS
  <2>2. \A i \in S : n - i \in Nat
    BY <2>1
  <2>3. PICK i \in S : TRUE
    OBVIOUS
  <2>4. n - i \in T
    BY <2>3
  <2> QED
    BY <2>2, <2>4
<1>2. PICK x \in T : \A y \in T : ~ (<<y, x>> \in OpToRel(<, Nat))
  <2> HIDE DEF T
  <2> QED
    BY <1>1, NatLessThanWellFounded, WFMin
<1>3. PICK i \in S : x = n - i
  BY <1>2
<1>4. ASSUME NEW j \in S PROVE j <= i
  <2>1. n - j \in T /\ n - j \in Nat /\ n - i \in Nat
    OBVIOUS
  <2>2. ~ (n - j < n - i)
    BY <1>2, <1>3, <2>1 DEF OpToRel
  <2> QED
    BY <2>2
<1> QED
  BY <1>4

(* The operation shown for approval is one of the plan's, and it asks.      *)
LEMMA PayloadAsks ==
  ASSUME NEW s, NEW p \in Seq(Action)
  PROVE  /\ Payload(s, p) \in Nat
         /\ Payload(s, p) # 0 =>
              Payload(s, p) \in DOMAIN p /\ NeedsApproval(s, p[Payload(s, p)])
<1>1. CASE Asking(s, p) = {}
  BY <1>1 DEF Payload
<1>2. CASE Asking(s, p) # {}
  <2>1. Asking(s, p) \subseteq 1..Len(p) /\ Len(p) \in Nat
    BY LenProperties DEF Asking
  <2>2. \E i \in Asking(s, p) : \A j \in Asking(s, p) : j <= i
    BY <1>2, <2>1, LastPosition
  <2>3. Payload(s, p) \in Asking(s, p)
    BY <1>2, <2>2 DEF Payload
  <2> QED
    BY <2>1, <2>3 DEF Asking
<1> QED
  BY <1>1, <1>2

(* What asks is allowed, and is of a class that only a user may decide on.  *)
LEMMA AskingIsSensitive ==
  ASSUME NEW s \in Settings, NEW a \in Action, NeedsApproval(s, a)
  PROVE  /\ ~ s.readOnly
         /\ InScope(s, a.repos)
         /\ Risk[a.tool] \in {"sensitive_write", "destructive"}
BY DEF NeedsApproval, Allowed, RequiresApproval, IsRead

-----------------------------------------------------------------------------
(* Appending events to a trail.                                            *)

LEMMA NoteKeeps ==
  ASSUME NEW t \in Seq(Event), NEW e \in Seq(Event)
  PROVE  /\ t \o e \in Seq(Event)
         /\ DOMAIN t \subseteq DOMAIN (t \o e)
         /\ \A k \in DOMAIN t : (t \o e)[k] = t[k]
         /\ \A k \in DOMAIN (t \o e) \ DOMAIN t :
              k - Len(t) \in DOMAIN e /\ (t \o e)[k] = e[k - Len(t)]
BY ConcatProperties, LenProperties

LEMMA EventType ==
  ASSUME NEW kind \in Kinds, NEW op \in Nat,
         NEW says \in Decisions \cup {"ok", "error", "blocked", "none"}
  PROVE  Ev(kind, op, says) \in Event
BY DEF Ev, Event

-----------------------------------------------------------------------------
(* Types.                                                                  *)

LEMMA PlanType ==
  ASSUME GraphTypeOK, NEW r \in Runs
  PROVE  plan[r] \in Seq(Action)
BY GraphAssumption, EmptySeq DEF GraphTypeOK

LEMMA NoteType ==
  ASSUME GraphTypeOK, NEW r \in Runs, NEW e \in Seq(Event), Note(r, e)
  PROVE  trail' \in [Runs -> Seq(Event)]
<1>1. trail[r] \o e \in Seq(Event)
  BY NoteKeeps DEF GraphTypeOK
<1> QED
  BY <1>1 DEF Note, GraphTypeOK

LEMMA TypeInit == GraphInit => GraphTypeOK
<1> SUFFICES ASSUME GraphInit PROVE GraphTypeOK
  OBVIOUS
<1> QED
  BY EmptySeq DEF GraphInit, GraphTypeOK, Places

LEMMA TypeStep == GraphTypeOK /\ [GraphNext]_graphVars => GraphTypeOK'
<1> SUFFICES ASSUME GraphTypeOK, [GraphNext]_graphVars PROVE GraphTypeOK'
  OBVIOUS
<1> USE DEF GraphTypeOK, Places, Nodes
<1>1. ASSUME NEW r \in Runs, Start(r) PROVE GraphTypeOK'
  BY <1>1 DEF Start, Goto
<1>2. ASSUME NEW r \in Runs, Interpret(r) PROVE GraphTypeOK'
  <2>1. /\ <<Ev("interpret", 0, "none"), Ev("classify", 0, "none")>> \in Seq(Event)
        /\ <<Ev("interpret", 0, "blocked"), Ev("classify", 0, "none")>> \in Seq(Event)
    BY EventType DEF Kinds
  <2>2. trail' \in [Runs -> Seq(Event)]
    BY <1>2, <2>1, NoteType DEF Interpret
  <2>3. plan' \in [Runs -> Plans \cup {<<>>}] /\ blocked' \in [Runs -> BOOLEAN]
    BY <1>2 DEF Interpret
  <2> QED
    BY <1>2, <2>2, <2>3 DEF Interpret, Goto
<1>3. ASSUME NEW r \in Runs, PlanNode(r) PROVE GraphTypeOK'
  <2>1. <<Ev("plan", Payload(cfg[r], plan[r]), "none")>> \in Seq(Event)
    BY EventType, PayloadAsks, PlanType DEF Kinds
  <2>2. trail' \in [Runs -> Seq(Event)]
    BY <1>3, <2>1, NoteType DEF PlanNode
  <2> QED
    BY <1>3, <2>2 DEF PlanNode, Goto
<1>4. ASSUME NEW r \in Runs, Skip(r) PROVE GraphTypeOK'
  BY <1>4 DEF Skip
<1>5. ASSUME NEW r \in Runs, ReadAction(r) PROVE GraphTypeOK'
  <2>1. PICK ok \in BOOLEAN, reached \in BOOLEAN :
          /\ called' = [called EXCEPT ![r] = IF reached THEN @ \cup {next[r]} ELSE @]
          /\ findings' = [findings EXCEPT ![r] =
                            Append(@, [op |-> next[r], isError |-> ~ ok])]
          /\ Note(r, <<Ev("tool_call", next[r], IF ok THEN "ok" ELSE "error")>>)
    BY <1>5 DEF ReadAction
  <2>2. <<Ev("tool_call", next[r], IF ok THEN "ok" ELSE "error")>> \in Seq(Event)
    BY EventType DEF Kinds
  <2>3. trail' \in [Runs -> Seq(Event)]
    BY <2>1, <2>2, NoteType
  <2>4. findings' \in [Runs -> Seq(Finding)]
    BY <2>1 DEF Finding
  <2>5. called' \in [Runs -> SUBSET Nat]
    BY <2>1
  <2> QED
    BY <1>5, <2>3, <2>4, <2>5 DEF ReadAction
<1>6. ASSUME NEW r \in Runs, SubgraphDone(r) PROVE GraphTypeOK'
  BY <1>6 DEF SubgraphDone, Goto
<1>7. ASSUME NEW r \in Runs, Policy(r) PROVE GraphTypeOK'
  <2>1. <<Ev("evidence", 0, "none"), Ev("policy", 0, "none")>> \in Seq(Event)
    BY EventType DEF Kinds
  <2>2. trail' \in [Runs -> Seq(Event)]
    BY <1>7, <2>1, NoteType DEF Policy
  <2> QED
    BY <1>7, <2>2 DEF Policy, Goto
<1>8. ASSUME NEW r \in Runs, Execute(r) PROVE GraphTypeOK'
  <2>1. Payload(cfg[r], plan[r]) \in Nat
    BY PayloadAsks, PlanType
  <2>2. <<Ev("execute", Payload(cfg[r], plan[r]), "error")>> \in Seq(Event)
    BY <2>1, EventType DEF Kinds
  <2>3. trail' \in [Runs -> Seq(Event)]
    BY <1>8, <2>2, NoteType DEF Execute
  <2>4. findings' \in [Runs -> Seq(Finding)]
    BY <1>8, <2>1 DEF Execute, Finding
  <2> QED
    BY <1>8, <2>3, <2>4 DEF Execute, Goto
<1>9. ASSUME NEW r \in Runs, Audit(r) PROVE GraphTypeOK'
  <2>1. [outcome |-> Outcome(r), events |-> trail[r]] \in Record
    BY DEF Record, Outcome, Outcomes
  <2> QED
    BY <1>9, <2>1 DEF Audit, Goto
<1>10. ASSUME NEW r \in Runs, Lose(r) PROVE GraphTypeOK'
  BY <1>10, EmptySeq DEF Lose, Goto
<1>11. ASSUME NEW r \in Runs, NEW reply \in Replies, Reply(r, reply) PROVE GraphTypeOK'
  <2>1. DecisionOf(reply) \in Decisions
    BY DEF DecisionOf, Replies, Decisions
  <2>2. <<Ev("approval", Payload(cfg[r], plan[r]), DecisionOf(reply))>> \in Seq(Event)
    BY <2>1, EventType, PayloadAsks, PlanType DEF Kinds
  <2>3. trail' \in [Runs -> Seq(Event)]
    BY <1>11, <2>2, NoteType DEF Reply
  <2> QED
    BY <1>11, <2>1, <2>3 DEF Reply, Goto, RouteAfterApproval
<1>12. ASSUME NEW s \in Envs, Configure(s) PROVE GraphTypeOK'
  BY <1>12 DEF Configure
<1>13. CASE UNCHANGED graphVars
  BY <1>13 DEF graphVars
<1> QED
  BY <1>1, <1>2, <1>3, <1>4, <1>5, <1>6, <1>7, <1>8, <1>9, <1>10, <1>11, <1>12, <1>13
     DEF GraphNext, Proceed

(* Every variable of the graph keeps its type: in particular a trail only   *)
(* ever holds well-formed events and a run is always at one of its nodes.   *)
THEOREM GraphTypeCorrect == GraphSpec => []GraphTypeOK
<1> QED
  BY TypeInit, TypeStep, PTL DEF GraphSpec

-----------------------------------------------------------------------------
(* Executed only what was approved.  The property is not inductive by       *)
(* itself: GateInv says why, at the "execute" node, the approval is in the  *)
(* trail, and why a plan is only made while the trail is empty.             *)

GraphInv == GraphTypeOK /\ GateInv /\ ExecutedOnlyApproved

(* An event once vouched for stays so while the run keeps its plan, its     *)
(* settings and the events it has.                                          *)
LEMMA VouchedStays ==
  ASSUME GraphTypeOK, NEW r \in Runs, NEW i \in Nat, NEW k \in DOMAIN trail[r],
         Vouched(r, i, k), plan'[r] = plan[r], cfg'[r] = cfg[r],
         \A h \in DOMAIN trail[r] : trail'[r][h] = trail[r][h]
  PROVE  Vouched(r, i, k)'
<1>1. 1..k \subseteq DOMAIN trail[r]
  BY LenProperties DEF GraphTypeOK
<1>2. PICK h \in 1..k : trail[r][h] = Ev("approval", i, "approve")
  BY DEF Vouched
<1>3. trail'[r][h] = Ev("approval", i, "approve")
  BY <1>1, <1>2
<1> QED
  BY <1>3 DEF Vouched, Ev

(* A run whose trail, plan and settings do not change, or whose trail is    *)
(* dropped, has nothing to answer for.                                      *)
LEMMA NothingExecuted ==
  ASSUME GraphInv, NEW r \in Runs, NEW k \in DOMAIN trail'[r], NEW i,
         trail'[r][k].kind = "execute", trail'[r][k].op = i,
         trail'[r] = <<>> \/ (trail'[r] = trail[r] /\ plan'[r] = plan[r] /\ cfg'[r] = cfg[r])
  PROVE  Vouched(r, i, k)'
<1>1. DOMAIN <<>> = {}
  OBVIOUS
<1>2. trail'[r] = trail[r] /\ plan'[r] = plan[r] /\ cfg'[r] = cfg[r]
  BY <1>1
<1>3. trail[r][k] \in Event /\ k \in DOMAIN trail[r]
  BY <1>2, ElementOfSeq DEF GraphInv, GraphTypeOK
<1>4. Vouched(r, trail[r][k].op, k)
  BY <1>2, <1>3 DEF GraphInv, ExecutedOnlyApproved
<1>5. trail[r][k].op \in Nat
  BY <1>3 DEF Event
<1> QED
  BY <1>2, <1>3, <1>4, <1>5, VouchedStays DEF GraphInv

(* A run notes events that execute nothing.                                 *)
LEMMA NoteInnocent ==
  ASSUME GraphInv, NEW r \in Runs, NEW e \in Seq(Event), Note(r, e),
         \A k \in DOMAIN e : e[k].kind # "execute",
         cfg' = cfg, plan'[r] = plan[r] \/ trail[r] = <<>>,
         NEW k \in DOMAIN trail'[r], NEW i,
         trail'[r][k].kind = "execute", trail'[r][k].op = i
  PROVE  Vouched(r, i, k)'
<1>1. trail'[r] = trail[r] \o e /\ trail[r] \in Seq(Event)
  BY DEF Note, GraphInv, GraphTypeOK
<1>2. k \in DOMAIN trail[r]
  BY <1>1, NoteKeeps
<1>3. \A h \in DOMAIN trail[r] : trail'[r][h] = trail[r][h]
  BY <1>1, NoteKeeps
<1>4. trail[r][k].kind = "execute" /\ trail[r][k] \in Event
  BY <1>1, <1>2, <1>3, ElementOfSeq
<1>5. Vouched(r, trail[r][k].op, k) /\ trail[r][k].op \in Nat
  BY <1>2, <1>4 DEF GraphInv, ExecutedOnlyApproved, Event
<1>6. plan'[r] = plan[r] /\ cfg'[r] = cfg[r]
  BY <1>2
<1> QED
  BY <1>2, <1>3, <1>5, <1>6, VouchedStays DEF GraphInv

(* The event of the "execute" node is vouched for by GateInv.               *)
LEMMA ExecuteVouched ==
  ASSUME GraphInv, NEW r \in Runs, Execute(r), NEW k \in DOMAIN trail'[r], NEW i,
         trail'[r][k].kind = "execute", trail'[r][k].op = i
  PROVE  Vouched(r, i, k)'
<1> DEFINE p == Payload(cfg[r], plan[r])
           e == <<Ev("execute", p, "error")>>
<1>1. p \in Nat /\ p # 0 /\ p \in DOMAIN plan[r] /\ NeedsApproval(cfg[r], plan[r][p])
  BY PayloadAsks, PlanType DEF GraphInv, GateInv, ApprovalRequired, Execute
<1>2. e \in Seq(Event)
  BY <1>1, EventType DEF Kinds
<1>3. trail'[r] = trail[r] \o e /\ trail[r] \in Seq(Event)
  BY DEF Execute, Note, GraphInv, GraphTypeOK
<1>4. \A h \in DOMAIN trail[r] : trail'[r][h] = trail[r][h]
  BY <1>2, <1>3, NoteKeeps
<1>5. plan'[r] = plan[r] /\ cfg'[r] = cfg[r]
  BY DEF Execute
<1>6. CASE k \in DOMAIN trail[r]
  <2>1. trail[r][k].kind = "execute" /\ trail[r][k] \in Event
    BY <1>3, <1>4, <1>6, ElementOfSeq
  <2>2. Vouched(r, trail[r][k].op, k) /\ trail[r][k].op \in Nat
    BY <1>6, <2>1 DEF GraphInv, ExecutedOnlyApproved, Event
  <2> QED
    BY <1>4, <1>5, <1>6, <2>2, VouchedStays DEF GraphInv
<1>7. CASE k \notin DOMAIN trail[r]
  <2>1. trail'[r][k] = Ev("execute", p, "error")
    <3>1. k - Len(trail[r]) \in DOMAIN e /\ trail'[r][k] = e[k - Len(trail[r])]
      BY <1>2, <1>3, <1>7, NoteKeeps
    <3> QED
      BY <3>1
  <2>2. p = i
    BY <2>1 DEF Ev
  <2>3. PICK h \in DOMAIN trail[r] : trail[r][h] = Ev("approval", p, "approve")
    BY DEF GraphInv, GateInv, Execute
  <2>4. h \in 1..k
    <3>1. trail'[r] \in Seq(Event)
      BY <1>2, <1>3, NoteKeeps
    <3>2. /\ DOMAIN trail[r] = 1..Len(trail[r]) /\ Len(trail[r]) \in Nat
          /\ DOMAIN trail'[r] = 1..Len(trail'[r]) /\ Len(trail'[r]) \in Nat
      BY <1>3, <3>1, LenProperties
    <3> QED
      BY <1>7, <2>3, <3>2
  <2>5. trail'[r][h] = Ev("approval", p, "approve")
    BY <1>4, <2>3
  <2>6. cfg[r] \in Settings /\ plan[r][p] \in Action
    BY <1>1, PlanType, ElementOfSeq, LenProperties, GraphAssumption
       DEF GraphInv, GraphTypeOK
  <2>7. /\ ~ cfg[r].readOnly
        /\ InScope(cfg[r], plan[r][p].repos)
        /\ Risk[plan[r][p].tool] \in {"sensitive_write", "destructive"}
    BY <1>1, <2>6, AskingIsSensitive
  <2> QED
    BY <1>1, <1>5, <2>2, <2>4, <2>5, <2>7 DEF Vouched, Ev
<1> QED
  BY <1>6, <1>7

LEMMA ExecutedStep == GraphInv /\ [GraphNext]_graphVars => ExecutedOnlyApproved'
<1> SUFFICES ASSUME GraphInv, [GraphNext]_graphVars,
                    NEW q \in Runs, NEW k \in DOMAIN trail'[q],
                    NEW i, trail'[q][k].kind = "execute", trail'[q][k].op = i
             PROVE  Vouched(q, i, k)'
  BY DEF ExecutedOnlyApproved, Vouched
<1> DEFINE Quiet == trail'[q] = <<>>
                    \/ (trail'[q] = trail[q] /\ plan'[q] = plan[q] /\ cfg'[q] = cfg[q])
<1>q. CASE Quiet
  BY <1>q, NothingExecuted
<1>1. ASSUME NEW r \in Runs, Start(r) PROVE Quiet
  BY <1>1 DEF Start, GraphInv, GateInv, GraphTypeOK
<1>2. ASSUME NEW r \in Runs, Interpret(r) PROVE Vouched(q, i, k)'
  <2>1. CASE q # r
    BY <1>2, <1>q, <2>1 DEF Interpret, Note, GraphInv, GraphTypeOK
  <2>2. CASE q = r
    <3>1. PICK says \in {"none", "blocked"} :
            Note(r, <<Ev("interpret", 0, says), Ev("classify", 0, "none")>>)
      BY <1>2 DEF Interpret
    <3> DEFINE e == <<Ev("interpret", 0, says), Ev("classify", 0, "none")>>
    <3>2. e \in Seq(Event)
      <4>1. Ev("interpret", 0, says) \in Event /\ Ev("classify", 0, "none") \in Event
        BY EventType DEF Kinds
      <4> QED
        BY <4>1
    <3>3. \A h \in DOMAIN e : e[h].kind # "execute"
      BY DEF Ev
    <3> QED
      BY <1>2, <2>2, <3>1, <3>2, <3>3, NoteInnocent DEF Interpret, GraphInv, GateInv
  <2> QED
    BY <2>1, <2>2
<1>3. ASSUME NEW r \in Runs, PlanNode(r) PROVE Vouched(q, i, k)'
  <2>1. CASE q # r \/ UNCHANGED trail
    BY <1>3, <1>q, <2>1 DEF PlanNode, Note, GraphInv, GraphTypeOK
  <2>2. CASE q = r /\ ~ UNCHANGED trail
    <3> DEFINE e == <<Ev("plan", Payload(cfg[r], plan[r]), "none")>>
    <3>1. e \in Seq(Event) /\ Note(r, e)
      BY <1>3, <2>2, EventType, PayloadAsks, PlanType DEF Kinds, PlanNode, GraphInv
    <3>2. \A h \in DOMAIN e : e[h].kind # "execute"
      BY DEF Ev
    <3> QED
      BY <1>3, <2>2, <3>1, <3>2, NoteInnocent DEF PlanNode
  <2> QED
    BY <2>1, <2>2
<1>4. ASSUME NEW r \in Runs, Skip(r) PROVE Quiet
  BY <1>4 DEF Skip
<1>5. ASSUME NEW r \in Runs, ReadAction(r) PROVE Vouched(q, i, k)'
  <2>1. PICK ok \in BOOLEAN :
          Note(r, <<Ev("tool_call", next[r], IF ok THEN "ok" ELSE "error")>>)
    BY <1>5 DEF ReadAction
  <2> DEFINE e == <<Ev("tool_call", next[r], IF ok THEN "ok" ELSE "error")>>
  <2>2. CASE q # r
    BY <1>5, <1>q, <2>1, <2>2 DEF ReadAction, Note, GraphInv, GraphTypeOK
  <2>3. CASE q = r
    <3>1. e \in Seq(Event)
      <4>1. next[r] \in Nat
        BY DEF GraphInv, GraphTypeOK
      <4>2. Ev("tool_call", next[r], IF ok THEN "ok" ELSE "error") \in Event
        BY <4>1, EventType DEF Kinds
      <4> QED
        BY <4>2
    <3>2. \A h \in DOMAIN e : e[h].kind # "execute"
      BY DEF Ev
    <3> QED
      BY <1>5, <2>1, <2>3, <3>1, <3>2, NoteInnocent DEF ReadAction
  <2> QED
    BY <2>2, <2>3
<1>6. ASSUME NEW r \in Runs, SubgraphDone(r) PROVE Quiet
  BY <1>6 DEF SubgraphDone
<1>7. ASSUME NEW r \in Runs, Policy(r) PROVE Vouched(q, i, k)'
  <2> DEFINE e == <<Ev("evidence", 0, "none"), Ev("policy", 0, "none")>>
  <2>1. CASE q # r
    BY <1>7, <1>q, <2>1 DEF Policy, Note, GraphInv, GraphTypeOK
  <2>2. CASE q = r
    <3>1. e \in Seq(Event)
      BY EventType DEF Kinds
    <3>2. \A h \in DOMAIN e : e[h].kind # "execute"
      BY DEF Ev
    <3> QED
      BY <1>7, <2>2, <3>1, <3>2, NoteInnocent DEF Policy
  <2> QED
    BY <2>1, <2>2
<1>8. ASSUME NEW r \in Runs, Execute(r) PROVE Vouched(q, i, k)'
  <2>1. CASE q # r
    BY <1>8, <1>q, <2>1 DEF Execute, Note, GraphInv, GraphTypeOK
  <2>2. CASE q = r
    BY <1>8, <2>2, ExecuteVouched
  <2> QED
    BY <2>1, <2>2
<1>9. ASSUME NEW r \in Runs, Audit(r) PROVE Quiet
  BY <1>9 DEF Audit
<1>10. ASSUME NEW r \in Runs, Lose(r) PROVE Quiet
  BY <1>10 DEF Lose, GraphInv, GraphTypeOK
<1>11. ASSUME NEW r \in Runs, NEW reply \in Replies, Reply(r, reply)
       PROVE  Vouched(q, i, k)'
  <2> DEFINE e == <<Ev("approval", Payload(cfg[r], plan[r]), DecisionOf(reply))>>
  <2>1. CASE q # r
    BY <1>11, <1>q, <2>1 DEF Reply, Note, GraphInv, GraphTypeOK
  <2>2. CASE q = r
    <3>1. e \in Seq(Event)
      BY EventType, PayloadAsks, PlanType
         DEF Kinds, GraphInv, DecisionOf, Replies, Decisions
    <3>2. \A h \in DOMAIN e : e[h].kind # "execute"
      BY DEF Ev
    <3> QED
      BY <1>11, <2>2, <3>1, <3>2, NoteInnocent DEF Reply
  <2> QED
    BY <2>1, <2>2
<1>12. ASSUME NEW s \in Envs, Configure(s) PROVE Quiet
  BY <1>12 DEF Configure
<1>13. CASE UNCHANGED graphVars
  BY <1>q, <1>13 DEF graphVars
<1> QED
  BY <1>q, <1>1, <1>2, <1>3, <1>4, <1>5, <1>6, <1>7, <1>8, <1>9, <1>10, <1>11,
     <1>12, <1>13 DEF GraphNext, Proceed

LEMMA GateStep == GraphInv /\ [GraphNext]_graphVars => GateInv'
<1> SUFFICES ASSUME GraphInv, [GraphNext]_graphVars PROVE GateInv'
  OBVIOUS
<1> USE DEF GateInv, ApprovalRequired, GraphInv, GraphTypeOK, Places, Nodes
<1>1. ASSUME NEW r \in Runs, Start(r) PROVE GateInv'
  BY <1>1 DEF Start, Goto
<1>2. ASSUME NEW r \in Runs, Interpret(r) PROVE GateInv'
  <2>1. \A q \in Runs \ {r} : trail'[q] = trail[q] /\ plan'[q] = plan[q]
    BY <1>2 DEF Interpret, Note
  <2> QED
    BY <1>2, <2>1 DEF Interpret, Goto
<1>3. ASSUME NEW r \in Runs, PlanNode(r) PROVE GateInv'
  <2>1. \A q \in Runs \ {r} : trail'[q] = trail[q]
    BY <1>3 DEF PlanNode, Note
  <2> QED
    BY <1>3, <2>1 DEF PlanNode, Goto
<1>4. ASSUME NEW r \in Runs, Skip(r) PROVE GateInv'
  BY <1>4 DEF Skip
<1>5. ASSUME NEW r \in Runs, ReadAction(r) PROVE GateInv'
  <2>1. \A q \in Runs \ {r} : trail'[q] = trail[q]
    BY <1>5 DEF ReadAction, Note
  <2>2. node[r] = "artifactory_subgraph" /\ node' = node /\ cfg' = cfg /\ plan' = plan
    BY <1>5 DEF ReadAction, AtAction
  <2> QED
    BY <2>1, <2>2
<1>6. ASSUME NEW r \in Runs, SubgraphDone(r) PROVE GateInv'
  BY <1>6 DEF SubgraphDone, Goto
<1>7. ASSUME NEW r \in Runs, Policy(r) PROVE GateInv'
  <2>1. \A q \in Runs \ {r} : trail'[q] = trail[q]
    BY <1>7 DEF Policy, Note
  <2> QED
    BY <1>7, <2>1 DEF Policy, Goto
<1>8. ASSUME NEW r \in Runs, Execute(r) PROVE GateInv'
  <2>1. \A q \in Runs \ {r} : trail'[q] = trail[q]
    BY <1>8 DEF Execute, Note
  <2> QED
    BY <1>8, <2>1 DEF Execute, Goto
<1>9. ASSUME NEW r \in Runs, Audit(r) PROVE GateInv'
  BY <1>9 DEF Audit, Goto
<1>10. ASSUME NEW r \in Runs, Lose(r) PROVE GateInv'
  BY <1>10 DEF Lose, Goto
<1>11. ASSUME NEW r \in Runs, NEW reply \in Replies, Reply(r, reply) PROVE GateInv'
  <2> DEFINE d == DecisionOf(reply)
             e == <<Ev("approval", Payload(cfg[r], plan[r]), d)>>
  <2>1. e \in Seq(Event) /\ trail[r] \in Seq(Event)
    BY EventType, PayloadAsks, PlanType DEF Kinds, DecisionOf, Replies, Decisions
  <2>2. trail'[r] = trail[r] \o e /\ \A q \in Runs \ {r} : trail'[q] = trail[q]
    BY <1>11 DEF Reply, Note
  <2>3. /\ Len(trail[r]) + 1 \in DOMAIN trail'[r]
        /\ trail'[r][Len(trail[r]) + 1] = Ev("approval", Payload(cfg[r], plan[r]), d)
    BY <2>1, <2>2, ConcatProperties, LenProperties
  <2>4. node'[r] = "execute" => d = "approve"
    BY <1>11 DEF Reply, Goto, RouteAfterApproval
  <2>5. node'[r] \in {"execute", "audit"}
    BY <1>11 DEF Reply, Goto, RouteAfterApproval
  <2>6. cfg' = cfg /\ plan' = plan /\ \A q \in Runs \ {r} : node'[q] = node[q]
    BY <1>11 DEF Reply, Goto
  <2>7. ApprovalRequired(r)
    BY <1>11 DEF Reply
  <2> QED
    BY <2>2, <2>3, <2>4, <2>5, <2>6, <2>7 DEF Ev
<1>12. ASSUME NEW s \in Envs, Configure(s) PROVE GateInv'
  BY <1>12 DEF Configure
<1>13. CASE UNCHANGED graphVars
  BY <1>13 DEF graphVars
<1> QED
  BY <1>1, <1>2, <1>3, <1>4, <1>5, <1>6, <1>7, <1>8, <1>9, <1>10, <1>11, <1>12, <1>13
     DEF GraphNext, Proceed

LEMMA InvInit == GraphInit => GraphInv
<1> SUFFICES ASSUME GraphInit PROVE GateInv /\ ExecutedOnlyApproved
  BY TypeInit DEF GraphInv
<1>1. \A r \in Runs : node[r] = "fresh" /\ trail[r] = <<>>
  BY DEF GraphInit
<1> QED
  BY <1>1 DEF GateInv, ExecutedOnlyApproved

(* For every plan, every set of tools and settings and any number of runs:  *)
(* whatever the "execute" node acts on was approved in that run before, and *)
(* was allowed by the settings the run started with.                        *)
THEOREM ExecutedOnlyApprovedHolds == GraphSpec => []ExecutedOnlyApproved
<1>1. GraphInit => GraphInv
  BY InvInit
<1>2. GraphInv /\ [GraphNext]_graphVars => GraphInv'
  BY TypeStep, GateStep, ExecutedStep DEF GraphInv
<1>3. GraphInv => ExecutedOnlyApproved
  BY DEF GraphInv
<1> QED
  BY <1>1, <1>2, <1>3, PTL DEF GraphSpec

-----------------------------------------------------------------------------
(* What a trail tells.  Neither RecordIsComplete nor the refinement is       *)
(* inductive: Tells says, at every node, what is in the trail already, and   *)
(* that findings, block and decision agree with it.                         *)

Has(t, kind) == \E k \in DOMAIN t : t[k].kind = kind
AskedOnce(t) ==
  \A h, k \in DOMAIN t : t[h].kind = "approval" /\ t[k].kind = "approval" => h = k
NotesCalls(t, ops) ==
  \A i \in ops : \E k \in DOMAIN t : t[k].kind = "tool_call" /\ t[k].op = i

Tells(r) ==
  /\ next[r] # 0
  /\ blocked[r] => plan[r] = <<>> /\ called[r] = {}
  /\ called[r] # {} => findings[r] # <<>>
  /\ node[r] \in {"fresh", "interpret"} => plan[r] = <<>> /\ called[r] = {} /\ ~ blocked[r]
  /\ node[r] \in Nodes => NotesCalls(trail[r], called[r])
  /\ node[r] \in (Nodes \cup {"fresh"}) \ {"execute", "audit"} =>
       decision[r] = "none" /\ ~ Has(trail[r], "approval")
  /\ node[r] \in Nodes \ {"audit"} => ~ Has(trail[r], "execute")
  /\ node[r] = "execute" => decision[r] = "approve"
  /\ node[r] \in {"execute", "audit"} => AskedOnce(trail[r])
  /\ node[r] = "audit" =>
       /\ decision[r] # "none" => ~ blocked[r]
       /\ Has(trail[r], "execute") <=> decision[r] = "approve"
       /\ decision[r] = "approve" => findings[r] # <<>>

TellInv == \A r \in Runs : Tells(r)

LEMMA AppendTells ==
  ASSUME NEW t \in Seq(Event), NEW e \in Seq(Event), NEW ops
  PROVE  /\ \A kind \in Kinds : Has(t \o e, kind) <=> Has(t, kind) \/ Has(e, kind)
         /\ NotesCalls(t, ops) => NotesCalls(t \o e, ops)
         /\ AskedOnce(t) /\ ~ Has(e, "approval") => AskedOnce(t \o e)
         /\ ~ Has(t, "approval") /\ Len(e) = 1 => AskedOnce(t \o e)
<1> DEFINE u == t \o e
<1>1. /\ u \in Seq(Event) /\ DOMAIN t \subseteq DOMAIN u
      /\ \A k \in DOMAIN t : u[k] = t[k]
      /\ \A k \in DOMAIN u \ DOMAIN t : k - Len(t) \in DOMAIN e /\ u[k] = e[k - Len(t)]
  BY NoteKeeps
<1>2. \A k \in DOMAIN e : k + Len(t) \in DOMAIN u /\ u[k + Len(t)] = e[k]
  BY ConcatProperties, LenProperties
<1>3. DOMAIN e = 1..Len(e) /\ DOMAIN u \subseteq Nat /\ Len(t) \in Nat
  BY <1>1, LenProperties
<1> HIDE DEF u
<1>4. \A kind \in Kinds : Has(u, kind) <=> Has(t, kind) \/ Has(e, kind)
  BY <1>1, <1>2 DEF Has
<1>5. NotesCalls(t, ops) => NotesCalls(u, ops)
  BY <1>1 DEF NotesCalls
<1>6. AskedOnce(t) /\ ~ Has(e, "approval") => AskedOnce(u)
  BY <1>1 DEF AskedOnce, Has
<1>7. ~ Has(t, "approval") /\ Len(e) = 1 => AskedOnce(u)
  <2> SUFFICES ASSUME ~ Has(t, "approval"), Len(e) = 1, NEW h \in DOMAIN u, NEW k \in DOMAIN u,
                      u[h].kind = "approval", u[k].kind = "approval"
               PROVE  h = k
    BY DEF AskedOnce
  <2>1. h \notin DOMAIN t /\ k \notin DOMAIN t
    BY <1>1 DEF Has
  <2>2. h - Len(t) \in 1..1 /\ k - Len(t) \in 1..1 /\ h \in Nat /\ k \in Nat
    BY <1>1, <1>3, <2>1
  <2> QED
    BY <1>3, <2>2
<1> QED
  BY <1>4, <1>5, <1>6, <1>7 DEF u

(* The events a node notes.                                                 *)
LEMMA EventsTell ==
  ASSUME NEW x \in Event, NEW y \in Event
  PROVE  /\ <<x>> \in Seq(Event) /\ Len(<<x>>) = 1
         /\ \A kind \in Kinds : Has(<<x>>, kind) <=> x.kind = kind
         /\ <<x, y>> \in Seq(Event)
         /\ \A kind \in Kinds : Has(<<x, y>>, kind) <=> x.kind = kind \/ y.kind = kind
<1>1. /\ <<x>> \in Seq(Event) /\ Len(<<x>>) = 1 /\ DOMAIN <<x>> = {1} /\ <<x>>[1] = x
  OBVIOUS
<1>2. \A kind \in Kinds : Has(<<x>>, kind) <=> x.kind = kind
  BY <1>1 DEF Has
<1>3. <<x, y>> \in Seq(Event) /\ DOMAIN <<x, y>> = {1, 2} /\ <<x, y>>[1] = x /\ <<x, y>>[2] = y
  OBVIOUS
<1>4. \A kind \in Kinds : Has(<<x, y>>, kind) <=> x.kind = kind \/ y.kind = kind
  BY <1>3 DEF Has
<1> QED
  BY <1>1, <1>2, <1>3, <1>4

(* Events that neither ask nor execute leave what a trail does not tell.    *)
LEMMA QuietEvents ==
  ASSUME NEW t \in Seq(Event), NEW e \in Seq(Event), NEW ops, NotesCalls(t, ops),
         ~ Has(t, "approval"), ~ Has(t, "execute"), ~ Has(e, "approval"), ~ Has(e, "execute")
  PROVE  ~ Has(t \o e, "approval") /\ ~ Has(t \o e, "execute") /\ NotesCalls(t \o e, ops)
<1>1. "approval" \in Kinds /\ "execute" \in Kinds
  BY DEF Kinds
<1> QED
  BY <1>1, AppendTells

LEMMA OneMore ==
  ASSUME NEW s \in Seq(Finding), NEW f \in Finding
  PROVE  Append(s, f) # <<>>
<1>1. Len(Append(s, f)) = Len(s) + 1 /\ Len(s) \in Nat
  BY AppendProperties, LenProperties
<1>2. Len(<<>>) = 0
  OBVIOUS
<1> QED
  BY <1>1, <1>2

(* Before the approval a trail has nothing to hide.                         *)
LEMMA QuietSoFar ==
  ASSUME NEW r \in Runs, Tells(r), node[r] \in Nodes \ {"execute", "audit"}
  PROVE  ~ Has(trail[r], "approval") /\ ~ Has(trail[r], "execute") /\ NotesCalls(trail[r], called[r])
BY DEF Tells, Nodes

LEMMA TellsStay ==
  ASSUME NEW r \in Runs, Tells(r),
         next'[r] = next[r], blocked'[r] = blocked[r], plan'[r] = plan[r], called'[r] = called[r],
         findings'[r] = findings[r], node'[r] = node[r], trail'[r] = trail[r],
         decision'[r] = decision[r]
  PROVE  Tells(r)'
BY DEF Tells

LEMMA TellStep ==
  GraphTypeOK /\ GateInv /\ TellInv /\ [GraphNext]_graphVars => TellInv'
<1> SUFFICES ASSUME GraphTypeOK, GateInv, TellInv, [GraphNext]_graphVars, NEW q \in Runs
             PROVE  Tells(q)'
  BY DEF TellInv
<1>0. Tells(q) /\ trail[q] \in Seq(Event) /\ next[q] \in Nat /\ node[q] \in Places
      /\ findings[q] \in Seq(Finding)
  BY DEF TellInv, GraphTypeOK
<1>1. ASSUME NEW r \in Runs, Start(r) PROVE Tells(q)'
  <2>1. CASE q # r
    BY <1>0, <1>1, <2>1, TellsStay DEF Start, Goto, GraphTypeOK
  <2>2. CASE q = r
    <3>1. trail[r] = <<>> /\ DOMAIN <<>> = {}
      BY <1>1 DEF Start, GateInv
    <3> QED
      BY <1>0, <1>1, <2>2, <3>1 DEF Start, Goto, GraphTypeOK, Tells, Has, NotesCalls, Nodes
  <2> QED
    BY <2>1, <2>2
<1>2. ASSUME NEW r \in Runs, Interpret(r) PROVE Tells(q)'
  <2>1. CASE q # r
    BY <1>0, <1>2, <2>1, TellsStay DEF Interpret, Note, Goto, GraphTypeOK
  <2>2. CASE q = r
    <3>1. PICK says \in {"none", "blocked"} :
            Note(r, <<Ev("interpret", 0, says), Ev("classify", 0, "none")>>)
      BY <1>2 DEF Interpret
    <3> DEFINE e == <<Ev("interpret", 0, says), Ev("classify", 0, "none")>>
    <3>2. Ev("interpret", 0, says) \in Event /\ Ev("classify", 0, "none") \in Event
      BY EventType DEF Kinds
    <3>3. e \in Seq(Event) /\ ~ Has(e, "approval") /\ ~ Has(e, "execute")
      BY <3>2, EventsTell DEF Ev, Kinds
    <3>4. trail'[r] = trail[r] \o e
      BY <3>1 DEF Note, GraphTypeOK
    <3> HIDE DEF e
    <3>5. /\ ~ Has(trail'[r], "approval") /\ ~ Has(trail'[r], "execute")
          /\ NotesCalls(trail'[r], called[r])
      BY <1>0, <1>2, <2>2, <3>3, <3>4, QuietEvents, QuietSoFar DEF Interpret, Nodes
    <3>6. /\ node'[r] = "plan" /\ blocked'[r] \in {blocked[r], TRUE}
          /\ blocked'[r] => plan'[r] = <<>>
          /\ called[r] = {} /\ decision[r] = "none"
      BY <1>0, <1>2, <2>2 DEF Interpret, Goto, GraphTypeOK, Tells, Nodes
    <3> QED
      BY <1>0, <1>2, <2>2, <3>5, <3>6 DEF Interpret, Tells, Nodes
  <2> QED
    BY <2>1, <2>2
<1>3. ASSUME NEW r \in Runs, PlanNode(r) PROVE Tells(q)'
  <2>1. CASE q # r
    BY <1>0, <1>3, <2>1, TellsStay DEF PlanNode, Note, Goto, GraphTypeOK
  <2>2. CASE q = r
    <3> DEFINE x == Ev("plan", Payload(cfg[r], plan[r]), "none")
    <3>1. x \in Event /\ x.kind = "plan"
      BY EventType, PayloadAsks, PlanType DEF Kinds, Ev
    <3>2. <<x>> \in Seq(Event) /\ ~ Has(<<x>>, "approval") /\ ~ Has(<<x>>, "execute")
      BY <3>1, EventsTell DEF Kinds
    <3>3. trail'[r] \in {trail[r], trail[r] \o <<x>>}
      BY <1>3 DEF PlanNode, Note, GraphTypeOK
    <3> HIDE DEF x
    <3>4. /\ ~ Has(trail'[r], "approval") /\ ~ Has(trail'[r], "execute")
          /\ NotesCalls(trail'[r], called[r])
      BY <1>0, <1>3, <2>2, <3>2, <3>3, QuietEvents, QuietSoFar DEF PlanNode, Nodes
    <3> QED
      BY <1>0, <1>3, <2>2, <3>4 DEF PlanNode, Goto, GraphTypeOK, Tells, Nodes
  <2> QED
    BY <2>1, <2>2
<1>4. ASSUME NEW r \in Runs, Skip(r) PROVE Tells(q)'
  <2>1. next'[q] \in Nat \ {0}
    BY <1>0, <1>4 DEF Skip, Tells, GraphTypeOK
  <2> QED
    BY <1>0, <1>4, <2>1 DEF Skip, Tells
<1>5. ASSUME NEW r \in Runs, ReadAction(r) PROVE Tells(q)'
  <2>1. CASE q # r
    BY <1>0, <1>5, <2>1, TellsStay DEF ReadAction, Note, GraphTypeOK
  <2>2. CASE q = r
    <3>1. PICK ok \in BOOLEAN, reached \in BOOLEAN :
            /\ called' = [called EXCEPT ![r] = IF reached THEN @ \cup {next[r]} ELSE @]
            /\ findings' = [findings EXCEPT ![r] = Append(@, [op |-> next[r], isError |-> ~ ok])]
            /\ Note(r, <<Ev("tool_call", next[r], IF ok THEN "ok" ELSE "error")>>)
      BY <1>5 DEF ReadAction
    <3> DEFINE x == Ev("tool_call", next[r], IF ok THEN "ok" ELSE "error")
    <3>2. x \in Event /\ x.kind = "tool_call" /\ x.op = next[r]
      BY <1>0, <2>2, EventType DEF Kinds, Ev
    <3>3. <<x>> \in Seq(Event) /\ ~ Has(<<x>>, "approval") /\ ~ Has(<<x>>, "execute")
      BY <3>2, EventsTell DEF Kinds
    <3>4. trail'[r] = trail[r] \o <<x>>
      BY <3>1 DEF Note, GraphTypeOK
    <3> HIDE DEF x
    <3>5. /\ ~ Has(trail'[r], "approval") /\ ~ Has(trail'[r], "execute")
          /\ NotesCalls(trail'[r], called[r])
      <4>1. /\ ~ Has(trail[r], "approval") /\ ~ Has(trail[r], "execute")
            /\ NotesCalls(trail[r], called[r])
        BY <1>0, <1>5, <2>2, QuietSoFar DEF ReadAction, AtAction, Nodes
      <4>2. <<x>> \in Seq(Event) /\ trail[r] \in Seq(Event)
        BY <1>0, <2>2, <3>3
      <4> QED
        BY <3>3, <3>4, <4>1, <4>2, QuietEvents
    <3>6. \E k \in DOMAIN trail'[r] : trail'[r][k] = x
      <4>1. Len(<<x>>) = 1 /\ <<x>>[1] = x /\ Len(trail[r]) \in Nat
        BY <1>0, <2>2, LenProperties
      <4>2. trail'[r] \in Seq(Event) /\ Len(trail'[r]) = Len(trail[r]) + 1
            /\ trail'[r][Len(trail[r]) + 1] = x
        BY <1>0, <2>2, <3>3, <3>4, <4>1, ConcatProperties
      <4>3. Len(trail[r]) + 1 \in DOMAIN trail'[r]
        BY <4>1, <4>2, LenProperties
      <4> QED
        BY <4>2, <4>3
    <3>7. called'[r] \subseteq called[r] \cup {next[r]}
      BY <3>1 DEF GraphTypeOK
    <3>8. NotesCalls(trail'[r], called'[r])
      BY <3>2, <3>5, <3>6, <3>7 DEF NotesCalls
    <3>9. ~ blocked[r]
      BY <1>0, <1>5, <2>2, LenProperties DEF Tells, ReadAction, AtAction
    <3>10. findings'[r] # <<>>
      <4>1. [op |-> next[r], isError |-> ~ ok] \in Finding
        BY <1>0, <2>2 DEF Finding
      <4>2. findings'[r] = Append(findings[r], [op |-> next[r], isError |-> ~ ok])
        BY <3>1 DEF GraphTypeOK
      <4> QED
        BY <1>0, <2>2, <4>1, <4>2, OneMore
    <3>11. next'[r] # 0
      BY <1>0, <1>5, <2>2 DEF ReadAction, GraphTypeOK
    <3> QED
      BY <1>0, <1>5, <2>2, <3>5, <3>8, <3>9, <3>10, <3>11 DEF ReadAction, AtAction, Tells, Nodes
  <2> QED
    BY <2>1, <2>2
<1>6. ASSUME NEW r \in Runs, SubgraphDone(r) PROVE Tells(q)'
  BY <1>0, <1>6 DEF SubgraphDone, Goto, GraphTypeOK, Tells, Nodes
<1>7. ASSUME NEW r \in Runs, Policy(r) PROVE Tells(q)'
  <2>1. CASE q # r
    BY <1>0, <1>7, <2>1, TellsStay DEF Policy, Note, Goto, GraphTypeOK
  <2>2. CASE q = r
    <3> DEFINE e == <<Ev("evidence", 0, "none"), Ev("policy", 0, "none")>>
    <3>1. Ev("evidence", 0, "none") \in Event /\ Ev("policy", 0, "none") \in Event
      BY EventType DEF Kinds
    <3>2. e \in Seq(Event) /\ ~ Has(e, "approval") /\ ~ Has(e, "execute")
      BY <3>1, EventsTell DEF Ev, Kinds
    <3>3. trail'[r] = trail[r] \o e
      BY <1>7 DEF Policy, Note, GraphTypeOK
    <3> HIDE DEF e
    <3>4. /\ ~ Has(trail'[r], "approval") /\ ~ Has(trail'[r], "execute")
          /\ NotesCalls(trail'[r], called[r])
      BY <1>0, <1>7, <2>2, <3>2, <3>3, AppendTells DEF Kinds, Tells, Policy, Nodes
    <3>5. AskedOnce(trail'[r])
      BY <3>4 DEF AskedOnce, Has
    <3> QED
      BY <1>0, <1>7, <2>2, <3>4, <3>5 DEF Policy, Goto, GraphTypeOK, Tells, Nodes
  <2> QED
    BY <2>1, <2>2
<1>8. ASSUME NEW r \in Runs, Execute(r) PROVE Tells(q)'
  <2>1. CASE q # r
    BY <1>0, <1>8, <2>1, TellsStay DEF Execute, Note, Goto, GraphTypeOK
  <2>2. CASE q = r
    <3> DEFINE x == Ev("execute", Payload(cfg[r], plan[r]), "error")
    <3>1. x \in Event /\ x.kind = "execute"
      BY EventType, PayloadAsks, PlanType DEF Kinds, Ev
    <3>2. <<x>> \in Seq(Event) /\ ~ Has(<<x>>, "approval") /\ Has(<<x>>, "execute")
      BY <3>1, EventsTell DEF Kinds
    <3>3. trail'[r] = trail[r] \o <<x>>
      BY <1>8 DEF Execute, Note, GraphTypeOK
    <3> HIDE DEF x
    <3>4. /\ AskedOnce(trail'[r]) /\ Has(trail'[r], "execute")
          /\ NotesCalls(trail'[r], called[r])
      <4>1. AskedOnce(trail[r]) /\ NotesCalls(trail[r], called[r])
        BY <1>0, <1>8, <2>2 DEF Tells, Execute, Nodes
      <4>2. "execute" \in Kinds
        BY DEF Kinds
      <4> QED
        BY <1>0, <2>2, <3>2, <3>3, <4>1, <4>2, AppendTells
    <3>5. ~ blocked[r]
      <4>1. ApprovalRequired(r)
        BY <1>8 DEF GateInv, Execute
      <4>2. plan[r] # <<>>
        BY <4>1 DEF ApprovalRequired, Payload, Asking
      <4> QED
        BY <1>0, <2>2, <4>2 DEF Tells
    <3>6. findings'[r] # <<>> /\ decision[r] = "approve"
      <4> DEFINE f == [op |-> Payload(cfg[r], plan[r]), isError |-> TRUE]
      <4>1. f \in Finding
        BY PayloadAsks, PlanType DEF Finding
      <4>2. findings'[r] = Append(findings[r], f)
        BY <1>8 DEF Execute, GraphTypeOK
      <4>3. decision[r] = "approve"
        BY <1>0, <1>8, <2>2 DEF Execute, Tells
      <4> HIDE DEF f
      <4> QED
        BY <1>0, <2>2, <4>1, <4>2, <4>3, OneMore
    <3> QED
      BY <1>0, <1>8, <2>2, <3>4, <3>5, <3>6 DEF Execute, Goto, GraphTypeOK, Tells, Nodes
  <2> QED
    BY <2>1, <2>2
<1>9. ASSUME NEW r \in Runs, Audit(r) PROVE Tells(q)'
  BY <1>0, <1>9 DEF Audit, Goto, GraphTypeOK, Tells, Nodes
<1>10. ASSUME NEW r \in Runs, Lose(r) PROVE Tells(q)'
  BY <1>0, <1>10 DEF Lose, Goto, GraphTypeOK, Tells, Nodes
<1>11. ASSUME NEW r \in Runs, NEW reply \in Replies, Reply(r, reply) PROVE Tells(q)'
  <2>1. CASE q # r
    BY <1>0, <1>11, <2>1, TellsStay DEF Reply, Note, Goto, GraphTypeOK
  <2>2. CASE q = r
    <3> DEFINE d == DecisionOf(reply)
               x == Ev("approval", Payload(cfg[r], plan[r]), d)
    <3>1. d \in Decisions
      BY DEF DecisionOf, Replies, Decisions
    <3>2. x \in Event /\ x.kind = "approval"
      BY <3>1, EventType, PayloadAsks, PlanType DEF Kinds, Ev
    <3>3. <<x>> \in Seq(Event) /\ Len(<<x>>) = 1 /\ ~ Has(<<x>>, "execute")
      BY <3>2, EventsTell DEF Kinds
    <3>4. trail'[r] = trail[r] \o <<x>>
      BY <1>11 DEF Reply, Note, GraphTypeOK
    <3>5. decision'[r] = d /\ node'[r] = RouteAfterApproval(d)
      BY <1>11 DEF Reply, Goto, GraphTypeOK
    <3> HIDE DEF x, d
    <3>6. /\ AskedOnce(trail'[r]) /\ ~ Has(trail'[r], "execute")
          /\ NotesCalls(trail'[r], called[r])
      <4>1. /\ ~ Has(trail[r], "approval") /\ ~ Has(trail[r], "execute")
            /\ NotesCalls(trail[r], called[r])
        BY <1>0, <1>11, <2>2, QuietSoFar DEF Reply, Nodes
      <4>2. "execute" \in Kinds
        BY DEF Kinds
      <4>3. <<x>> \in Seq(Event) /\ trail[r] \in Seq(Event)
        BY <1>0, <2>2, <3>3
      <4>4. AskedOnce(trail[r] \o <<x>>) /\ NotesCalls(trail[r] \o <<x>>, called[r])
        BY <3>3, <4>1, <4>3, AppendTells
      <4>5. ~ Has(trail[r] \o <<x>>, "execute")
        BY <3>3, <4>1, <4>2, <4>3, AppendTells
      <4> QED
        BY <3>4, <4>4, <4>5
    <3>7. ~ blocked[r]
      <4>1. ApprovalRequired(r)
        BY <1>11 DEF GateInv, Reply
      <4>2. plan[r] # <<>>
        BY <4>1 DEF ApprovalRequired, Payload, Asking
      <4> QED
        BY <1>0, <2>2, <4>2 DEF Tells
    <3> QED
      BY <1>0, <1>11, <2>2, <3>1, <3>5, <3>6, <3>7
         DEF Reply, Tells, Nodes, RouteAfterApproval, Decisions
  <2> QED
    BY <2>1, <2>2
<1>12. ASSUME NEW s \in Envs, Configure(s) PROVE Tells(q)'
  BY <1>0, <1>12, TellsStay DEF Configure
<1>13. CASE UNCHANGED graphVars
  BY <1>0, <1>13, TellsStay DEF graphVars
<1> QED
  BY <1>1, <1>2, <1>3, <1>4, <1>5, <1>6, <1>7, <1>8, <1>9, <1>10, <1>11, <1>12, <1>13
     DEF GraphNext, Proceed

LEMMA TellInit == GraphInit => TellInv
<1> SUFFICES ASSUME GraphInit, NEW r \in Runs PROVE Tells(r)
  BY DEF TellInv
<1>1. DOMAIN <<>> = {} /\ trail[r] = <<>> /\ node[r] = "fresh"
  BY DEF GraphInit
<1> QED
  BY <1>1 DEF GraphInit, Tells, Has, NotesCalls, AskedOnce, Nodes

(* A record is written once, at the end of its run.                         *)
Recorded == \A r \in Runs : record[r] # NoRecord => node[r] = "end"

RecordInv == GraphInv /\ TellInv /\ Recorded /\ RecordIsComplete

(* What the audit node records of a run is complete.                        *)
LEMMA AuditIsComplete ==
  ASSUME GraphTypeOK, NEW r \in Runs, Tells(r), Audit(r)
  PROVE  /\ record'[r].events = trail[r] /\ record'[r].outcome = Outcome(r) /\ called' = called
         /\ NotesCalls(trail[r], called[r]) /\ AskedOnce(trail[r])
         /\ Has(trail[r], "execute") => Outcome(r) = "completed"
         /\ Outcome(r) = "denied" => called[r] = {}
<1>1. /\ node[r] = "audit" /\ called' = called
      /\ record' = [record EXCEPT ![r] = [outcome |-> Outcome(r), events |-> trail[r]]]
  BY DEF Audit
<1>2. record'[r] = [outcome |-> Outcome(r), events |-> trail[r]]
  BY <1>1 DEF GraphTypeOK
<1>3. Has(trail[r], "execute") => Outcome(r) = "completed"
  BY <1>1 DEF Tells, Outcome
<1>4. Outcome(r) = "denied" => called[r] = {}
  BY DEF Tells, Outcome
<1>5. NotesCalls(trail[r], called[r]) /\ AskedOnce(trail[r])
  BY <1>1 DEF Tells, Nodes
<1> QED
  BY <1>1, <1>2, <1>3, <1>4, <1>5

(* Which steps move a run, write its record or call upstream for it.        *)
LEMMA RecordMoves ==
  ASSUME GraphTypeOK, [GraphNext]_graphVars, NEW q \in Runs, ~ Audit(q)
  PROVE  /\ record'[q] = record[q]
         /\ node[q] = "end" => node'[q] = "end" /\ called'[q] = called[q]
<1> USE DEF GraphTypeOK
<1>1. ASSUME NEW r \in Runs, Proceed(r)
      PROVE  /\ record'[q] = record[q]
             /\ node[q] = "end" => node'[q] = "end" /\ called'[q] = called[q]
  BY <1>1 DEF Proceed, Interpret, PlanNode, Skip, ReadAction, AtAction, SubgraphDone, Policy,
         Execute, Audit, Goto
<1>2. ASSUME NEW r \in Runs, Start(r) \/ Lose(r) \/ \E reply \in Replies : Reply(r, reply)
      PROVE  /\ record'[q] = record[q]
             /\ node[q] = "end" => node'[q] = "end" /\ called'[q] = called[q]
  BY <1>2 DEF Start, Lose, Reply, Goto, Nodes
<1>3. CASE UNCHANGED graphVars \/ \E s \in Envs : Configure(s)
  BY <1>3 DEF graphVars, Configure
<1> QED
  BY <1>1, <1>2, <1>3 DEF GraphNext

LEMMA RecordStep ==
  GraphTypeOK /\ TellInv /\ Recorded /\ RecordIsComplete /\ [GraphNext]_graphVars
  => Recorded' /\ RecordIsComplete'
<1> SUFFICES ASSUME GraphTypeOK, TellInv, Recorded, RecordIsComplete, [GraphNext]_graphVars
             PROVE  Recorded' /\ RecordIsComplete'
  OBVIOUS
<1> DEFINE Whole(events, outcome, ops) ==
             /\ \A i \in ops : \E k \in {h \in DOMAIN events : events[h].kind = "tool_call"} :
                  events[k].op = i
             /\ {h \in DOMAIN events : events[h].kind = "execute"} # {} => outcome = "completed"
             /\ outcome = "denied" => ops = {}
             /\ \A h, k \in {i \in DOMAIN events : events[i].kind = "approval"} : h = k
<1>1. ASSUME NEW q \in Runs, record'[q] # NoRecord
      PROVE  node'[q] = "end" /\ Whole(record'[q].events, record'[q].outcome, called'[q])
  <2>1. CASE ~ Audit(q)
    <3>1. record'[q] = record[q] /\ record[q] # NoRecord
      BY <1>1, <2>1, RecordMoves
    <3>2. node'[q] = "end" /\ called'[q] = called[q]
      BY <2>1, <3>1, RecordMoves DEF Recorded
    <3>3. Whole(record[q].events, record[q].outcome, called[q])
      BY <3>1, Zenon DEF RecordIsComplete
    <3> HIDE DEF Whole
    <3> QED
      BY <3>1, <3>2, <3>3
  <2>2. CASE Audit(q)
    <3>1. node'[q] = "end"
      BY <2>2 DEF Audit, Goto, GraphTypeOK
    <3>2. /\ record'[q].events = trail[q] /\ record'[q].outcome = Outcome(q) /\ called' = called
          /\ NotesCalls(trail[q], called[q]) /\ AskedOnce(trail[q])
          /\ Has(trail[q], "execute") => Outcome(q) = "completed"
          /\ Outcome(q) = "denied" => called[q] = {}
      BY <2>2, AuditIsComplete DEF TellInv
    <3>3. Whole(trail[q], Outcome(q), called[q])
      BY <3>2 DEF NotesCalls, AskedOnce, Has
    <3> HIDE DEF Whole
    <3> QED
      BY <3>1, <3>2, <3>3
  <2> QED
    BY <2>1, <2>2
<1>2. Recorded'
  BY <1>1 DEF Recorded
<1>3. RecordIsComplete'
  BY <1>1, Zenon DEF RecordIsComplete
<1> QED
  BY <1>2, <1>3

LEMMA RecordInvHolds ==
  /\ GraphInit => RecordInv
  /\ RecordInv /\ [GraphNext]_graphVars => RecordInv'
<1>1. GraphInit => GraphInv
  BY InvInit
<1>2. GraphInit => Recorded /\ RecordIsComplete
  BY DEF GraphInit, Recorded, RecordIsComplete
<1>3. GraphInv /\ [GraphNext]_graphVars => GraphInv'
  BY TypeStep, GateStep, ExecutedStep DEF GraphInv
<1> QED
  BY <1>1, <1>2, <1>3, TellInit, TellStep, RecordStep DEF RecordInv, GraphInv

(* For every plan, every set of tools and settings and any number of runs: *)
(* a record tells every upstream call of its run, no outcome but            *)
(* "completed" covers an execution, and one approval was asked at most.     *)
THEOREM RecordsAreComplete == GraphSpec => []RecordIsComplete
<1>1. RecordInv => RecordIsComplete
  BY DEF RecordInv
<1> QED
  BY RecordInvHolds, <1>1, PTL DEF GraphSpec

-----------------------------------------------------------------------------
(* The graph is a gate.                                                    *)

LEMMA GateInit == GraphInit => Gate!Init
<1> SUFFICES ASSUME GraphInit PROVE Gate!Init
  OBVIOUS
<1>1. \A r \in Runs : Stage(r) = "open" /\ record[r] = NoRecord
  BY DEF GraphInit, Stage
<1> QED
  BY <1>1 DEF GraphInit, Gate!Init

(* How a run is seen as an operation at the gate.                           *)
Told(r) == IF record[r] = NoRecord THEN "nothing" ELSE record[r].outcome

GateSame(r) == Stage(r)' = Stage(r) /\ decision'[r] = decision[r] /\ Told(r)' = Told(r)

LEMMA SameRecordTellsSame ==
  ASSUME NEW r \in Runs, node'[r] = node[r], decision'[r] = decision[r], trail'[r] = trail[r],
         record'[r] = record[r]
  PROVE  GateSame(r)
BY DEF GateSame, Stage, Told

(* A step of run r leaves the others as they are.                           *)
LEMMA OthersSame ==
  ASSUME GraphTypeOK, NEW r \in Runs, NEW q \in Runs, q # r,
         \/ Start(r) \/ Proceed(r) \/ Lose(r)
         \/ \E reply \in Replies : Reply(r, reply)
  PROVE  GateSame(q)
<1>1. node'[q] = node[q] /\ decision'[q] = decision[q] /\ trail'[q] = trail[q] /\ record'[q] = record[q]
  BY DEF GraphTypeOK, Proceed, Start, Lose, Reply, Interpret, PlanNode, Skip, ReadAction, SubgraphDone,
         Policy, Execute, Audit, Goto, Note
<1> QED
  BY <1>1, SameRecordTellsSame

(* What moves at the gate when run r moves.                                 *)
LEMMA GateMoves ==
  ASSUME GraphTypeOK, Recorded, NEW r \in Runs, Tells(r),
         \/ Start(r) \/ Proceed(r) \/ Lose(r)
         \/ \E reply \in Replies : Reply(r, reply)
  PROVE  \/ GateSame(r)
         \/ Stage(r) = "open" /\ Stage(r)' = "asked" /\ decision'[r] = decision[r] /\ Told(r)' = Told(r)
         \/ /\ Stage(r) = "asked" /\ Stage(r)' = "granted" /\ decision'[r] = "approve"
            /\ Told(r)' = Told(r)
         \/ /\ Stage(r) = "asked" /\ Stage(r)' = "refused" /\ decision'[r] \in {"reject", "edit"}
            /\ Told(r)' = Told(r)
         \/ /\ Stage(r) = "granted" /\ Stage(r)' = "executed" /\ decision'[r] = decision[r]
            /\ Told(r)' = Told(r)
         \/ /\ Stage(r) \in {"open", "refused", "executed"} /\ Stage(r)' = "closed"
            /\ decision'[r] = decision[r]
            /\ Told(r)' \in IF decision[r] = "reject" THEN {"rejected"}
                            ELSE IF Stage(r) = "executed" THEN {"completed"}
                            ELSE {"completed", "denied"}
         \/ /\ Stage(r) \in {"open", "asked", "granted", "refused", "executed"}
            /\ Stage(r)' = "lost" /\ decision'[r] = decision[r] /\ Told(r)' = Told(r)
<1>0. node[r] \in Places /\ trail[r] \in Seq(Event)
  BY DEF GraphTypeOK
<1>1. CASE Start(r) \/ Interpret(r) \/ PlanNode(r) \/ Skip(r) \/ ReadAction(r) \/ SubgraphDone(r)
  <2>1. /\ node[r] \in Places \ {"approval", "execute", "audit", "end", "lost"}
        /\ node'[r] \in Places \ {"approval", "execute", "audit", "end", "lost"}
        /\ decision' = decision /\ record' = record
    BY <1>1 DEF Start, Interpret, PlanNode, Skip, ReadAction, AtAction, SubgraphDone, Goto, GraphTypeOK,
           Places, Nodes
  <2> QED
    BY <2>1 DEF GateSame, Stage, Told
<1>2. CASE Policy(r)
  <2>1. /\ node[r] = "policy" /\ node'[r] \in {"approval", "audit"}
        /\ decision' = decision /\ record' = record /\ decision[r] = "none"
    BY <1>2 DEF Policy, Goto, GraphTypeOK, Tells, Nodes
  <2> QED
    BY <2>1 DEF GateSame, Stage, Told
<1>3. CASE Execute(r)
  <2>1. /\ node[r] = "execute" /\ node'[r] = "audit" /\ decision' = decision /\ record' = record
        /\ decision[r] = "approve"
        /\ trail'[r] = trail[r] \o <<Ev("execute", Payload(cfg[r], plan[r]), "error")>>
    BY <1>3 DEF Execute, Goto, Note, GraphTypeOK, Tells, Nodes
  <2>2. \E k \in DOMAIN trail'[r] : trail'[r][k].kind = "execute"
    <3> DEFINE x == Ev("execute", Payload(cfg[r], plan[r]), "error")
    <3>1. x \in Event /\ x.kind = "execute" /\ "execute" \in Kinds
      BY EventType, PayloadAsks, PlanType DEF Kinds, Ev
    <3>2. trail'[r] = trail[r] \o <<x>>
      BY <2>1
    <3> HIDE DEF x
    <3>3. <<x>> \in Seq(Event) /\ Has(<<x>>, "execute")
      BY <3>1, EventsTell
    <3>4. Has(trail[r] \o <<x>>, "execute")
      BY <1>0, <3>1, <3>3, AppendTells
    <3> QED
      BY <3>2, <3>4 DEF Has
  <2> QED
    BY <2>1, <2>2 DEF Stage, Told
<1>4. CASE Audit(r)
  <2>1. /\ node[r] = "audit" /\ node'[r] = "end" /\ decision' = decision
        /\ record' = [record EXCEPT ![r] = [outcome |-> Outcome(r), events |-> trail[r]]]
    BY <1>4 DEF Audit, Goto, GraphTypeOK
  <2>2. [outcome |-> Outcome(r), events |-> trail[r]] \in Record
    BY <1>0 DEF Record, Outcome, Outcomes
  <2>3. record'[r] = [outcome |-> Outcome(r), events |-> trail[r]]
        /\ [outcome |-> Outcome(r), events |-> trail[r]] # NoRecord
    BY <2>1, <2>2, RecordAssumption DEF GraphTypeOK
  <2>4. Told(r)' = Outcome(r)
    BY <2>3 DEF Told
  <2>5. Stage(r) \in {"open", "refused", "executed"} /\ Stage(r)' = "closed"
    BY <2>1 DEF Stage
  <2>6. Stage(r) = "executed" => decision[r] = "approve"
    BY <2>1 DEF Stage, Tells, Has
  <2>7. Outcome(r) \in IF decision[r] = "reject" THEN {"rejected"}
                       ELSE IF Stage(r) = "executed" THEN {"completed"}
                       ELSE {"completed", "denied"}
    BY <2>1, <2>6 DEF Outcome, Tells
  <2> QED
    BY <2>1, <2>4, <2>5, <2>7
<1>5. CASE Lose(r)
  <2>1. node[r] \in Nodes /\ node'[r] = "lost" /\ decision' = decision /\ record' = record
    BY <1>5 DEF Lose, Goto, GraphTypeOK
  <2>2. Stage(r) \in {"open", "asked", "granted", "refused", "executed"} /\ Stage(r)' = "lost"
    BY <2>1 DEF Stage, Nodes
  <2> QED
    BY <2>1, <2>2 DEF Told
<1>6. ASSUME NEW reply \in Replies, Reply(r, reply)
      PROVE  /\ Stage(r) = "asked" /\ Told(r)' = Told(r)
             /\ \/ Stage(r)' = "granted" /\ decision'[r] = "approve"
                \/ Stage(r)' = "refused" /\ decision'[r] \in {"reject", "edit"}
  <2> DEFINE d == DecisionOf(reply)
             x == Ev("approval", Payload(cfg[r], plan[r]), d)
  <2>1. d \in Decisions
    BY DEF DecisionOf, Replies, Decisions
  <2>2. x \in Event /\ x.kind = "approval" /\ "execute" \in Kinds
    BY <2>1, EventType, PayloadAsks, PlanType DEF Kinds, Ev
  <2>3. /\ trail'[r] = trail[r] \o <<x>> /\ node[r] = "approval" /\ record' = record
        /\ decision'[r] = d /\ node'[r] = RouteAfterApproval(d)
    BY <1>6 DEF Reply, Note, Goto, GraphTypeOK
  <2> HIDE DEF x, d
  <2>4. ~ Has(trail[r], "execute")
    BY <2>3, QuietSoFar DEF Nodes
  <2>5. ~ Has(trail'[r], "execute")
    <3>1. <<x>> \in Seq(Event) /\ ~ Has(<<x>>, "execute")
      BY <2>2, EventsTell
    <3>2. ~ Has(trail[r] \o <<x>>, "execute")
      BY <1>0, <2>2, <2>4, <3>1, AppendTells
    <3> QED
      BY <2>3, <3>2
  <2> QED
    BY <2>1, <2>3, <2>5 DEF Stage, Told, Has, RouteAfterApproval, Decisions
<1> QED
  BY <1>1, <1>2, <1>3, <1>4, <1>5, <1>6 DEF Proceed

(* A step of run r is the gate's step for r, or none.                       *)
LEMMA RunMovesGate ==
  ASSUME GraphTypeOK, Recorded, TellInv, NEW r \in Runs,
         \/ Start(r) \/ Proceed(r) \/ Lose(r)
         \/ \E reply \in Replies : Reply(r, reply)
  PROVE  [Gate!Next]_(Gate!gateVars)
<1> DEFINE stage == [q \in Runs |-> Stage(q)]
           told == [q \in Runs |-> IF record[q] = NoRecord THEN "nothing" ELSE record[q].outcome]
<1>1. Tells(r) /\ decision \in [Runs -> Decisions \cup {"none"}]
  BY DEF TellInv, GraphTypeOK
<1>2. \A q \in Runs \ {r} : GateSame(q)
  BY OthersSame
<1>3. decision' = [decision EXCEPT ![r] = decision'[r]]
  BY <1>1 DEF Proceed, Start, Lose, Reply, Interpret, PlanNode, Skip, ReadAction, SubgraphDone,
         Policy, Execute, Audit, GraphTypeOK
<1>4. /\ stage' = [stage EXCEPT ![r] = Stage(r)']
      /\ told' = [told EXCEPT ![r] = Told(r)']
  <2>1. stage' = [stage EXCEPT ![r] = Stage(r)']
    BY <1>2 DEF GateSame
  <2>2. told' = [told EXCEPT ![r] = Told(r)']
    BY <1>2 DEF GateSame, Told
  <2> QED
    BY <2>1, <2>2
<1>5. stage[r] = Stage(r) /\ told[r] = Told(r)
  BY DEF Told
<1>6. Gate!gateVars = <<stage, decision, told>> /\ (Gate!gateVars)' = <<stage', decision', told'>>
  BY DEF Gate!gateVars
<1>7. /\ Stage(r)' = Stage(r) => stage' = stage
      /\ Told(r)' = Told(r) => told' = told
      /\ decision'[r] = decision[r] => decision' = decision
  <2>1. Stage(r)' = Stage(r) => stage' = stage
    <3>1. [stage EXCEPT ![r] = Stage(r)] = stage
      OBVIOUS
    <3> QED
      BY <1>4, <3>1
  <2>2. Told(r)' = Told(r) => told' = told
    <3>1. [told EXCEPT ![r] = Told(r)] = told
      BY DEF Told
    <3> HIDE DEF told
    <3> QED
      BY <1>4, <3>1
  <2>3. decision'[r] = decision[r] => decision' = decision
    BY <1>1, <1>3
  <2> QED
    BY <2>1, <2>2, <2>3
<1>8. CASE GateSame(r)
  BY <1>6, <1>7, <1>8 DEF GateSame, Gate!gateVars
<1>9. CASE Stage(r) = "open" /\ Stage(r)' = "asked" /\ decision'[r] = decision[r] /\ Told(r)' = Told(r)
  <2>1. Gate!Ask(r)
    BY <1>4, <1>5, <1>6, <1>7, <1>9 DEF Gate!Ask, Gate!Move
  <2> QED
    BY <2>1 DEF Gate!Next
<1>10. CASE /\ Stage(r) = "asked" /\ Stage(r)' = "granted" /\ decision'[r] = "approve"
            /\ Told(r)' = Told(r)
  <2>1. Gate!Grant(r)
    BY <1>3, <1>4, <1>5, <1>6, <1>7, <1>10 DEF Gate!Grant, Gate!Move
  <2> QED
    BY <2>1 DEF Gate!Next
<1>11. CASE /\ Stage(r) = "asked" /\ Stage(r)' = "refused" /\ decision'[r] \in {"reject", "edit"}
            /\ Told(r)' = Told(r)
  <2>1. Gate!Refuse(r)
    BY <1>3, <1>4, <1>5, <1>6, <1>7, <1>11 DEF Gate!Refuse, Gate!Move
  <2> QED
    BY <2>1 DEF Gate!Next
<1>12. CASE /\ Stage(r) = "granted" /\ Stage(r)' = "executed" /\ decision'[r] = decision[r]
            /\ Told(r)' = Told(r)
  <2>1. Gate!Execute(r)
    BY <1>4, <1>5, <1>6, <1>7, <1>12 DEF Gate!Execute, Gate!Move
  <2> QED
    BY <2>1 DEF Gate!Next
<1>13. CASE /\ Stage(r) \in {"open", "refused", "executed"} /\ Stage(r)' = "closed"
            /\ decision'[r] = decision[r]
            /\ Told(r)' \in IF decision[r] = "reject" THEN {"rejected"}
                            ELSE IF Stage(r) = "executed" THEN {"completed"}
                            ELSE {"completed", "denied"}
  <2>1. Gate!Close(r)
    BY <1>4, <1>5, <1>6, <1>7, <1>13 DEF Gate!Close, Gate!Move, Gate!Tellable
  <2> QED
    BY <2>1 DEF Gate!Next
<1>14. CASE /\ Stage(r) \in {"open", "asked", "granted", "refused", "executed"}
            /\ Stage(r)' = "lost" /\ decision'[r] = decision[r] /\ Told(r)' = Told(r)
  <2>1. stage' = [q \in Runs |-> IF q \in {r} THEN "lost" ELSE stage[q]]
    BY <1>4, <1>14
  <2>2. Gate!Vanish({r})
    BY <1>5, <1>7, <1>14, <2>1 DEF Gate!Vanish
  <2> QED
    BY <2>2 DEF Gate!Next
<1> QED
  BY <1>1, <1>8, <1>9, <1>10, <1>11, <1>12, <1>13, <1>14, GateMoves

LEMMA GateRefined ==
  GraphTypeOK /\ Recorded /\ TellInv /\ [GraphNext]_graphVars => [Gate!Next]_(Gate!gateVars)
<1> SUFFICES ASSUME GraphTypeOK, Recorded, TellInv, [GraphNext]_graphVars
             PROVE  [Gate!Next]_(Gate!gateVars)
  OBVIOUS
<1>1. CASE UNCHANGED graphVars \/ \E s \in Envs : Configure(s)
  <2>1. UNCHANGED <<node, decision, trail, record>>
    BY <1>1 DEF graphVars, Configure
  <2>2. \A q \in Runs : GateSame(q)
    BY <2>1, SameRecordTellsSame
  <2> QED
    BY <2>1, <2>2 DEF GateSame, Told, Gate!gateVars
<1> QED
  BY <1>1, RunMovesGate DEF GraphNext

(* For every plan, every set of tools and settings and any number of runs:  *)
(* the graph implements the gate.  No order of nodes, replies, failures and *)
(* losses executes, refuses or records anything the gate would not.         *)
THEOREM GraphIsAGate == GraphSpec => ImplementsGate
<1>1. RecordInv /\ [GraphNext]_graphVars => [Gate!Next]_(Gate!gateVars)
  BY GateRefined DEF RecordInv, GraphInv
<1> QED
  BY RecordInvHolds, GateInit, <1>1, PTL DEF GraphSpec, ImplementsGate, Gate!Spec

(***************************************************************************)
(* Theorems of AgentConsole, for any number of sessions and runs: its       *)
(* types, that buttons and waiting runs match, that "completed" means      *)
(* executed, and that usage totals mix across sessions only.               *)
(***************************************************************************)

-----------------------------------------------------------------------------
(* The inductive invariant.                                                *)

(* A session runs one script at a time, on a run of its own, and what waits *)
(* for its user is its pending run.                                         *)
RunPlace(r) ==
  /\ phase[r] = "none" <=> node[r] = "fresh"
  /\ phase[r] # "none" => owner[r] \in Sessions
  /\ phase[r] = "invoke" => pending[owner[r]] # r
  /\ phase[r] = "resume" => pending[owner[r]] = r /\ node[r] \in {"execute", "audit", "end"}
  /\ phase[r] = "idle" /\ node[r] \in Nodes => pending[owner[r]] = r

PendingPlace(s) ==
  pending[s] # NoRun =>
    /\ owner[pending[s]] = s
    /\ phase[pending[s]] \in {"idle", "resume"}
    /\ phase[pending[s]] = "idle" => node[pending[s]] \in {"approval", "audit"}

OneScript ==
  \A r, q \in Runs : Running(r) /\ Running(q) /\ owner[r] = owner[q] => r = q

PlaceInv ==
  (\A r \in Runs : RunPlace(r)) /\ (\A s \in Sessions : PendingPlace(s)) /\ OneScript

(* What the buffer holds was called since the last prompt, by runs that     *)
(* have started.                                                            *)
UsageInv ==
  /\ \A q \in buffer : phase[q] # "none"
  /\ \A r \in Runs :
       /\ phase[r] = "none" => totals[r] = {}
       /\ \A q \in totals[r] : phase[q] # "none"
       /\ phase[r] = "invoke" => \A q \in buffer : owner[q] = owner[r] => q = r

(* A run that goes on after its approval has been answered by a button.     *)
AnsweredInv ==
  \A r \in Runs :
    /\ phase[r] \in {"idle", "resume"} /\ node[r] \in {"execute", "audit"} =>
         decision[r] \in {"approve", "reject"}
    /\ phase[r] = "resume" /\ node[r] = "end" =>
         (record[r].outcome = "completed" <=> Has(record[r].events, "execute"))

(* Whose last checkpoint is that of an interrupted approval has not gone on *)
(* from there: a run goes on only when a button has been pressed.           *)
AwaitingInv == \A r \in awaiting : node[r] \in {"approval", "lost"}

ConsoleInv ==
  /\ TypeOK /\ GraphInv /\ TellInv /\ PlaceInv /\ UsageInv /\ AnsweredInv /\ AwaitingInv
  /\ TotalsMixOnlyAcrossSessions

-----------------------------------------------------------------------------
(* The graph under the console.                                            *)

(* All a console does to the graphs is what graphs do, but for a restart.   *)
LEMMA ConsoleMovesGraph ==
  ASSUME TypeOK, PlaceInv, [Next]_vars, ~ Restart
  PROVE  [GraphNext]_graphVars
<1>1. ASSUME NEW s \in Sessions, NEW r \in Runs, Prompt(s, r) PROVE GraphNext
  BY <1>1 DEF Prompt, GraphNext
<1>2. ASSUME NEW s \in Sessions, NEW button \in {"approve", "reject"}, Press(s, button)
      PROVE  [GraphNext]_graphVars
  <2>1. pending[s] \in Runs /\ button \in Replies
    BY <1>2 DEF Press, TypeOK, Replies
  <2> QED
    BY <1>2, <2>1 DEF Press, GraphNext
<1>3. ASSUME NEW s \in Sessions, SwitchThread(s) PROVE GraphNext
  <2>1. pending[s] \in Runs
    BY <1>3 DEF SwitchThread, TypeOK
  <2> QED
    BY <1>3, <2>1 DEF SwitchThread, GraphNext
<1>4. ASSUME NEW r \in Runs, Step(r) PROVE GraphNext
  BY <1>4 DEF Step, GraphNext, Proceed
<1>5. ASSUME NEW r \in Runs, PostResume(r) \/ RaiseInResume(r) PROVE [GraphNext]_graphVars
  BY <1>5 DEF PostResume, RaiseInResume
<1>6. ASSUME NEW r \in Runs, Return(r) PROVE [GraphNext]_graphVars
  <2>1. UNCHANGED graphVars \/ (pending[owner[r]] # NoRun /\ Lose(pending[owner[r]]))
    BY <1>6 DEF Return
  <2>2. CASE pending[owner[r]] # NoRun /\ Lose(pending[owner[r]])
    <3>1. pending[owner[r]] \in Runs
      <4>1. owner[r] \in Sessions
        BY <1>6 DEF Return, RunAgentReturns, PlaceInv, RunPlace
      <4> QED
        BY <2>2, <4>1 DEF TypeOK
    <3> QED
      BY <2>2, <3>1 DEF GraphNext
  <2> QED
    BY <2>1, <2>2
<1>7. ASSUME NEW r \in Runs, Drop(r) \/ Raise(r) PROVE [GraphNext]_graphVars
  BY <1>7 DEF Drop, Raise, GraphNext
<1>8. CASE Reconfigure
  BY <1>8 DEF Reconfigure, GraphNext
<1>9. CASE UNCHANGED vars
  BY <1>9 DEF vars
<1> QED
  BY <1>1, <1>2, <1>3, <1>4, <1>5, <1>6, <1>7, <1>8, <1>9 DEF Next

LEMMA RestartKeepsGraph ==
  ASSUME GraphInv, TellInv, Restart
  PROVE  GraphInv' /\ TellInv'
<1>1. /\ \A r \in Runs : node'[r] = IF node[r] \in Nodes THEN "lost" ELSE node[r]
      /\ node' \in [Runs -> Places]
      /\ trail' = [r \in Runs |-> <<>>] /\ DOMAIN <<>> = {}
      /\ UNCHANGED <<env, cfg, plan, blocked, next, findings, decision, record, called>>
  BY DEF Restart, GraphInv, GraphTypeOK, Places
<1>2. GraphTypeOK'
  <2>1. trail' \in [Runs -> Seq(Event)]
    BY <1>1, EmptySeq
  <2> QED
    BY <1>1, <2>1 DEF GraphInv, GraphTypeOK
<1>3. GateInv'
  BY <1>1 DEF GraphInv, GateInv, GraphTypeOK, Places, Nodes
<1>4. ExecutedOnlyApproved'
  BY <1>1 DEF ExecutedOnlyApproved
<1>5. ASSUME NEW r \in Runs PROVE Tells(r)'
  <2>1. ~ Has(trail'[r], "approval") /\ ~ Has(trail'[r], "execute")
    BY <1>1 DEF Has
  <2>2. node'[r] \notin Nodes /\ (node'[r] = "fresh" => node[r] = "fresh")
    BY <1>1 DEF Nodes
  <2>3. Tells(r)
    BY DEF TellInv
  <2> QED
    BY <1>1, <2>1, <2>2, <2>3 DEF Tells, Nodes
<1> QED
  BY <1>2, <1>3, <1>4, <1>5 DEF GraphInv, TellInv

(* At the gate, a restart is the loss of every run that has not ended.      *)
LEMMA RestartLosesRuns ==
  ASSUME GraphTypeOK, Restart
  PROVE  Gate!Next
<1> DEFINE S == {q \in Runs : node[q] \in Nodes}
           stage == [q \in Runs |-> Stage(q)]
           told == [q \in Runs |-> IF record[q] = NoRecord THEN "nothing" ELSE record[q].outcome]
<1>1. /\ \A q \in Runs : node[q] \in Places /\ node'[q] = IF node[q] \in Nodes THEN "lost" ELSE node[q]
      /\ UNCHANGED <<decision, record>>
  BY DEF Restart, GraphTypeOK
<1>2. \A q \in S : Stage(q) \in {"open", "asked", "granted", "refused", "executed"} /\ Stage(q)' = "lost"
  BY <1>1 DEF Stage, Nodes
<1>3. \A q \in Runs \ S : Stage(q)' = Stage(q)
  BY <1>1 DEF Stage, Nodes, Places
<1>4. stage' = [q \in Runs |-> IF q \in S THEN "lost" ELSE stage[q]] /\ told' = told
  BY <1>1, <1>2, <1>3
<1>5. \A q \in S : stage[q] \in {"open", "asked", "granted", "refused", "executed"}
  BY <1>2
<1>6. S \in SUBSET Runs
  OBVIOUS
<1> HIDE DEF S
<1>7. Gate!Vanish(S)
  BY <1>1, <1>4, <1>5 DEF Gate!Vanish
<1> QED
  BY <1>6, <1>7 DEF Gate!Next

LEMMA GraphPart ==
  ASSUME TypeOK, PlaceInv, GraphInv, TellInv, [Next]_vars
  PROVE  GraphInv' /\ TellInv'
<1>1. CASE Restart
  BY <1>1, RestartKeepsGraph
<1>2. CASE ~ Restart
  <2>1. [GraphNext]_graphVars
    BY <1>2, ConsoleMovesGraph
  <2> QED
    BY <2>1, TypeStep, GateStep, ExecutedStep, TellStep DEF GraphInv
<1> QED
  BY <1>1, <1>2

-----------------------------------------------------------------------------
(* Types.                                                                  *)

LEMMA ConsoleTypes ==
  ASSUME TypeOK, GraphTypeOK', PlaceInv, [Next]_vars
  PROVE  TypeOK'
<1> USE DEF Phases
<1>0. /\ owner \in [Runs -> Sessions \cup {NoRun}] /\ phase \in [Runs -> Phases]
      /\ pending \in [Sessions -> Runs \cup {NoRun}] /\ buffer \subseteq Runs
      /\ totals \in [Runs -> SUBSET Runs] /\ tracked \in [Runs -> {"none", "complete", "error"}]
      /\ awaiting \subseteq Runs
  BY DEF TypeOK
<1>1. ASSUME NEW s \in Sessions, NEW r \in Runs, Prompt(s, r) PROVE TypeOK'
  BY <1>0, <1>1 DEF TypeOK, Prompt
<1>2. ASSUME NEW s \in Sessions, NEW button \in {"approve", "reject"}, Press(s, button) PROVE TypeOK'
  BY <1>0, <1>2 DEF TypeOK, Press
<1>3. ASSUME NEW s \in Sessions, SwitchThread(s) PROVE TypeOK'
  BY <1>0, <1>3 DEF TypeOK, SwitchThread
<1>4. ASSUME NEW r \in Runs, Step(r) PROVE TypeOK'
  <2>1. buffer' \in {buffer, buffer \cup {r}} /\ awaiting' \in {awaiting, awaiting \cup {r}}
    BY <1>4 DEF Step, MayCallLlm
  <2>2. UNCHANGED <<owner, phase, pending, totals, tracked>>
    BY <1>4 DEF Step
  <2> QED
    BY <1>0, <2>1, <2>2 DEF TypeOK
<1>5. ASSUME NEW r \in Runs, PostResume(r) \/ RaiseInResume(r) PROVE TypeOK'
  BY <1>0, <1>5 DEF TypeOK, PostResume, RaiseInResume
<1>6. ASSUME NEW r \in Runs, RunAgentReturns(r), pending' = pending \/ pending' = [pending EXCEPT ![owner[r]] = r]
      PROVE  TypeOK'
  <2>1. tracked' \in [Runs -> {"none", "complete", "error"}]
    BY <1>0, <1>6 DEF RunAgentReturns, TrackedStatus
  <2> QED
    BY <1>0, <1>6, <2>1 DEF TypeOK, RunAgentReturns
<1>7. ASSUME NEW r \in Runs, Return(r) \/ Drop(r) PROVE TypeOK'
  BY <1>6, <1>7 DEF Return, Drop
<1>8. ASSUME NEW r \in Runs, Raise(r) PROVE TypeOK'
  BY <1>0, <1>8 DEF TypeOK, Raise
<1>9. CASE Restart
  BY <1>0, <1>9 DEF TypeOK, Restart
<1>10. CASE Reconfigure
  BY <1>0, <1>10 DEF TypeOK, Reconfigure, consoleVars
<1>11. CASE UNCHANGED vars
  BY <1>0, <1>11 DEF TypeOK, vars, consoleVars
<1> QED
  BY <1>1, <1>2, <1>3, <1>4, <1>5, <1>7, <1>8, <1>9, <1>10, <1>11 DEF Next

-----------------------------------------------------------------------------
(* Places.                                                                 *)

(* What a session, or a run beside others, knows stays.                     *)
LEMMA PlaceStays ==
  ASSUME TypeOK, NEW r \in Runs, RunPlace(r), phase'[r] = phase[r], owner'[r] = owner[r],
         node'[r] = node[r], pending'[owner[r]] = pending[owner[r]]
  PROVE  RunPlace(r)'
BY DEF RunPlace

(* The runs of one session: while one is running, its pending run is idle   *)
(* or is that one.                                                          *)
LEMMA PendingIsIdle ==
  ASSUME TypeOK, PlaceInv, NEW r \in Runs, phase[r] = "invoke", pending[owner[r]] # NoRun
  PROVE  /\ pending[owner[r]] \in Runs /\ pending[owner[r]] # r
         /\ phase[pending[owner[r]]] = "idle"
         /\ node[pending[owner[r]]] \in {"approval", "audit"}
<1> DEFINE p == pending[owner[r]]
<1>1. owner[r] \in Sessions /\ p # r
  BY DEF PlaceInv, RunPlace
<1>2. p \in Runs /\ owner[p] = owner[r] /\ phase[p] \in {"idle", "resume"}
      /\ (phase[p] = "idle" => node[p] \in {"approval", "audit"})
  BY <1>1 DEF PlaceInv, PendingPlace, TypeOK
<1>3. phase[p] # "resume"
  BY <1>1, <1>2 DEF PlaceInv, OneScript, Running
<1> QED
  BY <1>1, <1>2, <1>3

Onward(r, n) ==
  /\ n \in (Nodes \ {"interpret"}) \cup {"end"}
  /\ node' = [node EXCEPT ![r] = n] /\ node[r] \in Nodes \ {"approval"}
  /\ node[r] = "execute" => n = "audit"
  /\ node[r] = "audit" => n = "end"
  /\ n = "execute" => node[r] = "execute"

LEMMA GraphMoves ==
  ASSUME GraphTypeOK, NEW r \in Runs
  PROVE  /\ Start(r) => node[r] = "fresh" /\ node' = [node EXCEPT ![r] = "interpret"]
         /\ Lose(r) => node[r] \in Nodes /\ node' = [node EXCEPT ![r] = "lost"]
         /\ Proceed(r) => \E n : Onward(r, n)
         /\ \A reply \in Replies : Reply(r, reply) =>
              /\ node[r] = "approval"
              /\ node' = [node EXCEPT ![r] = RouteAfterApproval(DecisionOf(reply))]
<1>1. Proceed(r) => \E n : Onward(r, n)
  <2>1. Interpret(r) => Onward(r, "plan")
    BY DEF Interpret, Goto, Nodes, Onward
  <2>2. PlanNode(r) => Onward(r, "artifactory_subgraph")
    BY DEF PlanNode, Goto, Nodes, Onward
  <2>3. Skip(r) \/ ReadAction(r) => Onward(r, "artifactory_subgraph")
    <3>1. ASSUME Skip(r) \/ ReadAction(r)
          PROVE  node' = [node EXCEPT ![r] = "artifactory_subgraph"] /\ node[r] = "artifactory_subgraph"
      BY <3>1 DEF Skip, ReadAction, AtAction, GraphTypeOK
    <3> QED
      BY <3>1 DEF Nodes, Onward
  <2>4. SubgraphDone(r) => Onward(r, "policy")
    BY DEF SubgraphDone, Goto, Nodes, Onward
  <2>5. Policy(r) => Onward(r, "approval") \/ Onward(r, "audit")
    BY DEF Policy, Goto, Nodes, Onward
  <2>6. Execute(r) => Onward(r, "audit")
    BY DEF Execute, Goto, Nodes, Onward
  <2>7. Audit(r) => Onward(r, "end")
    BY DEF Audit, Goto, Nodes, Onward
  <2> QED
    BY <2>1, <2>2, <2>3, <2>4, <2>5, <2>6, <2>7 DEF Proceed
<1> QED
  BY <1>1 DEF Start, Lose, Reply, Goto

LEMMA PlaceStep ==
  ASSUME TypeOK, PlaceInv, [Next]_vars
  PROVE  PlaceInv'
<1>0. /\ owner \in [Runs -> Sessions \cup {NoRun}] /\ phase \in [Runs -> Phases]
      /\ pending \in [Sessions -> Runs \cup {NoRun}] /\ node \in [Runs -> Places]
      /\ GraphTypeOK /\ NoRun \notin Runs
  BY ConsoleAssumption DEF TypeOK, GraphTypeOK
<1> DEFINE Placed == (\A r \in Runs : RunPlace(r)) /\ (\A s \in Sessions : PendingPlace(s)) /\ OneScript
<1>a. Placed
  BY DEF PlaceInv
<1>1. ASSUME NEW s \in Sessions, NEW r \in Runs, Prompt(s, r) PROVE PlaceInv'
  <2>1. /\ ~ Busy(s) /\ node[r] = "fresh" /\ node' = [node EXCEPT ![r] = "interpret"]
        /\ owner' = [owner EXCEPT ![r] = s] /\ phase' = [phase EXCEPT ![r] = "invoke"]
        /\ pending' = pending
    BY <1>0, <1>1, GraphMoves DEF Prompt
  <2>2. phase[r] = "none" /\ \A t \in Sessions : pending[t] # r
    BY <1>0, <1>a, <2>1 DEF RunPlace, PendingPlace
  <2>3. ASSUME NEW q \in Runs PROVE RunPlace(q)'
    <3>1. CASE q = r
      BY <1>0, <2>1, <2>2, <3>1 DEF RunPlace
    <3>2. CASE q # r
      BY <1>0, <1>a, <2>1, <3>2, PlaceStays
    <3> QED
      BY <3>1, <3>2
  <2>4. ASSUME NEW t \in Sessions PROVE PendingPlace(t)'
    BY <1>0, <1>a, <2>1, <2>2 DEF PendingPlace
  <2>5. OneScript'
    BY <1>0, <1>a, <2>1 DEF OneScript, Running, Busy
  <2> QED
    BY <2>3, <2>4, <2>5 DEF PlaceInv
<1>2. ASSUME NEW s \in Sessions, NEW button \in {"approve", "reject"}, Press(s, button)
      PROVE  PlaceInv'
  <2> DEFINE r == pending[s]
  <2>1. /\ r \in Runs /\ ~ Busy(s) /\ owner[r] = s /\ phase[r] = "idle"
        /\ node[r] \in {"approval", "audit"}
    BY <1>0, <1>a, <1>2 DEF Press, PendingPlace, Busy, Running
  <2>2. /\ phase' = [phase EXCEPT ![r] = "resume"] /\ owner' = owner /\ pending' = pending
        /\ \E n \in {"execute", "audit"} : node' = [node EXCEPT ![r] = n]
    <3>1. button \in Replies /\ RouteAfterApproval(DecisionOf(button)) \in {"execute", "audit"}
      BY DEF Replies, RouteAfterApproval
    <3>2. Reply(r, button) => \E n \in {"execute", "audit"} : node' = [node EXCEPT ![r] = n]
      BY <1>0, <2>1, <3>1, GraphMoves
    <3>3. UNCHANGED graphVars /\ node[r] = "audit" => node' = [node EXCEPT ![r] = "audit"]
      BY <1>0 DEF graphVars
    <3> QED
      BY <1>2, <2>1, <3>2, <3>3 DEF Press
  <2> HIDE DEF r
  <2>3. ASSUME NEW q \in Runs PROVE RunPlace(q)'
    <3>1. CASE q = r
      BY <1>0, <1>a, <2>1, <2>2, <3>1 DEF RunPlace, r
    <3>2. CASE q # r
      BY <1>0, <1>a, <2>2, <3>2, PlaceStays
    <3> QED
      BY <3>1, <3>2
  <2>4. ASSUME NEW t \in Sessions PROVE PendingPlace(t)'
    BY <1>0, <1>a, <2>1, <2>2 DEF PendingPlace
  <2>5. OneScript'
    BY <1>0, <1>a, <2>1, <2>2 DEF OneScript, Running, Busy
  <2> QED
    BY <2>3, <2>4, <2>5 DEF PlaceInv
<1>3. ASSUME NEW s \in Sessions, SwitchThread(s) PROVE PlaceInv'
  <2> DEFINE r == pending[s]
  <2>1. /\ r \in Runs /\ ~ Busy(s) /\ owner[r] = s /\ phase[r] = "idle"
    BY <1>0, <1>a, <1>3 DEF SwitchThread, PendingPlace, Busy, Running
  <2>2. /\ phase' = phase /\ owner' = owner /\ pending' = [pending EXCEPT ![s] = NoRun]
        /\ node' = [node EXCEPT ![r] = "lost"] /\ node[r] \in Nodes
    BY <1>0, <1>3, <2>1, GraphMoves DEF SwitchThread
  <2>3. ASSUME NEW q \in Runs PROVE RunPlace(q)'
    BY <1>0, <1>a, <2>1, <2>2 DEF RunPlace, Nodes, Busy, Running
  <2>4. ASSUME NEW t \in Sessions PROVE PendingPlace(t)'
    BY <1>0, <1>a, <2>1, <2>2 DEF PendingPlace
  <2>5. OneScript'
    BY <1>a, <2>2 DEF OneScript, Running
  <2> QED
    BY <2>3, <2>4, <2>5 DEF PlaceInv
<1>4. ASSUME NEW r \in Runs, Step(r) PROVE PlaceInv'
  <2>1. /\ Running(r) /\ UNCHANGED <<phase, owner, pending>> /\ \E n : Onward(r, n)
    BY <1>0, <1>4, GraphMoves DEF Step, Proceed
  <2>2. PICK n : Onward(r, n)
    BY <2>1
  <2>3. ASSUME NEW q \in Runs PROVE RunPlace(q)'
    BY <1>0, <1>a, <2>1, <2>2 DEF RunPlace, Nodes, Running, Onward
  <2>4. ASSUME NEW t \in Sessions PROVE PendingPlace(t)'
    BY <1>0, <1>a, <2>1, <2>2 DEF PendingPlace, Running, Onward
  <2>5. OneScript'
    BY <1>a, <2>1 DEF OneScript, Running
  <2> QED
    BY <2>3, <2>4, <2>5 DEF PlaceInv
<1>5. ASSUME NEW r \in Runs, PostResume(r) \/ RaiseInResume(r) PROVE PlaceInv'
  <2>1. /\ phase[r] = "resume" /\ phase' = [phase EXCEPT ![r] = "idle"]
        /\ owner' = owner /\ node' = node
        /\ \/ node[r] = "end" /\ pending' = [pending EXCEPT ![owner[r]] = NoRun]
           \/ node[r] = "audit" /\ pending' = pending
    BY <1>5 DEF PostResume, RaiseInResume, graphVars
  <2>2. owner[r] \in Sessions /\ pending[owner[r]] = r
    BY <1>a, <2>1 DEF RunPlace
  <2>3. ASSUME NEW q \in Runs PROVE RunPlace(q)'
    BY <1>0, <1>a, <2>1, <2>2 DEF RunPlace, Nodes
  <2>4. ASSUME NEW t \in Sessions PROVE PendingPlace(t)'
    BY <1>0, <1>a, <2>1, <2>2 DEF PendingPlace
  <2>5. OneScript'
    BY <1>0, <1>a, <2>1 DEF OneScript, Running
  <2> QED
    BY <2>3, <2>4, <2>5 DEF PlaceInv
<1>6. ASSUME NEW r \in Runs, Return(r), node[r] = "approval" PROVE PlaceInv'
  <2> DEFINE s == owner[r]
             p == pending[s]
  <2>1. /\ phase[r] = "invoke" /\ phase' = [phase EXCEPT ![r] = "idle"] /\ owner' = owner
        /\ pending' = [pending EXCEPT ![s] = r] /\ s \in Sessions
        /\ p = NoRun => node' = node
        /\ p # NoRun => Lose(p)
    BY <1>a, <1>6 DEF Return, RunAgentReturns, graphVars, RunPlace
  <2>2. p # NoRun => p \in Runs /\ p # r /\ phase[p] = "idle"
    BY <2>1, PendingIsIdle
  <2>3. node' = node \/ (p \in Runs /\ p # r /\ phase[p] = "idle" /\ node' = [node EXCEPT ![p] = "lost"])
    BY <1>0, <2>1, <2>2, GraphMoves
  <2>4. p # r
    BY <1>0, <2>2
  <2>5. \A t \in Sessions : pending[t] # r
    BY <1>0, <1>a, <2>1 DEF PendingPlace
  <2>6. p \in Runs => owner[p] = s /\ node[p] \in {"approval", "audit"}
    BY <1>0, <1>a, <2>1, <2>2 DEF PendingPlace
  <2>7. p = NoRun \/ p \in Runs
    BY <1>0, <2>1
  <2>8. p \in Runs => node' = [node EXCEPT ![p] = "lost"]
    BY <1>0, <2>1, GraphMoves
  <2> HIDE DEF p, s
  <2>9. ASSUME NEW q \in Runs PROVE RunPlace(q)'
    <3>1. CASE q = r
      BY <1>0, <1>6, <2>1, <2>3, <2>4, <3>1 DEF RunPlace, s
    <3>2. CASE q = p
      BY <1>0, <1>a, <2>1, <2>2, <2>4, <2>6, <2>8, <3>2 DEF RunPlace, Nodes, Places
    <3>3. CASE q # r /\ q # p /\ owner[q] = s
      BY <1>0, <1>a, <2>1, <2>3, <3>3 DEF RunPlace, p
    <3>4. CASE q # r /\ q # p /\ owner[q] # s
      <4>1. pending'[owner[q]] = pending[owner[q]] \/ owner[q] \notin Sessions
        BY <1>0, <2>1, <3>4
      <4>2. node'[q] = node[q] /\ phase'[q] = phase[q]
        BY <1>0, <2>1, <2>3, <3>4
      <4> QED
        BY <1>a, <2>1, <4>1, <4>2 DEF RunPlace, Nodes, Places
    <3> QED
      BY <3>1, <3>2, <3>3, <3>4
  <2>10. ASSUME NEW t \in Sessions PROVE PendingPlace(t)'
    <3>1. CASE t = s
      BY <1>0, <1>6, <2>1, <2>3, <2>4, <3>1 DEF PendingPlace, s
    <3>2. CASE t # s /\ pending[t] # NoRun
      <4>1. pending'[t] = pending[t] /\ pending[t] \in Runs /\ pending[t] # r
            /\ owner[pending[t]] = t
        BY <1>0, <1>a, <2>1, <2>5, <3>2 DEF PendingPlace
      <4>2. pending[t] # p
        BY <2>6, <3>2, <4>1
      <4> QED
        BY <1>0, <1>a, <2>1, <2>3, <4>1, <4>2 DEF PendingPlace
    <3>3. CASE t # s /\ pending[t] = NoRun
      BY <1>0, <2>1, <3>3 DEF PendingPlace
    <3> QED
      BY <3>1, <3>2, <3>3
  <2>11. OneScript'
    BY <1>0, <1>a, <2>1 DEF OneScript, Running
  <2> QED
    BY <2>9, <2>10, <2>11 DEF PlaceInv
<1>7. ASSUME NEW r \in Runs,
             \/ Return(r) /\ node[r] # "approval"
             \/ Drop(r)
             \/ Raise(r)
      PROVE  PlaceInv'
  <2>1. /\ phase[r] = "invoke" /\ phase' = [phase EXCEPT ![r] = "idle"] /\ owner' = owner
        /\ pending' = pending
        /\ \/ node' = node /\ node[r] = "end"
           \/ Lose(r)
    BY <1>7 DEF Return, Drop, Raise, RunAgentReturns, graphVars
  <2>2. \/ node' = node /\ node[r] = "end"
        \/ node' = [node EXCEPT ![r] = "lost"]
    BY <1>0, <2>1, GraphMoves
  <2>3. \A t \in Sessions : pending[t] # r
    BY <1>0, <1>a, <2>1 DEF PendingPlace
  <2>4. ASSUME NEW q \in Runs PROVE RunPlace(q)'
    BY <1>0, <1>a, <2>1, <2>2 DEF RunPlace, Nodes
  <2>5. ASSUME NEW t \in Sessions PROVE PendingPlace(t)'
    BY <1>0, <1>a, <2>1, <2>2, <2>3 DEF PendingPlace
  <2>6. OneScript'
    BY <1>0, <1>a, <2>1 DEF OneScript, Running
  <2> QED
    BY <2>4, <2>5, <2>6 DEF PlaceInv
<1>8. CASE Restart
  <2>1. /\ \A q \in Runs : node'[q] = IF node[q] \in Nodes THEN "lost" ELSE node[q]
        /\ \A q \in Runs : phase'[q] = IF phase[q] = "none" THEN "none" ELSE "idle"
        /\ \A t \in Sessions : pending'[t] = NoRun
        /\ owner' = owner
    BY <1>8 DEF Restart
  <2>2. ASSUME NEW q \in Runs PROVE RunPlace(q)'
    BY <1>0, <1>a, <2>1 DEF RunPlace, Nodes
  <2> QED
    BY <2>1, <2>2 DEF PlaceInv, PendingPlace, OneScript, Running
<1>9. CASE Reconfigure \/ UNCHANGED vars
  <2>1. UNCHANGED <<owner, phase, pending, node>>
    BY <1>9 DEF Reconfigure, Configure, vars, consoleVars, graphVars
  <2> QED
    BY <1>a, <2>1 DEF PlaceInv, RunPlace, PendingPlace, OneScript, Running
<1> QED
  BY <1>1, <1>2, <1>3, <1>4, <1>5, <1>6, <1>7, <1>8, <1>9 DEF Next

-----------------------------------------------------------------------------
(* Usage.                                                                  *)

LEMMA UsageStep ==
  ASSUME TypeOK, PlaceInv, UsageInv, TotalsMixOnlyAcrossSessions, [Next]_vars
  PROVE  UsageInv' /\ TotalsMixOnlyAcrossSessions'
<1>0. /\ owner \in [Runs -> Sessions \cup {NoRun}] /\ phase \in [Runs -> Phases]
      /\ buffer \subseteq Runs /\ totals \in [Runs -> SUBSET Runs] /\ OneScript
      /\ \A r \in Runs : RunPlace(r)
      /\ pending \in [Sessions -> Runs \cup {NoRun}]
  BY DEF TypeOK, PlaceInv
<1> DEFINE Mixes == \A r \in Runs : \A q \in totals[r] : q = r \/ owner[q] # owner[r]
<1>a. UsageInv /\ Mixes
  BY DEF TotalsMixOnlyAcrossSessions
<1>b. Mixes' /\ (\A r \in Runs : totals'[r] \subseteq Runs) => TotalsMixOnlyAcrossSessions'
  BY DEF TotalsMixOnlyAcrossSessions
<1> HIDE DEF Mixes
<1>1. ASSUME NEW s \in Sessions, NEW r \in Runs, Prompt(s, r) PROVE UsageInv' /\ Mixes'
  <2>1. /\ owner' = [owner EXCEPT ![r] = s] /\ phase' = [phase EXCEPT ![r] = "invoke"]
        /\ buffer' = {} /\ totals' = totals /\ phase[r] = "none"
    BY <1>0, <1>1 DEF Prompt, Start, RunPlace
  <2>2. totals[r] = {} /\ \A q \in Runs : r \notin totals[q]
    BY <1>a, <2>1 DEF UsageInv
  <2>3. \A q \in Runs : totals[q] \subseteq Runs
    BY <1>0
  <2>4. UsageInv'
    BY <1>0, <1>a, <2>1, <2>2, <2>3 DEF UsageInv
  <2>5. Mixes'
    BY <1>0, <1>a, <2>1, <2>2, <2>3 DEF Mixes
  <2> QED
    BY <2>4, <2>5
<1>2. ASSUME NEW r \in Runs, Step(r) PROVE UsageInv' /\ Mixes'
  <2>1. /\ Running(r) /\ buffer' \in {buffer, buffer \cup {r}}
        /\ UNCHANGED <<owner, phase, totals>>
    BY <1>2 DEF Step, MayCallLlm
  <2>2. \A q \in Runs : phase[q] = "invoke" /\ owner[r] = owner[q] => r = q
    BY <1>0, <2>1 DEF OneScript, Running
  <2>3. phase[r] # "none"
    BY <2>1 DEF Running
  <2>4. UsageInv'
    BY <1>0, <1>a, <2>1, <2>2, <2>3 DEF UsageInv
  <2> QED
    BY <1>a, <2>1, <2>4 DEF Mixes
<1>3. ASSUME NEW r \in Runs, RunAgentReturns(r) PROVE UsageInv' /\ Mixes'
  <2>1. /\ phase[r] = "invoke" /\ phase' = [phase EXCEPT ![r] = "idle"]
        /\ totals' = [totals EXCEPT ![r] = buffer] /\ UNCHANGED <<owner, buffer>>
    BY <1>3 DEF RunAgentReturns
  <2>2. \A q \in Runs : totals[q] \subseteq Runs
    BY <1>0
  <2>3. UsageInv'
    BY <1>0, <1>a, <2>1, <2>2 DEF UsageInv
  <2>4. Mixes'
    BY <1>0, <1>a, <2>1, <2>2 DEF UsageInv, Mixes
  <2> QED
    BY <2>3, <2>4
<1>4. ASSUME NEW r \in Runs, Raise(r) \/ PostResume(r) \/ RaiseInResume(r)
      PROVE  UsageInv' /\ Mixes'
  <2>1. /\ phase[r] # "none" /\ phase' = [phase EXCEPT ![r] = "idle"]
        /\ UNCHANGED <<owner, buffer, totals>>
    BY <1>4 DEF Raise, PostResume, RaiseInResume
  <2>2. \A q \in Runs : totals[q] \subseteq Runs
    BY <1>0
  <2>3. UsageInv'
    BY <1>0, <1>a, <2>1, <2>2 DEF UsageInv
  <2> QED
    BY <1>a, <2>1, <2>3 DEF Mixes
<1>5. ASSUME NEW s \in Sessions, NEW button \in {"approve", "reject"}, Press(s, button)
      PROVE  UsageInv' /\ Mixes'
  <2> DEFINE r == pending[s]
  <2>1. /\ r \in Runs /\ phase' = [phase EXCEPT ![r] = "resume"] /\ phase[r] # "none"
        /\ UNCHANGED <<owner, buffer, totals>>
    BY <1>0, <1>5 DEF Press, PlaceInv, PendingPlace
  <2>2. \A q \in Runs : totals[q] \subseteq Runs
    BY <1>0
  <2> HIDE DEF r
  <2>3. UsageInv'
    BY <1>0, <1>a, <2>1, <2>2 DEF UsageInv
  <2> QED
    BY <1>a, <2>1, <2>3 DEF Mixes
<1>6. ASSUME Restart PROVE UsageInv' /\ Mixes'
  <2>1. /\ phase' = [r \in Runs |-> IF phase[r] = "none" THEN "none" ELSE "idle"]
        /\ buffer' = {} /\ UNCHANGED <<owner, totals>>
    BY <1>6 DEF Restart
  <2>2. \A q \in Runs : totals[q] \subseteq Runs
    BY <1>0
  <2>3. UsageInv'
    BY <1>0, <1>a, <2>1, <2>2 DEF UsageInv
  <2>4. owner' = owner /\ totals' = totals
    BY <2>1
  <2>5. Mixes'
    BY <1>a, <2>4 DEF Mixes
  <2> QED
    BY <2>3, <2>5
<1>7. ASSUME UNCHANGED vars \/ Reconfigure \/ \E s \in Sessions : SwitchThread(s)
      PROVE  UsageInv' /\ Mixes'
  <2>1. UNCHANGED <<owner, phase, buffer, totals>>
    BY <1>7 DEF vars, consoleVars, Reconfigure, SwitchThread
  <2>2. UsageInv'
    BY <1>a, <2>1 DEF UsageInv
  <2>3. Mixes'
    BY <1>a, <2>1 DEF Mixes
  <2> QED
    BY <2>2, <2>3
<1>8. UsageInv' /\ Mixes'
  <2>1. ASSUME NEW r \in Runs, Return(r) \/ Drop(r) PROVE UsageInv' /\ Mixes'
    BY <1>3, <2>1 DEF Return, Drop
  <2> QED
    BY <1>1, <1>2, <1>4, <1>5, <1>6, <1>7, <2>1 DEF Next
<1>9. \A r \in Runs : totals'[r] \subseteq Runs
  <2>1. totals' = totals \/ \E r \in Runs : totals' = [totals EXCEPT ![r] = buffer]
    BY DEF Next, vars, consoleVars, Prompt, Press, SwitchThread, Step, PostResume, RaiseInResume,
           Return, Drop, Raise, RunAgentReturns, Restart, Reconfigure
  <2> QED
    BY <1>0, <2>1
<1> QED
  BY <1>8, <1>9, <1>b

-----------------------------------------------------------------------------
(* "completed" means executed.                                             *)

(* An answered run that is audited is recorded as it was answered.          *)
LEMMA AnsweredAudit ==
  ASSUME GraphTypeOK, NEW r \in Runs, Tells(r), Audit(r), decision[r] \in {"approve", "reject"}
  PROVE  record'[r].outcome = "completed" <=> Has(record'[r].events, "execute")
<1>1. node[r] = "audit"
  BY DEF Audit
<1>2. record'[r].events = trail[r] /\ record'[r].outcome = Outcome(r)
  BY AuditIsComplete
<1>3. Has(trail[r], "execute") => Outcome(r) = "completed"
  BY AuditIsComplete
<1>4. ~ Has(trail[r], "execute") => Outcome(r) = "rejected"
  BY <1>1 DEF Tells, Outcome
<1> QED
  BY <1>2, <1>3, <1>4

LEMMA AnsweredStep ==
  ASSUME TypeOK, TellInv, PlaceInv, AnsweredInv, [Next]_vars
  PROVE  AnsweredInv'
<1>0. /\ phase \in [Runs -> Phases] /\ node \in [Runs -> Places] /\ GraphTypeOK
      /\ pending \in [Sessions -> Runs \cup {NoRun}] /\ NoRun \notin Runs
      /\ \A r \in Runs : RunPlace(r)
      /\ decision \in [Runs -> Decisions \cup {"none"}]
  BY ConsoleAssumption DEF TypeOK, GraphTypeOK, PlaceInv
<1> DEFINE Answered(r) ==
             /\ phase[r] \in {"idle", "resume"} /\ node[r] \in {"execute", "audit"} =>
                  decision[r] \in {"approve", "reject"}
             /\ phase[r] = "resume" /\ node[r] = "end" =>
                  (record[r].outcome = "completed" <=> Has(record[r].events, "execute"))
<1>a. \A r \in Runs : Answered(r)
  BY DEF AnsweredInv
<1>b. (\A r \in Runs : Answered(r)') => AnsweredInv'
  BY DEF AnsweredInv
<1> HIDE DEF Answered
<1>s. ASSUME NEW q \in Runs, phase'[q] = phase[q], node'[q] = node[q], decision'[q] = decision[q],
             record'[q] = record[q]
      PROVE  Answered(q)'
  BY <1>a, <1>s DEF Answered
<1>1. ASSUME NEW s \in Sessions, NEW r \in Runs, Prompt(s, r), NEW q \in Runs PROVE Answered(q)'
  <2>1. /\ phase' = [phase EXCEPT ![r] = "invoke"] /\ node' = [node EXCEPT ![r] = "interpret"]
        /\ UNCHANGED <<decision, record>>
    BY <1>0, <1>1, GraphMoves DEF Prompt, Start
  <2>2. CASE q = r
    BY <1>0, <2>1, <2>2 DEF Answered
  <2>3. CASE q # r
    BY <1>0, <1>s, <2>1, <2>3
  <2> QED
    BY <2>2, <2>3
<1>2. ASSUME NEW s \in Sessions, NEW button \in {"approve", "reject"}, Press(s, button), NEW q \in Runs
      PROVE  Answered(q)'
  <2> DEFINE r == pending[s]
  <2>1. /\ r \in Runs /\ phase[r] = "idle" /\ node[r] \in {"approval", "audit"}
    BY <1>0, <1>2 DEF Press, PlaceInv, PendingPlace, Busy, Running
  <2>2. /\ phase' = [phase EXCEPT ![r] = "resume"]
        /\ \/ UNCHANGED graphVars /\ node[r] = "audit"
           \/ Reply(r, button)
    BY <1>2, <2>1 DEF Press
  <2> HIDE DEF r
  <2>3. CASE UNCHANGED graphVars /\ node[r] = "audit"
    BY <1>0, <1>a, <2>1, <2>2, <2>3 DEF graphVars, Answered
  <2>4. CASE Reply(r, button)
    <3>1. button \in Replies /\ DecisionOf(button) = button
      BY DEF Replies, DecisionOf
    <3>2. /\ decision' = [decision EXCEPT ![r] = button] /\ record' = record
          /\ node' = [node EXCEPT ![r] = RouteAfterApproval(button)]
      BY <2>4, <3>1 DEF Reply, Goto
    <3>3. CASE q = r
      BY <1>0, <2>1, <2>2, <3>2, <3>3 DEF Answered, RouteAfterApproval
    <3>4. CASE q # r
      BY <1>0, <1>s, <2>1, <2>2, <3>2, <3>4
    <3> QED
      BY <3>3, <3>4
  <2> QED
    BY <2>2, <2>3, <2>4
<1>3. ASSUME NEW r \in Runs, Step(r), NEW q \in Runs PROVE Answered(q)'
  <2>1. /\ phase' = phase /\ Running(r) /\ Proceed(r)
    BY <1>3 DEF Step, Proceed
  <2>2. decision' = decision
    BY <2>1 DEF Proceed, Interpret, PlanNode, Skip, ReadAction, SubgraphDone, Policy, Execute, Audit
  <2>3. PICK n : Onward(r, n)
    BY <1>0, <2>1, GraphMoves
  <2>4. CASE q # r
    <3>1. record'[q] = record[q]
      BY <1>0, <2>1, <2>4 DEF GraphTypeOK, Proceed, Interpret, PlanNode, Skip, ReadAction,
             SubgraphDone, Policy, Execute, Audit
    <3> QED
      BY <1>0, <1>s, <2>1, <2>2, <2>3, <2>4, <3>1 DEF Onward
  <2>5. CASE q = r /\ phase[r] = "resume"
    <3>1. node[r] \in {"execute", "audit"} /\ decision[r] \in {"approve", "reject"}
      BY <1>0, <1>a, <2>3, <2>5 DEF RunPlace, Onward, Nodes, Answered
    <3>2. CASE node[r] = "execute"
      BY <1>0, <2>1, <2>2, <2>3, <2>5, <3>1, <3>2 DEF Onward, Answered
    <3>3. CASE node[r] = "audit"
      <4>1. Audit(r)
        BY <2>1, <3>3 DEF Proceed, Interpret, PlanNode, Skip, ReadAction, AtAction, SubgraphDone,
               Policy, Execute
      <4>2. record'[r].outcome = "completed" <=> Has(record'[r].events, "execute")
        BY <1>0, <3>1, <4>1, AnsweredAudit DEF TellInv
      <4>3. node'[r] = "end"
        BY <1>0, <4>1 DEF Audit, Goto
      <4> QED
        BY <2>5, <4>2, <4>3 DEF Answered
    <3> QED
      BY <3>1, <3>2, <3>3
  <2>6. CASE q = r /\ phase[r] = "invoke"
    BY <2>1, <2>6 DEF Answered
  <2> QED
    BY <2>1, <2>4, <2>5, <2>6 DEF Running
<1>4. ASSUME NEW r \in Runs, PostResume(r) \/ RaiseInResume(r), NEW q \in Runs PROVE Answered(q)'
  <2>1. phase[r] = "resume" /\ phase' = [phase EXCEPT ![r] = "idle"]
        /\ UNCHANGED <<node, decision, record>>
    BY <1>4 DEF PostResume, RaiseInResume, graphVars
  <2> QED
    BY <1>0, <1>a, <2>1 DEF Answered
<1>5. ASSUME NEW p \in Runs, Lose(p), \A r \in Runs : phase'[r] = phase[r] \/ phase'[r] = "idle",
             \A r \in Runs : r # p /\ phase'[r] # phase[r] => node[r] \in {"approval", "end"},
             NEW q \in Runs
      PROVE  Answered(q)'
  <2>1. node' = [node EXCEPT ![p] = "lost"] /\ UNCHANGED <<decision, record>>
    BY <1>5 DEF Lose, Goto
  <2> QED
    BY <1>0, <1>5, <1>a, <2>1 DEF Answered
<1>6. ASSUME NEW r \in Runs, RunAgentReturns(r), UNCHANGED graphVars, NEW q \in Runs PROVE Answered(q)'
  <2>1. phase' = [phase EXCEPT ![r] = "idle"] /\ node[r] \in {"approval", "end"}
        /\ UNCHANGED <<node, decision, record>>
    BY <1>6 DEF RunAgentReturns, graphVars
  <2> QED
    BY <1>0, <1>a, <2>1 DEF Answered
<1>7. ASSUME NEW r \in Runs, Return(r) \/ Drop(r) \/ Raise(r), NEW q \in Runs PROVE Answered(q)'
  <2>1. phase' = [phase EXCEPT ![r] = "idle"] /\ phase[r] = "invoke"
    BY <1>7 DEF Return, Drop, Raise, RunAgentReturns
  <2>2. CASE UNCHANGED graphVars /\ RunAgentReturns(r)
    BY <1>6, <2>2
  <2>3. CASE Lose(r)
    BY <1>0, <1>5, <2>1, <2>3
  <2>4. CASE Lose(pending[owner[r]]) /\ pending[owner[r]] # NoRun /\ node[r] = "approval"
    <3>1. pending[owner[r]] \in Runs
      BY <2>1, <2>4, PendingIsIdle
    <3> QED
      BY <1>0, <1>5, <2>1, <2>4, <3>1
  <2> QED
    BY <1>7, <2>2, <2>3, <2>4 DEF Return, Drop, Raise
<1>8. ASSUME NEW s \in Sessions, SwitchThread(s), NEW q \in Runs PROVE Answered(q)'
  <2>1. pending[s] \in Runs /\ Lose(pending[s]) /\ phase' = phase
    BY <1>0, <1>8 DEF SwitchThread
  <2> QED
    BY <1>5, <2>1
<1>9. ASSUME Restart, NEW q \in Runs PROVE Answered(q)'
  <2>1. /\ node'[q] = IF node[q] \in Nodes THEN "lost" ELSE node[q]
        /\ phase'[q] = IF phase[q] = "none" THEN "none" ELSE "idle"
    BY <1>9 DEF Restart
  <2> QED
    BY <2>1 DEF Answered, Nodes
<1>10. ASSUME Reconfigure \/ UNCHANGED vars, NEW q \in Runs PROVE Answered(q)'
  <2>1. UNCHANGED <<phase, node, decision, record>>
    BY <1>10 DEF Reconfigure, Configure, vars, consoleVars, graphVars
  <2> QED
    BY <1>s, <2>1
<1> QED
  BY <1>b, <1>1, <1>2, <1>3, <1>4, <1>7, <1>8, <1>9, <1>10 DEF Next

-----------------------------------------------------------------------------
(* Theorems.                                                               *)

(* A checkpoint that awaits its approval belongs to a run that waits, or to *)
(* one the process has let go of.                                           *)
LEMMA AwaitingStep ==
  ASSUME TypeOK, PlaceInv, AwaitingInv, [Next]_vars
  PROVE  AwaitingInv'
<1>0. /\ node \in [Runs -> Places] /\ GraphTypeOK /\ awaiting \subseteq Runs
      /\ \A q \in awaiting : node[q] \in {"approval", "lost"}
  BY DEF TypeOK, GraphTypeOK, AwaitingInv
<1>1. ASSUME NEW s \in Sessions, NEW r \in Runs, Prompt(s, r) PROVE AwaitingInv'
  <2>1. node[r] = "fresh" /\ node' = [node EXCEPT ![r] = "interpret"] /\ awaiting' = awaiting
    BY <1>0, <1>1, GraphMoves DEF Prompt
  <2>2. r \notin awaiting
    BY <1>0, <2>1
  <2> QED
    BY <1>0, <2>1, <2>2 DEF AwaitingInv
<1>2. ASSUME NEW s \in Sessions, NEW button \in {"approve", "reject"}, Press(s, button)
      PROVE  AwaitingInv'
  <2> DEFINE r == pending[s]
  <2>1. r \in Runs /\ button \in Replies /\ awaiting' = awaiting \ {r}
    BY <1>2 DEF Press, TypeOK, Replies
  <2>2. node' = node \/ \E n : node' = [node EXCEPT ![r] = n]
    BY <1>0, <1>2, <2>1, GraphMoves DEF Press, graphVars
  <2> QED
    BY <1>0, <2>1, <2>2 DEF AwaitingInv
<1>3. ASSUME NEW r \in Runs, Lose(r), awaiting' = awaiting PROVE AwaitingInv'
  <2>1. node' = [node EXCEPT ![r] = "lost"]
    BY <1>0, <1>3, GraphMoves
  <2> QED
    BY <1>0, <1>3, <2>1 DEF AwaitingInv
<1>4. ASSUME node' = node, awaiting' = awaiting PROVE AwaitingInv'
  BY <1>0, <1>4 DEF AwaitingInv
<1>5. ASSUME NEW r \in Runs, Step(r) PROVE AwaitingInv'
  <2>1. PICK n : Onward(r, n)
    BY <1>0, <1>5, GraphMoves DEF Step, Proceed
  <2>2. /\ node' = [node EXCEPT ![r] = n]
        /\ awaiting' = IF node'[r] = "approval" THEN awaiting \cup {r} ELSE awaiting
        /\ r \notin awaiting
    BY <1>0, <1>5, <2>1 DEF Step, Onward, Nodes
  <2> QED
    BY <1>0, <2>2 DEF AwaitingInv
<1>6. ASSUME NEW s \in Sessions, SwitchThread(s) PROVE AwaitingInv'
  <2>1. pending[s] \in Runs
    BY <1>6 DEF SwitchThread, TypeOK
  <2> QED
    BY <1>3, <1>6, <2>1 DEF SwitchThread
<1>7. ASSUME NEW r \in Runs, Return(r) PROVE AwaitingInv'
  <2>1. awaiting' = awaiting /\ owner[r] \in Sessions
    BY <1>7 DEF Return, RunAgentReturns, PlaceInv, RunPlace
  <2>2. node' = node \/ (pending[owner[r]] # NoRun /\ Lose(pending[owner[r]]))
    BY <1>7 DEF Return, graphVars
  <2>3. pending[owner[r]] # NoRun => pending[owner[r]] \in Runs
    BY <2>1 DEF TypeOK
  <2> QED
    BY <1>3, <1>4, <2>1, <2>2, <2>3
<1>8. ASSUME NEW r \in Runs, Drop(r) \/ Raise(r) PROVE AwaitingInv'
  <2>1. awaiting' = awaiting /\ (node' = node \/ Lose(r))
    BY <1>8 DEF Drop, Raise, RunAgentReturns, graphVars
  <2> QED
    BY <1>3, <1>4, <2>1
<1>9. ASSUME NEW r \in Runs, PostResume(r) \/ RaiseInResume(r) PROVE AwaitingInv'
  BY <1>4, <1>9 DEF PostResume, RaiseInResume, graphVars
<1>10. CASE Restart
  <2>1. /\ awaiting' \in SUBSET awaiting
        /\ node' = [q \in Runs |-> IF node[q] \in Nodes THEN "lost" ELSE node[q]]
    BY <1>10 DEF Restart
  <2> QED
    BY <1>0, <2>1 DEF AwaitingInv, Nodes
<1>11. CASE Reconfigure \/ UNCHANGED vars
  BY <1>4, <1>11 DEF Reconfigure, Configure, vars, consoleVars, graphVars
<1> QED
  BY <1>1, <1>2, <1>5, <1>6, <1>7, <1>8, <1>9, <1>10, <1>11 DEF Next

LEMMA ConsoleInit == Init => ConsoleInv
<1> SUFFICES ASSUME Init PROVE ConsoleInv
  OBVIOUS
<1>1. GraphInv /\ TellInv
  BY InvInit, TellInit DEF Init
<1>2. /\ owner = [r \in Runs |-> NoRun] /\ phase = [r \in Runs |-> "none"]
      /\ pending = [s \in Sessions |-> NoRun] /\ buffer = {}
      /\ totals = [r \in Runs |-> {}] /\ tracked = [r \in Runs |-> "none"]
      /\ node = [r \in Runs |-> "fresh"] /\ awaiting = {}
  BY DEF Init, GraphInit
<1>3. TypeOK
  BY <1>1, <1>2 DEF TypeOK, Phases, GraphInv
<1>4. PlaceInv
  BY <1>2 DEF PlaceInv, RunPlace, PendingPlace, OneScript, Running, Nodes
<1>5. UsageInv /\ AnsweredInv /\ TotalsMixOnlyAcrossSessions /\ AwaitingInv
  BY <1>2 DEF UsageInv, AnsweredInv, TotalsMixOnlyAcrossSessions, AwaitingInv
<1> QED
  BY <1>1, <1>3, <1>4, <1>5 DEF ConsoleInv

LEMMA ConsoleStep == ConsoleInv /\ [Next]_vars => ConsoleInv'
<1> SUFFICES ASSUME ConsoleInv, [Next]_vars PROVE ConsoleInv'
  OBVIOUS
<1> USE DEF ConsoleInv
<1>1. GraphInv' /\ TellInv'
  BY GraphPart
<1>2. TypeOK'
  BY <1>1, ConsoleTypes DEF GraphInv
<1>3. PlaceInv' /\ UsageInv' /\ TotalsMixOnlyAcrossSessions' /\ AnsweredInv' /\ AwaitingInv'
  BY PlaceStep, UsageStep, AnsweredStep, AwaitingStep
<1> QED
  BY <1>1, <1>2, <1>3

(* Sessions, runs, the buffer and the tracked rows have their types, through *)
(* failures, dropped scripts and restarts (ui/state.py, ui/views/command.py). *)
THEOREM ConsoleTypeCorrect == Spec => []TypeOK
<1>1. ConsoleInv => TypeOK
  BY DEF ConsoleInv
<1> QED
  BY ConsoleInit, ConsoleStep, <1>1, PTL DEF Spec

(* For any number of sessions and runs: no button acts on a dead run, or on *)
(* another session's; no run this process waits for is without its button;  *)
(* and a checkpoint that awaits an approval has one too, unless the process *)
(* has let go of its run.  Restarts are the case where it does: with a      *)
(* checkpointer that outlives them such checkpoints stay, without a button. *)
THEOREM ButtonsMatch == Spec => []ButtonsMatchWaitingRuns
<1>1. ConsoleInv => ButtonsMatchWaitingRuns
  <2> SUFFICES ASSUME ConsoleInv PROVE ButtonsMatchWaitingRuns
    OBVIOUS
  <2>1. ASSUME NEW r \in awaiting, phase[r] = "idle"
        PROVE  pending[owner[r]] = r \/ node[r] = "lost"
    <3>1. r \in Runs /\ node[r] \in {"approval", "lost"}
      BY <2>1 DEF ConsoleInv, TypeOK, AwaitingInv
    <3> QED
      BY <2>1, <3>1 DEF ConsoleInv, PlaceInv, RunPlace, Nodes
  <2> QED
    BY <2>1 DEF ConsoleInv, PlaceInv, RunPlace, PendingPlace, ButtonsMatchWaitingRuns, TypeOK
<1> QED
  BY ConsoleInit, ConsoleStep, <1>1, PTL DEF Spec

(* For any number of sessions and runs: a resumed run that ends "completed" *)
(* has executed its operation, and no other one has.                        *)
THEOREM CompletedWasExecuted == Spec => []CompletedMeansExecuted
<1>1. ConsoleInv => CompletedMeansExecuted
  BY DEF ConsoleInv, AnsweredInv, CompletedMeansExecuted, Has
<1> QED
  BY ConsoleInit, ConsoleStep, <1>1, PTL DEF Spec

(* For any number of sessions and runs: what a run's totals count besides   *)
(* its own calls belongs to runs of other sessions.                         *)
THEOREM TotalsMixAcrossSessions == Spec => []TotalsMixOnlyAcrossSessions
<1>1. ConsoleInv => TotalsMixOnlyAcrossSessions
  BY DEF ConsoleInv
<1> QED
  BY ConsoleInit, ConsoleStep, <1>1, PTL DEF Spec

-----------------------------------------------------------------------------
(* The promises of the graph, kept by the console around it.               *)

(* The console's inductive invariant with what is known of records.         *)
ConsoleRecordInv == ConsoleInv /\ Recorded /\ RecordIsComplete

LEMMA ConsoleRecordInit == Init => ConsoleRecordInv
BY ConsoleInit, RecordInvHolds DEF Init, ConsoleRecordInv, RecordInv

LEMMA ConsoleRecordStep == ConsoleRecordInv /\ [Next]_vars => ConsoleRecordInv'
<1> SUFFICES ASSUME ConsoleRecordInv, [Next]_vars PROVE Recorded' /\ RecordIsComplete'
  BY ConsoleStep DEF ConsoleRecordInv
<1>1. CASE Restart
  <2>1. /\ \A q \in Runs : node'[q] = IF node[q] \in Nodes THEN "lost" ELSE node[q]
        /\ UNCHANGED <<record, called>>
    BY <1>1 DEF Restart
  <2>2. Recorded'
    BY <2>1 DEF Recorded, ConsoleRecordInv, Nodes
  <2>3. RecordIsComplete'
    BY <2>1 DEF RecordIsComplete, ConsoleRecordInv
  <2> QED
    BY <2>2, <2>3
<1>2. CASE ~ Restart
  <2>1. [GraphNext]_graphVars
    BY <1>2, ConsoleMovesGraph DEF ConsoleRecordInv, ConsoleInv
  <2> QED
    BY <2>1, RecordStep DEF ConsoleRecordInv, ConsoleInv, GraphInv
<1> QED
  BY <1>1, <1>2

LEMMA ConsoleMovesGate == ConsoleRecordInv /\ [Next]_vars => [Gate!Next]_(Gate!gateVars)
<1> SUFFICES ASSUME ConsoleRecordInv, [Next]_vars PROVE [Gate!Next]_(Gate!gateVars)
  OBVIOUS
<1>1. CASE Restart
  BY <1>1, RestartLosesRuns DEF ConsoleRecordInv, ConsoleInv, GraphInv
<1>2. CASE ~ Restart
  <2>1. [GraphNext]_graphVars
    BY <1>2, ConsoleMovesGraph DEF ConsoleRecordInv, ConsoleInv
  <2> QED
    BY <2>1, GateRefined DEF ConsoleRecordInv, ConsoleInv, GraphInv
<1> QED
  BY <1>1, <1>2

(* For any number of sessions and runs: whatever is pressed, dropped,       *)
(* raised or restarted, nothing is executed that was not approved first, in *)
(* its own run, and allowed by the settings that run started with.          *)
THEOREM ConsoleExecutesApproved == Spec => []ExecutedOnlyApproved
<1>1. ConsoleInv => ExecutedOnlyApproved
  BY DEF ConsoleInv, GraphInv
<1> QED
  BY ConsoleInit, ConsoleStep, <1>1, PTL DEF Spec

(* For any number of sessions and runs: a record written under the console  *)
(* is as complete as one of the graph alone, because a run that a restart   *)
(* or a dropped script has cut short writes none.                           *)
THEOREM ConsoleRecordsAreComplete == Spec => []RecordIsComplete
<1>1. ConsoleRecordInv => RecordIsComplete
  BY DEF ConsoleRecordInv
<1> QED
  BY ConsoleRecordInit, ConsoleRecordStep, <1>1, PTL DEF Spec

(* For any number of sessions and runs: the whole console implements the    *)
(* gate.  A restart is the loss of all runs at once, and no press, second   *)
(* press, thread switch or failure moves an operation past its approval.    *)
THEOREM ConsoleIsAGate == Spec => ImplementsGate
<1>1. Init => Gate!Init
  BY GateInit DEF Init
<1> QED
  BY ConsoleRecordInit, ConsoleRecordStep, ConsoleMovesGate, <1>1, PTL
     DEF Spec, ImplementsGate, Gate!Spec

-----------------------------------------------------------------------------
(* Runs come to an end.  PromptReturns is checked under fairness; what       *)
(* fairness gives it is one more step, again and again, and here is why so   *)
(* many steps are enough.                                                   *)

Planned == Places \ {"fresh", "interpret"}

(* The steps run r may still take, once it has a plan.                      *)
Left(r) ==
  CASE node[r] = "plan" -> Len(plan[r]) + 6
    [] node[r] = "artifactory_subgraph" -> (Len(plan[r]) + 1 - next[r]) + 5
    [] node[r] = "policy" -> 4
    [] node[r] = "approval" -> 3
    [] node[r] = "execute" -> 2
    [] node[r] = "audit" -> 1
    [] OTHER -> 0

(* The loop of artifactory_subgraph stands on an action or just past the    *)
(* last one, and has not begun before the plan is known.                    *)
LoopInv ==
  \A r \in Runs :
    /\ next[r] \in 1..(Len(plan[r]) + 1)
    /\ node[r] \in {"fresh", "interpret", "plan"} => next[r] = 1

Advances(r) == Proceed(r) \/ \E reply \in Replies : Reply(r, reply)

(* A run with a plan never goes back to where it had none, nothing gives it *)
(* more steps, and every step of its own leaves it one less at least.       *)
StaysOnward(r) ==
  /\ node[r] # "fresh" => node'[r] # "fresh"
  /\ node[r] = "interpret" => node'[r] \in {"interpret", "plan", "lost"}
  /\ node[r] \in Planned =>
       /\ node'[r] \in Planned
       /\ Left(r)' =< Left(r)
       /\ Advances(r) => Left(r)' < Left(r)

LEMMA PlanLength ==
  ASSUME GraphTypeOK, NEW r \in Runs
  PROVE  Len(plan[r]) \in Nat /\ next[r] \in Nat /\ node[r] \in Places
BY PlanType DEF GraphTypeOK

LEMMA LeftIsNatural ==
  ASSUME GraphTypeOK, LoopInv, NEW r \in Runs
  PROVE  Left(r) \in Nat
<1>1. Len(plan[r]) \in Nat /\ next[r] \in 1..(Len(plan[r]) + 1)
  BY PlanLength DEF LoopInv
<1> QED
  BY <1>1 DEF Left

(* What a step leaves alone.                                                *)
LEMMA SameRunSameLeft ==
  ASSUME NEW r \in Runs, node'[r] = node[r], plan'[r] = plan[r], next'[r] = next[r]
  PROVE  Left(r)' = Left(r)
BY DEF Left

(* A step of run r leaves the place of every other run alone.               *)
LEMMA OthersStay ==
  ASSUME GraphTypeOK, NEW r \in Runs, NEW q \in Runs, q # r,
         Start(r) \/ Advances(r) \/ Lose(r)
  PROVE  node'[q] = node[q] /\ plan'[q] = plan[q] /\ next'[q] = next[q]
BY DEF GraphTypeOK, Advances, Proceed, Start, Lose, Reply, Interpret, PlanNode, Skip, ReadAction,
       SubgraphDone, Policy, Execute, Audit, Goto

(* What each step of run r does to its place.                               *)
LEMMA PlaceMoves ==
  ASSUME GraphTypeOK, NEW r \in Runs, Start(r) \/ Advances(r) \/ Lose(r)
  PROVE  \/ Start(r) /\ node[r] = "fresh" /\ node'[r] = "interpret" /\ plan' = plan /\ next' = next
         \/ node[r] = "interpret" /\ node'[r] = "plan" /\ next' = next
         \/ node[r] = "plan" /\ node'[r] = "artifactory_subgraph" /\ plan' = plan /\ next' = next
         \/ /\ AtAction(r) /\ node' = node /\ plan' = plan /\ next'[r] = next[r] + 1
         \/ /\ node[r] = "artifactory_subgraph" /\ next[r] > Len(plan[r])
            /\ node'[r] = "policy" /\ plan' = plan /\ next' = next
         \/ node[r] = "policy" /\ node'[r] \in {"approval", "audit"} /\ plan' = plan /\ next' = next
         \/ node[r] = "approval" /\ node'[r] \in {"execute", "audit"} /\ plan' = plan /\ next' = next
         \/ node[r] = "execute" /\ node'[r] = "audit" /\ plan' = plan /\ next' = next
         \/ node[r] = "audit" /\ node'[r] = "end" /\ plan' = plan /\ next' = next
         \/ Lose(r) /\ node[r] \in Nodes /\ node'[r] = "lost" /\ plan' = plan /\ next' = next
<1> USE DEF GraphTypeOK, Goto
<1>1. CASE Start(r) \/ Lose(r)
  BY <1>1 DEF Start, Lose
<1>2. CASE Interpret(r) \/ PlanNode(r)
  BY <1>2 DEF Interpret, PlanNode
<1>3. CASE Skip(r) \/ ReadAction(r)
  BY <1>3 DEF Skip, ReadAction
<1>4. CASE SubgraphDone(r) \/ Policy(r)
  BY <1>4 DEF SubgraphDone, Policy
<1>5. CASE Execute(r) \/ Audit(r)
  BY <1>5 DEF Execute, Audit
<1>6. CASE \E reply \in Replies : Reply(r, reply)
  BY <1>6 DEF Reply, RouteAfterApproval
<1> QED
  BY <1>1, <1>2, <1>3, <1>4, <1>5, <1>6 DEF Advances, Proceed

(* The step of a run keeps its loop in place and brings it onward.          *)
LEMMA OwnStepOnward ==
  ASSUME GraphTypeOK, GraphTypeOK', LoopInv, NEW r \in Runs, Start(r) \/ Advances(r) \/ Lose(r)
  PROVE  /\ next'[r] \in 1..(Len(plan'[r]) + 1)
         /\ node'[r] \in {"fresh", "interpret", "plan"} => next'[r] = 1
         /\ StaysOnward(r)
<1> DEFINE n == Len(plan[r])
<1>1. /\ n \in Nat /\ next[r] \in 1..(n + 1)
      /\ node[r] \in {"fresh", "interpret", "plan"} => next[r] = 1
  BY PlanLength DEF LoopInv
<1>2. Len(plan'[r]) \in Nat
  <2>1. plan'[r] \in Seq(Action)
    BY GraphAssumption, EmptySeq DEF GraphTypeOK
  <2> QED
    BY <2>1
<1>3. CASE node[r] \in {"fresh", "interpret"}
  <2>1. /\ node'[r] \in {"interpret", "plan", "lost"} /\ next' = next
        /\ node[r] = "fresh" => node'[r] = "interpret"
    BY <1>3, PlaceMoves DEF AtAction, Nodes
  <2> QED
    BY <1>1, <1>2, <1>3, <2>1 DEF StaysOnward, Planned
<1>4. CASE AtAction(r) /\ node' = node /\ plan' = plan /\ next'[r] = next[r] + 1
  <2>1. Left(r) = (n + 1 - next[r]) + 5 /\ Left(r)' = (n + 1 - (next[r] + 1)) + 5
    BY <1>4 DEF Left, AtAction
  <2> QED
    BY <1>1, <1>4, <2>1 DEF StaysOnward, AtAction, Planned, Places, Nodes
<1>5. CASE /\ node[r] \notin {"fresh", "interpret"} /\ plan' = plan /\ next' = next
           /\ \/ node[r] = "plan" /\ node'[r] = "artifactory_subgraph"
              \/ /\ node[r] = "artifactory_subgraph" /\ next[r] > Len(plan[r])
                 /\ node'[r] = "policy"
              \/ node[r] = "policy" /\ node'[r] \in {"approval", "audit"}
              \/ node[r] = "approval" /\ node'[r] \in {"execute", "audit"}
              \/ node[r] = "execute" /\ node'[r] = "audit"
              \/ node[r] = "audit" /\ node'[r] = "end"
              \/ node[r] \in Nodes /\ node'[r] = "lost"
  <2>1. Left(r) \in Nat /\ Left(r)' < Left(r)
    BY <1>1, <1>5 DEF Left, Nodes
  <2>2. Left(r)' \in Nat
    BY <1>1, <1>5 DEF Left
  <2> QED
    BY <1>1, <1>5, <2>1, <2>2 DEF StaysOnward, Planned, Places, Nodes
<1> QED
  BY <1>3, <1>4, <1>5, PlaceMoves

LEMMA GraphOnward ==
  ASSUME GraphTypeOK, GraphTypeOK', LoopInv, [GraphNext]_graphVars
  PROVE  LoopInv' /\ \A r \in Runs : StaysOnward(r)
<1>1. ASSUME NEW r \in Runs, node'[r] = node[r], plan'[r] = plan[r], next'[r] = next[r], ~ Advances(r)
      PROVE  /\ next'[r] \in 1..(Len(plan'[r]) + 1)
             /\ node'[r] \in {"fresh", "interpret", "plan"} => next'[r] = 1
             /\ StaysOnward(r)
  <2>1. Left(r)' = Left(r) /\ Left(r) \in Nat
    BY <1>1, SameRunSameLeft, LeftIsNatural
  <2> QED
    BY <1>1, <2>1 DEF LoopInv, StaysOnward
<1>2. ASSUME NEW r \in Runs
      PROVE  /\ next'[r] \in 1..(Len(plan'[r]) + 1)
             /\ node'[r] \in {"fresh", "interpret", "plan"} => next'[r] = 1
             /\ StaysOnward(r)
  <2>1. CASE Start(r) \/ Advances(r) \/ Lose(r)
    BY <2>1, OwnStepOnward
  <2>2. CASE ~ (Start(r) \/ Advances(r) \/ Lose(r))
    <3>1. CASE UNCHANGED graphVars \/ \E e \in Envs : Configure(e)
      BY <1>1, <2>2, <3>1 DEF graphVars, Configure
    <3>2. ASSUME NEW q \in Runs, Start(q) \/ Advances(q) \/ Lose(q)
          PROVE  node'[r] = node[r] /\ plan'[r] = plan[r] /\ next'[r] = next[r]
      BY <2>2, <3>2, OthersStay
    <3> QED
      BY <1>1, <2>2, <3>1, <3>2 DEF GraphNext, Advances
  <2> QED
    BY <2>1, <2>2
<1> QED
  BY <1>2 DEF LoopInv

(* The console's invariant with the place of each run's loop.               *)
ConsoleLoopInv == ConsoleInv /\ LoopInv

LEMMA ConsoleLoopInit == Init => ConsoleLoopInv
<1>1. Init => LoopInv
  BY DEF Init, GraphInit, LoopInv
<1> QED
  BY <1>1, ConsoleInit DEF ConsoleLoopInv

(* Restarts included: they bring every run that has not ended to its end.   *)
LEMMA ConsoleOnward ==
  ConsoleLoopInv /\ [Next]_vars => ConsoleLoopInv' /\ \A r \in Runs : StaysOnward(r)
<1> SUFFICES ASSUME ConsoleLoopInv, [Next]_vars
             PROVE  ConsoleLoopInv' /\ \A r \in Runs : StaysOnward(r)
  OBVIOUS
<1>1. ConsoleInv' /\ GraphTypeOK /\ GraphTypeOK' /\ TypeOK /\ PlaceInv /\ LoopInv
  BY ConsoleStep DEF ConsoleLoopInv, ConsoleInv, GraphInv
<1>2. CASE Restart
  <2>1. /\ \A r \in Runs : node'[r] = IF node[r] \in Nodes THEN "lost" ELSE node[r]
        /\ plan' = plan /\ next' = next
    BY <1>1, <1>2 DEF Restart
  <2>2. LoopInv'
    BY <1>1, <2>1 DEF LoopInv, Nodes
  <2>3. ASSUME NEW r \in Runs PROVE StaysOnward(r)
    <3>1. Left(r) \in Nat /\ node[r] \in Places
      BY <1>1, LeftIsNatural DEF GraphTypeOK
    <3>2. CASE node[r] \in Nodes
      <4>1. Left(r)' = 0 /\ (node[r] \in Planned => Left(r) > 0)
        <5>1. Len(plan[r]) \in Nat /\ next[r] \in 1..(Len(plan[r]) + 1)
          BY <1>1, PlanLength DEF LoopInv
        <5> QED
          BY <2>1, <3>2, <5>1 DEF Left, Planned, Nodes
      <4> QED
        BY <2>1, <3>1, <3>2, <4>1 DEF StaysOnward, Planned, Places, Nodes
    <3>3. CASE node[r] \notin Nodes
      <4>1. Left(r)' = Left(r)
        BY <2>1, <3>3, SameRunSameLeft
      <4>2. ~ Advances(r)
        BY <3>3 DEF Advances, Proceed, Reply, Interpret, PlanNode, Skip, ReadAction, AtAction,
           SubgraphDone, Policy, Execute, Audit, Nodes
      <4> QED
        BY <2>1, <3>1, <3>3, <4>1, <4>2 DEF StaysOnward, Planned, Nodes
    <3> QED
      BY <3>2, <3>3
  <2> QED
    BY <1>1, <2>2, <2>3 DEF ConsoleLoopInv
<1>3. CASE ~ Restart
  <2>1. [GraphNext]_graphVars
    BY <1>1, <1>3, ConsoleMovesGraph
  <2> QED
    BY <1>1, <2>1, GraphOnward DEF ConsoleLoopInv
<1> QED
  BY <1>2, <1>3

(* What PromptReturns needs besides fairness, for plans of every length, any *)
(* number of sessions and runs, and through drops, failures and restarts: a *)
(* run with a plan has finitely many steps left, each of its nodes, replies *)
(* and loop rounds uses one up, and nothing anybody does gives one back.    *)
RunsEnd ==
  /\ [](\A r \in Runs : Left(r) \in Nat)
  /\ [][\A r \in Runs : StaysOnward(r)]_vars

THEOREM RunsGoOnward == Spec => RunsEnd
<1>1. ConsoleLoopInv => \A r \in Runs : Left(r) \in Nat
  BY LeftIsNatural DEF ConsoleLoopInv, ConsoleInv, GraphInv
<1> QED
  BY ConsoleLoopInit, ConsoleOnward, <1>1, PTL DEF Spec, RunsEnd

=============================================================================
