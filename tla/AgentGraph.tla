----------------------------- MODULE AgentGraph -----------------------------
(***************************************************************************)
(* Runs of the agent's LangGraph (jfrog_agent/graph.py) and their audit    *)
(* trails (jfrog_agent/audit_log.py).                                      *)
(*                                                                         *)
(* A run is a walk through the graph's nodes, interrupted at "approval"    *)
(* until somebody replies.  One action models one node; two nodes are one  *)
(* action when the first changes nothing but the trail (interpret with     *)
(* classify, evidence with policy), and artifactory_subgraph takes one     *)
(* step per planned action, because it makes one upstream call for each.   *)
(***************************************************************************)
EXTENDS AgentPolicy

CONSTANTS
  Runs,       \* run ids, never reused
  Plans,      \* the plans the planner may come up with
  Envs,       \* settings the process may be given
  NoRecord    \* no file in the audit directory

ASSUME GraphAssumption ==
  /\ Plans \subseteq Seq(Action)
  /\ Envs \subseteq Settings
  /\ Envs # {}

Nodes == {"interpret", "plan", "artifactory_subgraph", "policy",
          "approval", "execute", "audit"}
Places == Nodes \cup {"fresh", "end", "lost"}

(* What the interrupt can be resumed with: run.py passes on what was typed, *)
(* the console one of two buttons.                                          *)
Replies == {"approve", "reject", "edit", "empty", "not_a_string"}
Decisions == {"approve", "reject", "edit"}

Outcomes == {"completed", "denied", "rejected"}

(* An audit event: its kind, the planned action it is about (0 if none),    *)
(* and what it says of it.                                                  *)
Kinds == {"interpret", "classify", "plan", "tool_call", "evidence",
          "policy", "approval", "execute"}
Event == [kind : Kinds, op : Nat, says : Decisions \cup {"ok", "error", "blocked", "none"}]

VARIABLES
  env,        \* the settings a run started now would get
  node,       \* run -> the node it is at
  cfg,        \* run -> the settings its graph was built with
  plan,       \* run -> its plan
  blocked,    \* run -> the input guard stopped the request
  next,       \* run -> the planned action artifactory_subgraph is at
  findings,   \* run -> findings, by planned action and whether an error
  decision,   \* run -> approval_decision
  trail,      \* run -> AuditTrail.events, in the memory of the process
  record,     \* run -> its file in the audit directory
  called      \* run -> planned actions that reached the upstream (history)

graphVars == <<env, node, cfg, plan, blocked, next, findings, decision,
               trail, record, called>>

Finding == [op : Nat, isError : BOOLEAN]
Record == [outcome : Outcomes, events : Seq(Event)]

ASSUME RecordAssumption == NoRecord \notin Record

GraphTypeOK ==
  /\ env \in Envs
  /\ node \in [Runs -> Places]
  /\ cfg \in [Runs -> Envs]
  /\ plan \in [Runs -> Plans \cup {<<>>}]
  /\ blocked \in [Runs -> BOOLEAN]
  /\ next \in [Runs -> Nat]
  /\ findings \in [Runs -> Seq(Finding)]
  /\ decision \in [Runs -> Decisions \cup {"none"}]
  /\ trail \in [Runs -> Seq(Event)]
  /\ record \in [Runs -> Record \cup {NoRecord}]
  /\ called \in [Runs -> SUBSET Nat]

GraphInit ==
  /\ env \in Envs
  /\ node = [r \in Runs |-> "fresh"]
  /\ cfg = [r \in Runs |-> env]
  /\ plan = [r \in Runs |-> <<>>]
  /\ blocked = [r \in Runs |-> FALSE]
  /\ next = [r \in Runs |-> 1]
  /\ findings = [r \in Runs |-> <<>>]
  /\ decision = [r \in Runs |-> "none"]
  /\ trail = [r \in Runs |-> <<>>]
  /\ record = [r \in Runs |-> NoRecord]
  /\ called = [r \in Runs |-> {}]

-----------------------------------------------------------------------------

Ev(kind, op, says) == [kind |-> kind, op |-> op, says |-> says]

(* audit.record, once or twice *)
Note(r, events) == trail' = [trail EXCEPT ![r] = @ \o events]

Goto(r, n) == node' = [node EXCEPT ![r] = n]

(* build_graph: the run keeps the settings it is built with. *)
Start(r) ==
  /\ node[r] = "fresh"
  /\ Goto(r, "interpret")
  /\ cfg' = [cfg EXCEPT ![r] = env]
  /\ UNCHANGED <<env, plan, blocked, next, findings, decision, trail, record, called>>

(* interpret and classify: the planner's plan, or the empty one when the    *)
(* input guard blocks the request.                                          *)
Interpret(r) ==
  /\ node[r] = "interpret"
  /\ \/ \E p \in Plans :
          /\ plan' = [plan EXCEPT ![r] = p]
          /\ Note(r, <<Ev("interpret", 0, "none"), Ev("classify", 0, "none")>>)
          /\ UNCHANGED blocked
     \/ /\ blocked' = [blocked EXCEPT ![r] = TRUE]
        /\ Note(r, <<Ev("interpret", 0, "blocked"), Ev("classify", 0, "none")>>)
        /\ UNCHANGED plan
  /\ Goto(r, "plan")
  /\ UNCHANGED <<env, cfg, next, findings, decision, record, called>>

(* plan_node: the notes and the payload are functions of the plan and the   *)
(* settings (AgentPolicy); a blocked request is not even noted.             *)
PlanNode(r) ==
  /\ node[r] = "plan"
  /\ IF blocked[r] THEN UNCHANGED trail
     ELSE Note(r, <<Ev("plan", Payload(cfg[r], plan[r]), "none")>>)
  /\ Goto(r, "artifactory_subgraph")
  /\ UNCHANGED <<env, cfg, plan, blocked, next, findings, decision, record, called>>

AtAction(r) == node[r] = "artifactory_subgraph" /\ next[r] <= Len(plan[r])

\* mutant: the loop goes on without moving to the next action
SkipInPlace(r) ==
  /\ AtAction(r)
  /\ ~ RunsAsRead(cfg[r], plan[r], next[r])
  /\ UNCHANGED graphVars

Skip(r) ==
  /\ AtAction(r)
  /\ ~ RunsAsRead(cfg[r], plan[r], next[r])
  /\ next' = [next EXCEPT ![r] = @ + 1]
  /\ UNCHANGED <<env, node, cfg, plan, blocked, findings, decision, trail, record, called>>

\* mutant: a call is only noted when it succeeds
ReadActionNotesSuccess(r) ==
  LET i == next[r] IN
  /\ AtAction(r)
  /\ RunsAsRead(cfg[r], plan[r], i)
  /\ \E ok, reached \in BOOLEAN :
       /\ ok => reached
       /\ reached => ReachesUpstream(cfg[r], plan[r][i])
       /\ called' = [called EXCEPT ![r] = IF reached THEN @ \cup {i} ELSE @]
       /\ findings' = [findings EXCEPT ![r] = Append(@, [op |-> i, isError |-> ~ ok])]
       /\ IF ok THEN Note(r, <<Ev("tool_call", i, "ok")>>) ELSE UNCHANGED trail
  /\ next' = [next EXCEPT ![r] = i + 1]
  /\ UNCHANGED <<env, node, cfg, plan, blocked, decision, record>>

(* _run_read_action and its except clauses: a call that fails, here or      *)
(* upstream, is a finding like any other.                                   *)
ReadAction(r) ==
  LET i == next[r] IN
  /\ AtAction(r)
  /\ RunsAsRead(cfg[r], plan[r], i)
  /\ \E ok, reached \in BOOLEAN :
       /\ ok => reached
       /\ reached => ReachesUpstream(cfg[r], plan[r][i])
       /\ called' = [called EXCEPT ![r] = IF reached THEN @ \cup {i} ELSE @]
       /\ findings' = [findings EXCEPT ![r] = Append(@, [op |-> i, isError |-> ~ ok])]
       /\ Note(r, <<Ev("tool_call", i, IF ok THEN "ok" ELSE "error")>>)
  /\ next' = [next EXCEPT ![r] = i + 1]
  /\ UNCHANGED <<env, node, cfg, plan, blocked, decision, record>>

SubgraphDone(r) ==
  /\ node[r] = "artifactory_subgraph"
  /\ next[r] > Len(plan[r])
  /\ Goto(r, "policy")
  /\ UNCHANGED <<env, cfg, plan, blocked, next, findings, decision, trail, record, called>>

(* approval_required; a blocked run has the empty plan, which asks nothing. *)
ApprovalRequired(r) == Payload(cfg[r], plan[r]) # 0

(* evidence, policy and route_after_policy.  At "approval" the node runs up *)
(* to interrupt() and the run waits.                                        *)
Policy(r) ==
  /\ node[r] = "policy"
  /\ Note(r, <<Ev("evidence", 0, "none"), Ev("policy", 0, "none")>>)
  /\ Goto(r, IF ApprovalRequired(r) THEN "approval" ELSE "audit")
  /\ UNCHANGED <<env, cfg, plan, blocked, next, findings, decision, record, called>>

(* The decision a reply stands for: case is folded, and nothing or no       *)
(* string at all is a rejection.                                            *)
DecisionOf(reply) ==
  IF reply \in {"empty", "not_a_string"} THEN "reject" ELSE reply

\* mutant: everything but a rejection goes on to execute
RouteUnlessRejected(d) == IF d = "reject" THEN "audit" ELSE "execute"

RouteAfterApproval(d) == IF d = "approve" THEN "execute" ELSE "audit"

(* Command(resume=reply): the approval node runs again from its start, this *)
(* time past interrupt().                                                   *)
Reply(r, reply) ==
  LET d == DecisionOf(reply) IN
  /\ node[r] = "approval"
  /\ decision' = [decision EXCEPT ![r] = d]
  /\ Note(r, <<Ev("approval", Payload(cfg[r], plan[r]), d)>>)
  /\ Goto(r, RouteAfterApproval(d))
  /\ UNCHANGED <<env, cfg, plan, blocked, next, findings, record, called>>

(* execute: the approved operation, in this build an error finding.         *)
Execute(r) ==
  LET i == Payload(cfg[r], plan[r]) IN
  /\ node[r] = "execute"
  /\ Note(r, <<Ev("execute", i, "error")>>)
  /\ findings' = [findings EXCEPT ![r] = Append(@, [op |-> i, isError |-> TRUE])]
  /\ Goto(r, "audit")
  /\ UNCHANGED <<env, cfg, plan, blocked, next, decision, record, called>>

\* mutant: an edited request ends in the outcome "error" of AgentState's comment
OutcomeError(r) ==
  IF blocked[r] THEN "denied"
  ELSE IF decision[r] = "reject" THEN "rejected"
  ELSE IF decision[r] = "edit" THEN "error"
  ELSE "completed"

\* mutant: the decision is not looked at
OutcomeOfFindings(r) ==
  IF blocked[r] THEN "denied"
  ELSE IF findings[r] = <<>> /\ HasDenial(cfg[r], plan[r]) THEN "denied"
  ELSE "completed"

Outcome(r) ==
  IF blocked[r] THEN "denied"
  ELSE IF decision[r] = "reject" THEN "rejected"
  ELSE IF findings[r] = <<>> /\ HasDenial(cfg[r], plan[r]) THEN "denied"
  ELSE "completed"

(* audit_node and AuditTrail.finalize: the outcome and one file per run.    *)
Audit(r) ==
  /\ node[r] = "audit"
  /\ record' = [record EXCEPT ![r] = [outcome |-> Outcome(r), events |-> trail[r]]]
  /\ Goto(r, "end")
  /\ UNCHANGED <<env, cfg, plan, blocked, next, findings, decision, trail, called>>

(* Nobody holds the graph or the trail of the run any more.                 *)
Lose(r) ==
  /\ node[r] \in Nodes
  /\ Goto(r, "lost")
  /\ trail' = [trail EXCEPT ![r] = <<>>]
  /\ UNCHANGED <<env, cfg, plan, blocked, next, findings, decision, record, called>>

(* .env is edited, or the process is restarted with other settings.         *)
Configure(s) ==
  /\ s \in Envs \ {env}
  /\ env' = s
  /\ UNCHANGED <<node, cfg, plan, blocked, next, findings, decision, trail, record, called>>

(* The nodes graph.invoke runs through without waiting for anybody.         *)
Proceed(r) ==
  \/ Interpret(r) \/ PlanNode(r) \/ Skip(r) \/ ReadAction(r) \/ SubgraphDone(r)
  \/ Policy(r) \/ Execute(r) \/ Audit(r)

GraphNext ==
  \/ \E r \in Runs :
       \/ Start(r) \/ Proceed(r) \/ Lose(r)
       \/ \E reply \in Replies : Reply(r, reply)
  \/ \E s \in Envs : Configure(s)

GraphSpec == GraphInit /\ [][GraphNext]_graphVars

-----------------------------------------------------------------------------
(* Properties.                                                             *)

(* Operation i of the run was approved before event k of its trail, it asks *)
(* for an approval, and it is within the settings the run started with.     *)
Vouched(r, i, k) ==
  /\ \E h \in 1..k : trail[r][h] = Ev("approval", i, "approve")
  /\ i \in DOMAIN plan[r]
  /\ ~ cfg[r].readOnly
  /\ InScope(cfg[r], plan[r][i].repos)
  /\ Risk[plan[r][i].tool] \in {"sensitive_write", "destructive"}

(* Whatever is executed was approved first, in the same run and for the     *)
(* very operation, and that operation was within the settings the run       *)
(* started with, however they have changed since: not read-only, every      *)
(* repository allowed, and of a risk class that asks (graph.py execute,     *)
(* README "Safety model").                                                  *)
ExecutedOnlyApproved ==
  \A r \in Runs : \A k \in DOMAIN trail[r] :
    trail[r][k].kind = "execute" => Vouched(r, trail[r][k].op, k)

(* A record tells what happened: every upstream call of its run is among    *)
(* its events, "rejected" and "denied" never cover an executed operation,   *)
(* a denied run has called nothing, and the user was asked once at most.    *)
RecordIsComplete ==
  \A r \in Runs : record[r] # NoRecord =>
    LET events == record[r].events
        about(kind) == {k \in DOMAIN events : events[k].kind = kind} IN
    /\ \A i \in called[r] : \E k \in about("tool_call") : events[k].op = i
    /\ about("execute") # {} => record[r].outcome = "completed"
    /\ record[r].outcome = "denied" => called[r] = {}
    /\ \A h, k \in about("approval") : h = k

(* The comment in artifactory_subgraph: "Only READ actions that were        *)
(* authorized run automatically here."                                      *)
DeniedReadNeverRuns ==
  \A r \in Runs : \A i \in called[r] : Allowed(cfg[r], plan[r][i])

-----------------------------------------------------------------------------
(* What holds at each node on the way to "execute" (AgentConsoleProofs).     *)

GateInv ==
  \A r \in Runs :
    /\ node[r] \in {"fresh", "interpret", "lost"} => trail[r] = <<>>
    /\ node[r] \in {"approval", "execute"} => ApprovalRequired(r)
    /\ node[r] = "execute" =>
         \E h \in DOMAIN trail[r] :
           trail[r][h] = Ev("approval", Payload(cfg[r], plan[r]), "approve")

-----------------------------------------------------------------------------
(* The graph as a gate (ApprovalGate).                                     *)

Stage(r) ==
  CASE node[r] = "approval" -> "asked"
    [] node[r] = "execute"  -> "granted"
    [] node[r] = "audit"    ->
         IF decision[r] = "none" THEN "open"
         ELSE IF \E k \in DOMAIN trail[r] : trail[r][k].kind = "execute"
         THEN "executed" ELSE "refused"
    [] node[r] = "end"      -> "closed"
    [] node[r] = "lost"     -> "lost"
    [] OTHER                -> "open"

Gate == INSTANCE ApprovalGate WITH
  stage   <- [r \in Runs |-> Stage(r)],
  verdict <- decision,
  told    <- [r \in Runs |->
                IF record[r] = NoRecord THEN "nothing" ELSE record[r].outcome]

(* The graph, whatever its plan and the failures on its way, implements the *)
(* gate: no step of it executes, refuses or records anything the gate does  *)
(* not allow at that point.                                                 *)
ImplementsGate == Gate!Spec

=============================================================================
