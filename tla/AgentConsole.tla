---------------------------- MODULE AgentConsole ----------------------------
(***************************************************************************)
(* The agent's web console: browser sessions that share one process        *)
(* (ui/state.py, ui/views/command.py, ui/views/governance.py), each with   *)
(* at most one pending approval, over the runs of AgentGraph, the          *)
(* module-level usage buffer of telemetry.py and the tracking backend      *)
(* (tracking/run_recorder.py).                                             *)
(*                                                                         *)
(* A session executes one script at a time; sessions interleave at every   *)
(* node of a graph, because each node may call the planner, the gateway,   *)
(* or the checkpointer.                                                    *)
(***************************************************************************)
EXTENDS AgentGraph, FiniteSets

CONSTANTS
  Sessions,   \* browser sessions
  NoRun,      \* no pending approval
  Failures    \* TRUE if nodes may raise, scripts be dropped, the process restart

ASSUME ConsoleAssumption == Failures \in BOOLEAN /\ NoRun \notin Runs

VARIABLES
  owner,      \* run -> the session it was started from, NoRun before that
  phase,      \* run -> what the owner's script is doing with it
  pending,    \* session -> st.session_state.pending, by run
  buffer,     \* telemetry._RUN_CALLS: runs whose LLM calls are in it
  totals,     \* run -> runs whose calls its usage totals were taken over
  tracked,    \* run -> status of its row in the tracking backend
  awaiting    \* runs whose newest checkpoint is that of the interrupted approval

consoleVars == <<owner, phase, pending, buffer, totals, tracked, awaiting>>
vars == <<graphVars, consoleVars>>

Phases == {"none", "invoke", "resume", "idle"}

TypeOK ==
  /\ GraphTypeOK
  /\ owner \in [Runs -> Sessions \cup {NoRun}]
  /\ phase \in [Runs -> Phases]
  /\ pending \in [Sessions -> Runs \cup {NoRun}]
  /\ buffer \subseteq Runs
  /\ totals \in [Runs -> SUBSET Runs]
  /\ tracked \in [Runs -> {"none", "complete", "error"}]
  /\ awaiting \subseteq Runs

Init ==
  /\ GraphInit
  /\ owner = [r \in Runs |-> NoRun]
  /\ phase = [r \in Runs |-> "none"]
  /\ pending = [s \in Sessions |-> NoRun]
  /\ buffer = {}
  /\ totals = [r \in Runs |-> {}]
  /\ tracked = [r \in Runs |-> "none"]
  /\ awaiting = {}

-----------------------------------------------------------------------------

Running(r) == phase[r] \in {"invoke", "resume"}

Busy(s) == \E r \in Runs : owner[r] = s /\ Running(r)

\* mutant: reset_run_stats is not called
PromptKeepsBuffer(s, r) ==
  /\ ~ Busy(s)
  /\ Start(r)
  /\ owner' = [owner EXCEPT ![r] = s]
  /\ phase' = [phase EXCEPT ![r] = "invoke"]
  /\ UNCHANGED <<pending, buffer, totals, tracked, awaiting>>

(* A prompt: run_agent clears the usage buffer, builds the graph with the   *)
(* settings of this moment and invokes it.                                  *)
Prompt(s, r) ==
  /\ ~ Busy(s)
  /\ Start(r)
  /\ owner' = [owner EXCEPT ![r] = s]
  /\ phase' = [phase EXCEPT ![r] = "invoke"]
  /\ buffer' = {}
  /\ UNCHANGED <<pending, totals, tracked, awaiting>>

(* An LLM answers, or there is none and the fallback is used.               *)
MayCallLlm(r) == buffer' \in {buffer, buffer \cup {r}}

(* graph.invoke goes on to the next node, and the checkpointer keeps where  *)
(* it was interrupted.  summarize is only called for an outcome that has    *)
(* findings to tell.                                                       *)
Step(r) ==
  /\ Running(r)
  /\ \/ Interpret(r) /\ MayCallLlm(r)
     \/ Audit(r) /\ IF Outcome(r) = "completed" THEN MayCallLlm(r) ELSE UNCHANGED buffer
     \/ /\ \/ PlanNode(r) \/ Skip(r) \/ ReadAction(r) \/ SubgraphDone(r)
           \/ Policy(r) \/ Execute(r)
        /\ UNCHANGED buffer
  /\ awaiting' = IF node'[r] = "approval" THEN awaiting \cup {r} ELSE awaiting
  /\ UNCHANGED <<owner, phase, pending, totals, tracked>>

\* mutant: the outcome is tracked as it is
TrackedOutcome(r) == IF node[r] = "end" THEN record[r].outcome ELSE "error"

(* What record_jfrog_run makes of the result of graph.invoke.               *)
TrackedStatus(r) ==
  IF node[r] = "end" /\ record[r].outcome = "completed" THEN "complete" ELSE "error"

(* run_agent after graph.invoke: the run, finished or interrupted, is        *)
(* tracked (a backend that fails is ignored) and the totals are taken.      *)
RunAgentReturns(r) ==
  /\ phase[r] = "invoke"
  /\ node[r] \in {"approval", "end"}
  /\ phase' = [phase EXCEPT ![r] = "idle"]
  /\ tracked' \in {tracked, [tracked EXCEPT ![r] = TrackedStatus(r)]}
  /\ totals' = [totals EXCEPT ![r] = buffer]
  /\ UNCHANGED <<owner, buffer, awaiting>>

(* The view goes on: an interrupted run becomes the session's pending one,  *)
(* in place of any other.                                                   *)
Return(r) ==
  LET s == owner[r] IN
  /\ RunAgentReturns(r)
  /\ IF node[r] = "approval"
     THEN /\ pending' = [pending EXCEPT ![s] = r]
          /\ IF pending[s] = NoRun THEN UNCHANGED graphVars ELSE Lose(pending[s])
     ELSE UNCHANGED <<pending, graphVars>>

(* The user has pressed something meanwhile: the script is dropped at its   *)
(* next output, before the view has stored the interrupted run.             *)
Drop(r) ==
  /\ Failures
  /\ RunAgentReturns(r)
  /\ IF node[r] = "approval" THEN Lose(r) ELSE UNCHANGED graphVars
  /\ UNCHANGED pending

(* A node of the first invocation raises: "Run failed" and nobody keeps it. *)
Raise(r) ==
  /\ Failures
  /\ phase[r] = "invoke"
  /\ node[r] # "approval"
  /\ Lose(r)
  /\ phase' = [phase EXCEPT ![r] = "idle"]
  /\ UNCHANGED <<owner, pending, buffer, totals, tracked, awaiting>>

(* Approve or Reject is pressed in either view.                             *)
Press(s, button) ==
  LET r == pending[s] IN
  /\ ~ Busy(s)
  /\ r # NoRun
  /\ IF node[r] = "approval" THEN Reply(r, button) ELSE UNCHANGED graphVars
  /\ phase' = [phase EXCEPT ![r] = "resume"]
  /\ awaiting' = awaiting \ {r}
  /\ UNCHANGED <<owner, pending, buffer, totals, tracked>>

(* The audit file cannot be written while resuming: the script ends before  *)
(* it clears pending, and a later press takes the graph up again at the     *)
(* checkpoint, past the approval.                                           *)
RaiseInResume(r) ==
  /\ Failures
  /\ phase[r] = "resume"
  /\ node[r] = "audit"
  /\ phase' = [phase EXCEPT ![r] = "idle"]
  /\ UNCHANGED <<graphVars, owner, pending, buffer, totals, tracked, awaiting>>

\* mutant: the view keeps its pending approval
PostResumeKeepsPending(r) ==
  /\ phase[r] = "resume"
  /\ node[r] = "end"
  /\ phase' = [phase EXCEPT ![r] = "idle"]
  /\ UNCHANGED <<graphVars, owner, pending, buffer, totals, tracked, awaiting>>

(* resume_agent returns: the view clears pending.                           *)
PostResume(r) ==
  /\ phase[r] = "resume"
  /\ node[r] = "end"
  /\ phase' = [phase EXCEPT ![r] = "idle"]
  /\ pending' = [pending EXCEPT ![owner[r]] = NoRun]
  /\ UNCHANGED <<graphVars, owner, buffer, totals, tracked, awaiting>>

(* new_thread or load_thread: the pending approval is dropped.              *)
SwitchThread(s) ==
  /\ ~ Busy(s)
  /\ pending[s] # NoRun
  /\ Lose(pending[s])
  /\ pending' = [pending EXCEPT ![s] = NoRun]
  /\ UNCHANGED <<owner, phase, buffer, totals, tracked, awaiting>>

(* The process restarts, and with it go the sessions, their pending graphs  *)
(* and the trails.  A checkpoint of the memory backend survives, that of a  *)
(* MemorySaver does not; in either case no code looks for it again.         *)
Restart ==
  /\ Failures
  /\ node' = [r \in Runs |-> IF node[r] \in Nodes THEN "lost" ELSE node[r]]
  /\ trail' = [r \in Runs |-> <<>>]
  /\ phase' = [r \in Runs |-> IF phase[r] = "none" THEN "none" ELSE "idle"]
  /\ pending' = [s \in Sessions |-> NoRun]
  /\ buffer' = {}
  /\ awaiting' \in SUBSET awaiting
  /\ UNCHANGED <<env, cfg, plan, blocked, next, findings, decision, record,
                 called, owner, totals, tracked>>

Reconfigure == \E e \in Envs : Configure(e) /\ UNCHANGED consoleVars

Next ==
  \/ \E s \in Sessions :
       \/ \E r \in Runs : Prompt(s, r)
       \/ \E button \in {"approve", "reject"} : Press(s, button)
       \/ SwitchThread(s)
  \/ \E r \in Runs : Step(r) \/ PostResume(r) \/ RaiseInResume(r)
  \/ \E r \in Runs : Return(r) \/ Drop(r) \/ Raise(r)
  \/ Restart
  \/ Reconfigure

(* A script that was started is executed to its end; users owe nothing.     *)
Fairness == \A r \in Runs : WF_vars(Step(r) \/ Return(r) \/ PostResume(r))

Spec == Init /\ [][Next]_vars
FairSpec == Spec /\ Fairness

-----------------------------------------------------------------------------
(* Properties.                                                             *)

(* The buttons of a session always act on a run of its own that they can    *)
(* still move, and every run that waits for an answer can be given one: no  *)
(* interleaving of prompts, thread switches, failures and restarts leaves a *)
(* button on a dead run, or a run of this process waiting without its       *)
(* button.  A checkpoint that awaits an approval nobody can press is one of *)
(* a run the process has let go of: replaced, dropped, switched away from,  *)
(* or from before a restart, where a checkpointer keeps its state although  *)
(* no session gets the approval back (ui/views/command.py:265).             *)
ButtonsMatchWaitingRuns ==
  /\ \A s \in Sessions : pending[s] # NoRun =>
       LET r == pending[s] IN
       /\ owner[r] = s
       /\ phase[r] = "idle" => node[r] \in {"approval", "audit"}
  /\ \A r \in Runs : phase[r] = "idle" /\ node[r] \in Nodes => pending[owner[r]] = r
  /\ \A r \in awaiting : phase[r] = "idle" => pending[owner[r]] = r \/ node[r] = "lost"

(* _post_resume takes the outcome "completed" of an answered run to mean    *)
(* that the operation was executed, and any other that it was not.          *)
CompletedMeansExecuted ==
  \A r \in Runs : phase[r] = "resume" /\ node[r] = "end" =>
    (record[r].outcome = "completed" <=>
       \E k \in DOMAIN record[r].events : record[r].events[k].kind = "execute")

(* Every started run comes back to its user: finished, waiting for an       *)
(* approval, or failed, never hanging in between.                           *)
PromptReturns == \A r \in Runs : phase[r] = "invoke" ~> phase[r] = "idle"

(* telemetry.get_run_totals aggregates "token usage for the current run      *)
(* (plan + summarize calls)" over one buffer for the process, cleared by     *)
(* each prompt: the totals of a run count the calls of another one only if   *)
(* that one belongs to another session, whatever was dropped, resumed or     *)
(* restarted between.                                                        *)
TotalsMixOnlyAcrossSessions ==
  \A r \in Runs : totals[r] \subseteq {q \in Runs : q = r \/ owner[q] # owner[r]}

=============================================================================
