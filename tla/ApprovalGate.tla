---------------------------- MODULE ApprovalGate ----------------------------
(***************************************************************************)
(* What the agent promises about operations that change something (README  *)
(* "Safety model", graph.py docstring): an operation is executed only      *)
(* after somebody has been asked and has said "approve", at most once, and *)
(* the outcome the user is told agrees with what was done.                 *)
(***************************************************************************)
CONSTANT Runs

VARIABLES
  stage,    \* run -> how far its operation has come
  verdict,  \* run -> what the reply was
  told      \* run -> the recorded outcome, "nothing" until it is recorded

gateVars == <<stage, verdict, told>>

Init ==
  /\ stage = [r \in Runs |-> "open"]
  /\ verdict = [r \in Runs |-> "none"]
  /\ told = [r \in Runs |-> "nothing"]

Move(r, from, to) ==
  stage[r] \in from /\ stage' = [stage EXCEPT ![r] = to]

Ask(r) == Move(r, {"open"}, "asked") /\ UNCHANGED <<verdict, told>>

Grant(r) ==
  /\ Move(r, {"asked"}, "granted")
  /\ verdict' = [verdict EXCEPT ![r] = "approve"]
  /\ UNCHANGED told

Refuse(r) ==
  /\ Move(r, {"asked"}, "refused")
  /\ \E v \in {"reject", "edit"} : verdict' = [verdict EXCEPT ![r] = v]
  /\ UNCHANGED told

Execute(r) == Move(r, {"granted"}, "executed") /\ UNCHANGED <<verdict, told>>

(* What may be told: "rejected" only of a rejected operation, and always of *)
(* one; "denied" of nothing that was executed.                              *)
Tellable(r) ==
  IF verdict[r] = "reject" THEN {"rejected"}
  ELSE IF stage[r] = "executed" THEN {"completed"}
  ELSE {"completed", "denied"}

Close(r) ==
  /\ \E outcome \in Tellable(r) : told' = [told EXCEPT ![r] = outcome]
  /\ Move(r, {"open", "refused", "executed"}, "closed")
  /\ UNCHANGED verdict

(* The process, or the last reference to a run, goes away, and with a       *)
(* process every run in it that has not been closed.                        *)
Vanish(S) ==
  /\ \A r \in S : stage[r] \in {"open", "asked", "granted", "refused", "executed"}
  /\ stage' = [r \in Runs |-> IF r \in S THEN "lost" ELSE stage[r]]
  /\ UNCHANGED <<verdict, told>>

Next ==
  \/ \E r \in Runs : Ask(r) \/ Grant(r) \/ Refuse(r) \/ Execute(r) \/ Close(r)
  \/ \E S \in SUBSET Runs : Vanish(S)

Spec == Init /\ [][Next]_gateVars

=============================================================================
