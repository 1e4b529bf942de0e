--------------------------- MODULE MCAgentConsole ---------------------------
(* AgentConsole for TLC: two runs from one or two sessions, with a plan     *)
(* that is denied and one that reads and asks.                              *)
EXTENDS AgentConsole, TLC

CONSTANTS search, delete, in, out, r1, r2, s1, s2

MCTools == {search, delete}
MCRisk == search :> "read" @@ delete :> "destructive"

Act(tool, repos) == [tool |-> tool, repos |-> repos]

MCPlans ==
  { <<Act(search, {out})>>,
    <<Act(search, {in}), Act(delete, {in})>> }

MCEnvs ==
  { [readOnly |-> TRUE, allowlist |-> {}],
    [readOnly |-> FALSE, allowlist |-> {in}] }

(* Runs and sessions are alike: r1 is the one that starts first, from s1.   *)
Canonical == /\ \A r \in Runs : owner[r] # NoRun => owner[r1] # NoRun
             /\ owner[r1] \in {NoRun, s1}

MCNext == Next /\ Canonical'

MCSpec == Init /\ [][MCNext]_vars /\ Fairness

=============================================================================
