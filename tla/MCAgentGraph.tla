---------------------------- MODULE MCAgentGraph ----------------------------
(* AgentGraph for TLC: one tool of each class the policy tells apart.       *)
EXTENDS AgentGraph, TLC

CONSTANTS search, info, quota, tag, promote, delete, in, out, r1

MCTools == {search, info, quota, tag, promote, delete}

(* search_artifacts checks its repositories twice, get_repository_info only *)
(* in the plan node; quota is a read tool without an mcp_tool.              *)
MCRisk ==
  search :> "read" @@ info :> "read" @@ quota :> "read" @@
  tag :> "reversible_write" @@ promote :> "sensitive_write" @@ delete :> "destructive"

(* Every plan of at most two actions, each on one repository or none.       *)
MCActions == {a \in Action : a.repos \in {{}, {in}, {out}}}

MCPlans == {<<>>} \cup {<<a>> : a \in MCActions} \cup (MCActions \X MCActions)

MCEnvs ==
  { [readOnly |-> TRUE, allowlist |-> {}],
    [readOnly |-> FALSE, allowlist |-> {in}],
    [readOnly |-> FALSE, allowlist |-> {}] }

=============================================================================
