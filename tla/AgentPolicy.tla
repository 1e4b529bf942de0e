----------------------------- MODULE AgentPolicy -----------------------------
(***************************************************************************)
(* The deterministic policy of the JFrog agent: tool risk classes          *)
(* (tools/registry.py), Authorizer.decide (security.py), and what the plan *)
(* and artifactory_subgraph nodes of graph.py make of it.                  *)
(*                                                                         *)
(* A plan is a sequence of actions.  An action is a tool and the           *)
(* repositories it names; `NoTool` stands for every tool name the planner  *)
(* makes up.                                                               *)
(***************************************************************************)
EXTENDS Naturals, Sequences

CONSTANTS
  Tools,      \* keys of TOOLS
  Risk,       \* tool -> risk class
  Live,       \* tools with an mcp_tool behind them
  Validated,  \* read tools whose handler checks the repositories again (AQL)
  NoTool,     \* a name that is not in TOOLS
  Repos       \* repository names

RiskClasses == {"read", "reversible_write", "sensitive_write", "destructive"}

ASSUME PolicyAssumption ==
  /\ Risk \in [Tools -> RiskClasses]
  /\ Live \subseteq Tools
  /\ Validated \subseteq Tools
  /\ NoTool \notin Tools

Action == [tool : Tools \cup {NoTool}, repos : SUBSET Repos]

(* The two settings the policy reads; an empty allowlist admits everything. *)
Settings == [readOnly : BOOLEAN, allowlist : SUBSET Repos]

(* Authorizer.in_scope *)
InScope(s, repos) == s.allowlist = {} \/ repos \subseteq s.allowlist

(* registry.requires_approval *)
RequiresApproval(risk, inScope) ==
  \/ risk \in {"sensitive_write", "destructive"}
  \/ risk = "reversible_write" /\ ~ inScope

(* get_spec(a.tool) is a read tool. *)
IsRead(a) == a.tool \in Tools /\ Risk[a.tool] = "read"

\* mutant: read-only mode is not consulted
AllowedInReadOnly(s, a) ==
  /\ a.tool \in Tools
  /\ IsRead(a) => a.tool \in Live
  /\ InScope(s, a.repos)

(* The `allowed` of the note that plan_node writes for an action: the tool  *)
(* is known, and Authorizer.decide lets it through.                         *)
Allowed(s, a) ==
  /\ a.tool \in Tools
  /\ s.readOnly => IsRead(a)
  /\ IsRead(a) => a.tool \in Live
  /\ InScope(s, a.repos)

(* The `needs_approval` of the note. *)
NeedsApproval(s, a) ==
  Allowed(s, a) /\ RequiresApproval(Risk[a.tool], InScope(s, a.repos))

(* Some note of the plan is a denial; an empty plan has one of its own. *)
HasDenial(s, plan) ==
  plan = <<>> \/ \E i \in DOMAIN plan : ~ Allowed(s, plan[i])

(* The actions that ask for approval, and the one whose payload is shown:   *)
(* each overwrites approval_payload, so the last one; 0 if there is none.   *)
Asking(s, plan) == {i \in DOMAIN plan : NeedsApproval(s, plan[i])}

Payload(s, plan) ==
  LET asking == Asking(s, plan) IN
  IF asking = {} THEN 0
  ELSE CHOOSE i \in asking : \A j \in asking : j <= i

(* {n["tool"]: n}: of the notes of one tool, the last is kept. *)
NoteFor(plan, tool) ==
  CHOOSE i \in DOMAIN plan :
    plan[i].tool = tool /\ \A j \in DOMAIN plan : plan[j].tool = tool => j <= i

(* artifactory_subgraph takes action i for an authorized read: the tool is  *)
(* a read tool and the note it finds under the tool's name allows it.       *)
RunsAsRead(s, plan, i) ==
  LET note == plan[NoteFor(plan, plan[i].tool)] IN
  /\ IsRead(plan[i])
  /\ Allowed(s, note)
  /\ ~ NeedsApproval(s, note)

(* The handler gets as far as the upstream call: search_artifacts builds    *)
(* its AQL first, which rejects repositories outside the allowlist.         *)
ReachesUpstream(s, a) == a.tool \in Validated => InScope(s, a.repos)

=============================================================================
