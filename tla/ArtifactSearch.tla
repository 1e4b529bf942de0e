---------------------------- MODULE ArtifactSearch ----------------------------
(***************************************************************************)
(* One artifact search, from its caller through the Artifactory MCP server *)
(* to Artifactory.  The caller is the agent, which builds a query from a   *)
(* structured intent, checks it, and then calls the server's tool with two *)
(* arguments; or any other MCP client, which calls the tool directly.      *)
(* The server builds the query that runs.                                  *)
(***************************************************************************)
EXTENDS Integers, Sequences, FiniteSets, FiniteSetsExt, SequencesExt

CONSTANTS ArtRepos,       \* repository keys
          Artifacts,      \* the artifacts stored: [repo, name, size, stale]
          Intents,        \* the agent's search intents
          DirectCalls,    \* arguments other clients send: [name, repo, limit]
          AgentScopes,    \* values of JFROG_AGENT_REPO_ALLOWLIST
          ServerScopes,   \* values of ARTIFACTORY_REPO_ALLOWLIST
          AgentMax, ServerCaps,  \* JFROG_AGENT_AQL_MAX_RESULTS, ARTIFACTORY_MAX_RESULTS
          HARD_CEILING,
          Hint,           \* the name docker artifacts are searched by
          Readable,       \* the repositories the calling user may read in Artifactory
          None

ASSUME SearchAssumption ==
    /\ AgentMax \in Nat /\ HARD_CEILING \in Nat \ {0} /\ ServerCaps \subseteq Int
    /\ IsFiniteSet(Artifacts) /\ \A a \in Artifacts : a.repo \in ArtRepos
    /\ AgentScopes \cup ServerScopes \cup {Readable} \subseteq SUBSET ArtRepos
    /\ \A i \in Intents : i.repositories \in Seq(ArtRepos) /\ i.limit \in Int
    /\ \A c \in DirectCalls : c.limit = None \/ c.limit \in Int
    /\ None \notin ArtRepos /\ None \notin Intents

VARIABLES searcher,     \* "agent" or "direct"
          intent,       \* the agent's intent, None for others
          agentScope, serverScope, serverCap,
          credential,   \* "user" (secure mode), "shared", "none"
          searchAt,     \* where the search is
          aql,          \* the query the agent built, validated and reports
          args,         \* the arguments of the tool call
          ran,          \* the query the server ran
          hits          \* what came back

searchVars == <<searcher, intent, agentScope, serverScope, serverCap, credential,
                searchAt, aql, args, ran, hits>>

-----------------------------------------------------------------------------
(* Queries: the repositories ({}: all), the name patterns that all must     *)
(* match, a size to exceed, whether downloads must be old, and a limit.     *)

Matches(a, name) == name \in {"*", a.name}
Selects(q) ==
    {a \in Artifacts : /\ q.repos = {} \/ a.repo \in q.repos
                       /\ \A n \in q.names : Matches(a, n)
                       /\ a.size > q.minSize \/ q.minSize = 0
                       /\ q.stale => a.stale}

-----------------------------------------------------------------------------
(* The agent: tools/aql.py and tools/artifactory.py.                        *)

\* A pattern is a pair: whether it holds a %, and the rest.
Stripped(p) == p[2]

AgentRejects == \/ intent.domain \notin {"items", "builds"}
                \/ agentScope # {} /\ ~(ToSet(intent.repositories) \subseteq agentScope)

build_items_aql ==
    [repos |-> IF intent.repositories = <<>> THEN agentScope ELSE ToSet(intent.repositories),
     names |-> (IF intent.name = None THEN {} ELSE {Stripped(intent.name)})
                  \cup (IF intent.docker THEN {Hint} ELSE {}),
     minSize |-> intent.minSize, stale |-> intent.stale,
     limit |-> Max({1, Min({intent.limit, AgentMax})})]

BuildAql ==
    /\ searchAt = "intent"
    /\ \/ AgentRejects /\ searchAt' = "refused" /\ UNCHANGED aql
       \/ ~AgentRejects /\ searchAt' = "built" /\ aql' = build_items_aql
    /\ UNCHANGED <<searcher, intent, agentScope, serverScope, serverCap, credential, args, ran, hits>>

\* What the agent sends: the pattern as it was and the first repository.
CallSearchTool ==
    /\ searchAt = "built"
    /\ searchAt' = "called"
    /\ args' = LET repo == IF intent.repositories = <<>> THEN None ELSE intent.repositories[1]
               IN  [name |-> IF intent.name = None /\ repo = None THEN <<FALSE, "*">> ELSE intent.name,
                    repo |-> repo, limit |-> None]
    /\ UNCHANGED <<searcher, intent, agentScope, serverScope, serverCap, credential, aql, ran, hits>>

-----------------------------------------------------------------------------
(* The server: safe_aql.py and server.py.                                   *)

\* mutant: a cap of zero is taken as it is
ZeroResults == Min({serverCap, HARD_CEILING})

max_results == Max({1, Min({serverCap, HARD_CEILING})})

validate_name(p) == ~p[1] /\ p[2] # ""   \* a name holds no % and is not blank
validate_repo(r) == serverScope = {} \/ r \in serverScope

ServerRejects ==
    \/ args.repo # None /\ ~validate_repo(args.repo)
    \/ args.name # None /\ ~validate_name(args.name)
    \/ args.limit # None /\ args.limit < 1

\* mutant: the caller's limit is not capped
SearchAqlUncapped ==
    [repos |-> IF args.repo # None THEN {args.repo} ELSE serverScope,
     names |-> IF args.name # None THEN {Stripped(args.name)} ELSE {"*"},
     minSize |-> 0, stale |-> FALSE,
     limit |-> IF args.limit = None THEN max_results ELSE args.limit]

build_search_aql ==
    [repos |-> IF args.repo # None THEN {args.repo} ELSE serverScope,
     names |-> IF args.name # None THEN {Stripped(args.name)} ELSE {"*"},
     minSize |-> 0, stale |-> FALSE,
     limit |-> IF args.limit = None THEN max_results ELSE Min({args.limit, max_results})]

ServerSearch ==
    /\ searchAt = "called"
    /\ \/ ServerRejects /\ searchAt' = "invalid_search" /\ UNCHANGED ran
       \/ ~ServerRejects /\ searchAt' = "querying" /\ ran' = build_search_aql
    /\ UNCHANGED <<searcher, intent, agentScope, serverScope, serverCap, credential, aql, args, hits>>

\* get_artifactory_client: the caller's id_token is exchanged for a token of
\* theirs; the exchange and the query may fail.
ArtifactoryAnswers ==
    /\ searchAt = "querying" /\ credential # "none"
    /\ LET seen == {a \in Selects(ran) : credential = "user" => a.repo \in Readable}
       IN  \E h \in SUBSET seen : /\ Cardinality(h) = Min({Cardinality(seen), ran.limit})
                                  /\ hits' = h
    /\ searchAt' = "answered"
    /\ UNCHANGED <<searcher, intent, agentScope, serverScope, serverCap, credential, aql, args, ran>>

ArtifactoryFails ==
    /\ searchAt = "querying" /\ searchAt' = "failed"
    /\ UNCHANGED <<searcher, intent, agentScope, serverScope, serverCap, credential, aql, args, ran, hits>>

-----------------------------------------------------------------------------

SearchInit ==
    /\ agentScope \in AgentScopes /\ serverScope \in ServerScopes /\ serverCap \in ServerCaps
    /\ credential \in {"user", "shared", "none"}
    /\ \/ /\ searcher = "agent" /\ searchAt = "intent" /\ args = None
          /\ intent \in Intents
       \/ /\ searcher = "direct" /\ searchAt = "called" /\ intent = None
          /\ args \in DirectCalls
    /\ aql = None /\ ran = None /\ hits = {}

SearchNext == \/ BuildAql \/ CallSearchTool \/ ServerSearch
              \/ ArtifactoryAnswers \/ ArtifactoryFails

SearchSpec == SearchInit /\ [][SearchNext]_searchVars

-----------------------------------------------------------------------------
(* Properties.                                                              *)

\* Types: the stages, and a limit within the server's ceiling (safe_aql.py:73-82).
SearchTypeOK ==
    /\ searchAt \in {"intent", "built", "called", "querying", "answered",
                     "refused", "invalid_search", "failed"}
    /\ hits \subseteq Artifacts
    /\ aql = None \/ aql.repos \subseteq ArtRepos
    /\ ran = None \/ ran.limit \in 1..Max({1, HARD_CEILING})

Repositories == {a.repo : a \in hits}

\* build_search_aql and get_artifactory_client (safe_aql.py:73-82, 113-165,
\* server.py:101-188): whoever asks, a result stays in the server's scope, under the
\* server's cap and the caller's own limit, and within what the caller may read.
\* A cap under one means one.
BoundedByServer ==
    /\ Cardinality(hits) <= 1 \/ Cardinality(hits) <= serverCap
    /\ Cardinality(hits) <= HARD_CEILING
    /\ intent = None /\ args.limit # None /\ hits # {} => Cardinality(hits) <= args.limit
    /\ serverScope # {} => Repositories \subseteq serverScope
    /\ credential = "user" => Repositories \subseteq Readable

\* search_artifacts (tools/artifactory.py:56-99): for an intent that names
\* repositories the first is the only one searched, it is one the agent may search,
\* and the name it gives holds of every result.
SearchesWhatIsNamed ==
    intent # None /\ hits # {} =>
        /\ intent.repositories # <<>> =>
              /\ Repositories = {intent.repositories[1]}
              /\ agentScope # {} => Repositories \subseteq agentScope
        /\ intent.name # None => \A a \in hits : Matches(a, Stripped(intent.name))

\* What the query the agent validated and reports selects, of that what the call
\* can reach: the repository named first, the server's scope, what the caller may read.
Wanted ==
    {a \in Selects(aql) : /\ intent.repositories # <<>> => a.repo = intent.repositories[1]
                          /\ serverScope # {} => a.repo \in serverScope
                          /\ credential = "user" => a.repo \in Readable}

\* The call says all of the intent: it filters by no more than a name, and it has a
\* repository or the agent has no scope.
SaidInFull(i) == /\ ~i.docker /\ i.minSize = 0 /\ ~i.stale
                 /\ i.repositories # <<>> \/ agentScope = {}

\* search_artifacts and build_search_aql (tools/artifactory.py:77-99): the call says
\* less than the validated query, so nothing that query finds within reach is missing
\* unless the server's limit cut it off; and where the call says all of the intent,
\* nothing else comes back.
NothingIsMissed ==
    intent # None /\ searchAt = "answered" =>
        /\ Cardinality(hits) < ran.limit => Wanted \subseteq hits
        /\ SaidInFull(intent) => hits \subseteq Wanted

\* tools/artifactory.py:56-99 with safe_aql.py:113-165: an answer keeps to the server's
\* bounds and to what the intent names, and holds what the validated query would find
\* within reach.  The agent's scope, for an intent that names no repository, and the
\* agent's cap bound only the validated query, whatever artifactory.py:63-65 says: the
\* call of such an intent names no repository, and no call has a limit
\* (artifactory.py:80-88).
SearchIsWhatWasAsked == BoundedByServer /\ SearchesWhatIsNamed /\ NothingIsMissed

=============================================================================
