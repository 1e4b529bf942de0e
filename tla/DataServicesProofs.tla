------------------------- MODULE DataServicesProofs --------------------------
(* What is proved of the services that handle data: the Artifactory search, *)
(* the safety kit, the Google Drive server and the context optimizer.       *)
EXTENDS ContextOptimizer, ArtifactSearch, SafetyKit, GoogleDrive,
        FiniteSetTheorems, SequenceTheorems, WellFoundedInduction, NaturalsInduction, TLAPS

(***************************************************************************)
(* The Artifactory search.                                                 *)
(***************************************************************************)

(* The greatest and the least of two integers.                             *)
LEMMA MaxOfTwo == ASSUME NEW a \in Int, NEW b \in Int PROVE Max({a, b}) = IF a >= b THEN a ELSE b
  <1>1. Max({a, b}) \in {a, b} /\ \A y \in {a, b} : Max({a, b}) >= y
    BY DEF Max
  <1> QED
    BY <1>1

\* The smaller of two numbers.
LEMMA MinOfTwo == ASSUME NEW a \in Int, NEW b \in Int PROVE Min({a, b}) = IF a <= b THEN a ELSE b
  <1>1. Min({a, b}) \in {a, b} /\ \A y \in {a, b} : Min({a, b}) <= y
    BY DEF Min
  <1> QED
    BY <1>1

(* The query lies within the artifacts, which are finite.                  *)
LEMMA SelectsFinite ==
  ASSUME NEW q, NEW S, S \subseteq Selects(q)
  PROVE  IsFiniteSet(S) /\ Cardinality(S) \in Nat
  <1>1. S \subseteq Artifacts
    BY DEF Selects
  <1> QED
    BY <1>1, SearchAssumption, FS_Subset, FS_CardinalityType

-----------------------------------------------------------------------------
(* What the search is, stage by stage.                                     *)

\* The arguments of the agent's call.
CalledWith == LET repo == IF intent.repositories = <<>> THEN None ELSE intent.repositories[1]
              IN  [name |-> IF intent.name = None /\ repo = None THEN <<FALSE, "*">> ELSE intent.name,
                   repo |-> repo, limit |-> None]

Agent == intent # None

SettingOK ==
  /\ serverCap \in Int /\ agentScope \subseteq ArtRepos /\ serverScope \subseteq ArtRepos
  /\ Agent => intent \in Intents
  /\ searchAt \in {"intent", "built"} => Agent

BuiltInv ==
  /\ searchAt \in {"intent", "refused"} => aql = None
  /\ Agent /\ searchAt \notin {"intent", "refused"} => ~AgentRejects /\ aql = build_items_aql
  /\ ~Agent => aql = None

CalledInv ==
  /\ Agent /\ searchAt \notin {"intent", "refused", "built"} => args = CalledWith
  /\ ~Agent => args \in DirectCalls

RanInv ==
  /\ searchAt \in {"querying", "answered", "failed"} => ~ServerRejects /\ ran = build_search_aql
  /\ searchAt \notin {"querying", "answered", "failed"} => ran = None

Seen == {a \in Selects(ran) : credential = "user" => a.repo \in Readable}
HitsInv ==
  /\ searchAt # "answered" => hits = {}
  /\ searchAt = "answered" => hits \subseteq Seen /\ Cardinality(hits) = Min({Cardinality(Seen), ran.limit})

SearchInv ==
  /\ searchAt \in {"intent", "built", "called", "querying", "answered", "refused", "invalid_search", "failed"}
  /\ SettingOK /\ BuiltInv /\ CalledInv /\ RanInv /\ HitsInv

\* At first nothing was asked.
LEMMA SearchInitInv == SearchInit => SearchInv
  BY SearchAssumption DEF SearchInit, SearchInv, SettingOK, BuiltInv, CalledInv, RanInv, HitsInv, Agent

\* The invariant is inductive.
LEMMA SearchInvNext == SearchInv /\ [SearchNext]_searchVars => SearchInv'
  <1> SUFFICES ASSUME SearchInv, [SearchNext]_searchVars PROVE SearchInv'
    OBVIOUS
  <1> USE DEF SearchInv, SettingOK, Agent
  <1>1. CASE BuildAql
    BY <1>1 DEF BuildAql, BuiltInv, CalledInv, RanInv, HitsInv, AgentRejects, build_items_aql
  <1>2. CASE CallSearchTool
    BY <1>2 DEF CallSearchTool, BuiltInv, CalledInv, RanInv, HitsInv, AgentRejects, build_items_aql, CalledWith
  <1>3. CASE ServerSearch
    BY <1>3 DEF ServerSearch, BuiltInv, CalledInv, RanInv, HitsInv, AgentRejects, build_items_aql, CalledWith,
       ServerRejects, build_search_aql, validate_name, validate_repo, max_results
  <1>4. CASE ArtifactoryAnswers
    <2>1. BuiltInv' /\ CalledInv' /\ RanInv'
      BY <1>4 DEF ArtifactoryAnswers, BuiltInv, CalledInv, RanInv, AgentRejects, build_items_aql, CalledWith,
         ServerRejects, build_search_aql, validate_name, validate_repo, max_results
    <2>2. HitsInv'
      BY <1>4 DEF ArtifactoryAnswers, HitsInv, Seen, Selects
    <2> QED
      BY <1>4, <2>1, <2>2 DEF ArtifactoryAnswers
  <1>5. CASE ArtifactoryFails
    BY <1>5 DEF ArtifactoryFails, BuiltInv, CalledInv, RanInv, HitsInv, AgentRejects, build_items_aql, CalledWith,
       ServerRejects, build_search_aql, validate_name, validate_repo, max_results
  <1>6. CASE UNCHANGED searchVars
    <2>1. UNCHANGED <<searcher, intent, agentScope, serverScope, serverCap, credential, searchAt, aql, args, ran, hits>>
      BY <1>6 DEF searchVars
    <2>2. BuiltInv' /\ CalledInv'
      BY <2>1 DEF BuiltInv, CalledInv, AgentRejects, build_items_aql, CalledWith
    <2>3. RanInv'
      BY <2>1 DEF RanInv, ServerRejects, build_search_aql, validate_name, validate_repo, max_results
    <2>4. HitsInv'
      BY <2>1 DEF HitsInv, Seen, Selects
    <2> QED
      BY <2>1, <2>2, <2>3, <2>4
  <1> QED
    BY <1>1, <1>2, <1>3, <1>4, <1>5, <1>6 DEF SearchNext

-----------------------------------------------------------------------------
(* What a search comes to.                                                 *)

\* The server's cap is at least one, within the ceiling, and the configured one if
\* that is at least one.
LEMMA CapsHold ==
  ASSUME SearchInv
  PROVE  max_results \in 1..HARD_CEILING /\ (max_results = 1 \/ max_results <= serverCap)
  <1>1. serverCap \in Int /\ HARD_CEILING \in Nat \ {0}
    BY SearchAssumption DEF SearchInv, SettingOK
  <1> QED
    BY <1>1, MaxOfTwo, MinOfTwo DEF max_results

\* The query asks for at least one artifact and at most the cap and the caller's limit.
LEMMA LimitHolds ==
  ASSUME SearchInv, searchAt \in {"querying", "answered", "failed"}
  PROVE  /\ ran.limit \in 1..HARD_CEILING
         /\ ran.limit = 1 \/ ran.limit <= serverCap
         /\ args.limit # None => ran.limit <= args.limit
  <1>1. ran = build_search_aql /\ ~ServerRejects
    BY DEF SearchInv, RanInv
  <1>2. args.limit = None \/ args.limit \in Int
    <2>1. CASE Agent
      <3>1. args = CalledWith
        BY <2>1 DEF SearchInv, CalledInv
      <3> QED
        BY <3>1 DEF CalledWith
    <2>2. CASE ~Agent
      BY <2>2, SearchAssumption DEF SearchInv, CalledInv
    <2> QED
      BY <2>1, <2>2
  <1>3. /\ max_results \in 1..HARD_CEILING /\ HARD_CEILING \in Nat /\ serverCap \in Int
        /\ max_results = 1 \/ max_results <= serverCap
    BY CapsHold, SearchAssumption DEF SearchInv, SettingOK
  <1>4. CASE args.limit = None
    BY <1>1, <1>3, <1>4 DEF build_search_aql
  <1>5. CASE args.limit # None
    <2>1. args.limit \in Int /\ args.limit >= 1 /\ ran.limit = Min({args.limit, max_results})
      BY <1>1, <1>2, <1>5 DEF build_search_aql, ServerRejects
    <2> QED
      BY <1>3, <2>1, MinOfTwo
  <1> QED
    BY <1>4, <1>5

\* What was answered is what the query selects.
LEMMA HitsAnswered ==
  ASSUME SearchInv, hits # {}
  PROVE  /\ searchAt = "answered" /\ hits \subseteq Seen /\ ran = build_search_aql /\ ~ServerRejects
         /\ \A a \in hits : /\ ran.repos = {} \/ a.repo \in ran.repos
                            /\ credential = "user" => a.repo \in Readable
  BY DEF SearchInv, HitsInv, RanInv, Seen, Selects

\* The answer stays within the server's bounds and the caller's limit.
LEMMA StaysBounded == SearchInv => BoundedByServer
  <1> SUFFICES ASSUME SearchInv PROVE BoundedByServer
    OBVIOUS
  <1>1. CASE hits = {}
    <2>1. Cardinality(hits) = 0
      BY <1>1, FS_EmptySet
    <2> QED
      BY <1>1, <2>1, SearchAssumption DEF BoundedByServer, Repositories
  <1>2. CASE hits # {}
    <2>1. searchAt = "answered" /\ hits \subseteq Seen
      BY <1>2, HitsAnswered
    <2>2. /\ Cardinality(hits) \in Nat /\ Cardinality(hits) <= ran.limit
          /\ ran.limit \in 1..HARD_CEILING /\ (ran.limit = 1 \/ ran.limit <= serverCap)
          /\ args.limit # None => ran.limit <= args.limit
      <3>1. Cardinality(Seen) \in Nat
        BY SelectsFinite DEF Seen
      <3> QED
        BY <2>1, <3>1, LimitHolds, MinOfTwo, SearchAssumption DEF SearchInv, HitsInv
    <2>3. intent = None => args.limit = None \/ args.limit \in Int
      BY SearchAssumption DEF SearchInv, CalledInv, Agent
    <2>4. ASSUME serverScope # {}, NEW a \in hits PROVE a.repo \in serverScope
      <3>1. ran = build_search_aql /\ ~ServerRejects /\ (ran.repos = {} \/ a.repo \in ran.repos)
        BY <2>4, HitsAnswered
      <3> QED
        BY <2>4, <3>1 DEF build_search_aql, ServerRejects, validate_repo
    <2>5. /\ Cardinality(hits) <= 1 \/ Cardinality(hits) <= serverCap
          /\ Cardinality(hits) <= HARD_CEILING
          /\ intent = None /\ args.limit # None => Cardinality(hits) <= args.limit
      BY <2>2, <2>3, SearchAssumption DEF SearchInv, SettingOK
    <2> QED
      BY <2>4, <2>5, HitsAnswered DEF BoundedByServer, Repositories
  <1> QED
    BY <1>1, <1>2

\* The first repository of an intent that names one.
LEMMA NamedFirst ==
  ASSUME SearchInv, Agent, intent.repositories # <<>>,
         searchAt \notin {"intent", "refused", "built"}
  PROVE  /\ intent.repositories[1] \in ArtRepos /\ intent.repositories[1] \in ToSet(intent.repositories)
         /\ args.repo = intent.repositories[1] /\ args.repo # None
         /\ args.name = intent.name /\ args.limit = None
  <1>1. intent \in Intents /\ intent.repositories \in Seq(ArtRepos)
    BY SearchAssumption DEF SearchInv, SettingOK
  <1>2. 1 \in DOMAIN intent.repositories
    BY <1>1, EmptySeq, LenProperties
  <1>3. intent.repositories[1] \in ArtRepos /\ intent.repositories[1] \in ToSet(intent.repositories)
    BY <1>1, <1>2, ElementOfSeq, LenProperties DEF ToSet
  <1>4. args = CalledWith /\ None \notin ArtRepos
    BY SearchAssumption DEF SearchInv, CalledInv
  <1>5. CalledWith.repo = intent.repositories[1] /\ CalledWith.limit = None
    BY DEF CalledWith
  <1>6. CalledWith.name = intent.name
    BY <1>3, <1>4 DEF CalledWith
  <1> QED
    BY <1>3, <1>4, <1>5, <1>6

\* The agent's call filters by the intent's name, and by none only if it has none.
LEMMA NameIsCalled ==
  ASSUME SearchInv, Agent, searchAt \notin {"intent", "refused", "built"}
  PROVE  /\ intent.name # None => args.name = intent.name
         /\ intent.name = None => args.name \in {None, <<FALSE, "*">>}
  <1>1. args = CalledWith
    BY DEF SearchInv, CalledInv
  <1>2. CalledWith.name \in {intent.name, <<FALSE, "*">>} /\ (intent.name # None => CalledWith.name = intent.name)
    BY DEF CalledWith
  <1> QED
    BY <1>1, <1>2

\* The repository named first is the one searched, for the name that was given.
LEMMA NamedIsSearched == SearchInv => SearchesWhatIsNamed
  <1> SUFFICES ASSUME SearchInv, Agent, hits # {}
               PROVE  /\ intent.repositories # <<>> =>
                            /\ Repositories = {intent.repositories[1]}
                            /\ agentScope # {} => Repositories \subseteq agentScope
                      /\ intent.name # None => \A a \in hits : Matches(a, Stripped(intent.name))
    BY DEF SearchesWhatIsNamed, Agent
  <1>1. ASSUME intent.repositories # <<>>
        PROVE  /\ Repositories = {intent.repositories[1]}
               /\ agentScope # {} => Repositories \subseteq agentScope
    <2>1. args.repo = intent.repositories[1] /\ args.repo # None /\ intent.repositories[1] \in ToSet(intent.repositories)
      BY <1>1, HitsAnswered, NamedFirst
    <2>2. ran.repos = {args.repo}
      BY <2>1, HitsAnswered DEF build_search_aql
    <2>3. Repositories = {intent.repositories[1]}
      BY <2>1, <2>2, HitsAnswered DEF Repositories
    <2>4. ~AgentRejects
      BY HitsAnswered DEF SearchInv, BuiltInv
    <2> QED
      BY <2>1, <2>3, <2>4 DEF AgentRejects
  <1>2. ASSUME intent.name # None, NEW a \in hits PROVE Matches(a, Stripped(intent.name))
    <2>1. searchAt = "answered" /\ ran = build_search_aql /\ a \in Selects(ran)
      BY HitsAnswered DEF Seen
    <2>2. args.name = intent.name
      BY <1>2, <2>1, NameIsCalled
    <2>3. ran.names = {Stripped(intent.name)}
      BY <1>2, <2>1, <2>2 DEF build_search_aql
    <2> QED
      BY <2>1, <2>3 DEF Selects
  <1> QED
    BY <1>1, <1>2

\* What the call reaches of the validated query is what the server's query selects of it;
\* where the call says all of the intent, it is all the server's query selects.
LEMMA CallAgainstIntent ==
  ASSUME SearchInv, Agent, searchAt = "answered"
  PROVE  Wanted \subseteq Seen /\ (SaidInFull(intent) => Seen \subseteq Wanted)
  <1>1. aql = build_items_aql /\ ran = build_search_aql /\ ~ServerRejects
    BY DEF SearchInv, BuiltInv, RanInv
  <1>2. ran.names \in {{"*"}, IF intent.name = None THEN {"*"} ELSE {Stripped(intent.name)}}
    <2>1. Stripped(<<FALSE, "*">>) = "*"
      BY DEF Stripped
    <2> QED
      BY <1>1, <2>1, NameIsCalled DEF build_search_aql
  <1>3. intent.name # None => ran.names = {Stripped(intent.name)}
    BY <1>1, NameIsCalled DEF build_search_aql
  <1>4. intent.name = None => ran.names = {"*"}
    BY <1>2
  <1>5. /\ aql.minSize = intent.minSize /\ aql.stale = intent.stale /\ ran.minSize = 0 /\ ~ran.stale
        /\ aql.repos = IF intent.repositories = <<>> THEN agentScope ELSE ToSet(intent.repositories)
        /\ aql.names = (IF intent.name = None THEN {} ELSE {Stripped(intent.name)})
                          \cup (IF intent.docker THEN {Hint} ELSE {})
    BY <1>1 DEF build_items_aql, build_search_aql
  <1>6. /\ intent.repositories # <<>> => ran.repos = {intent.repositories[1]}
        /\ intent.repositories = <<>> => ran.repos = serverScope
    <2>1. CASE intent.repositories # <<>>
      BY <1>1, <2>1, NamedFirst DEF build_search_aql
    <2>2. CASE intent.repositories = <<>>
      <3>1. args.repo = None
        BY <2>2 DEF SearchInv, CalledInv, CalledWith
      <3> QED
        BY <1>1, <2>2, <3>1 DEF build_search_aql
    <2> QED
      BY <2>1, <2>2
  <1>7. ASSUME NEW a \in Wanted PROVE a \in Seen
    <2>1. /\ a \in Artifacts /\ \A n \in aql.names : Matches(a, n)
          /\ intent.repositories # <<>> => a.repo = intent.repositories[1]
          /\ serverScope # {} => a.repo \in serverScope
          /\ credential = "user" => a.repo \in Readable
      BY DEF Wanted, Selects
    <2>2. ran.repos = {} \/ a.repo \in ran.repos
      BY <1>6, <2>1
    <2>3. \A n \in ran.names : Matches(a, n)
      BY <1>3, <1>4, <1>5, <2>1 DEF Matches
    <2> QED
      BY <1>5, <2>1, <2>2, <2>3 DEF Seen, Selects
  <1>8. ASSUME SaidInFull(intent), NEW a \in Seen PROVE a \in Wanted
    <2>1. /\ a \in Artifacts /\ \A n \in ran.names : Matches(a, n)
          /\ ran.repos = {} \/ a.repo \in ran.repos
          /\ credential = "user" => a.repo \in Readable
      BY DEF Seen, Selects
    <2>2. /\ intent.repositories # <<>> => a.repo = intent.repositories[1]
          /\ aql.repos = {} \/ a.repo \in aql.repos
          /\ serverScope # {} => a.repo \in serverScope
      <3>1. CASE intent.repositories # <<>>
        <4>1. a.repo = intent.repositories[1] /\ intent.repositories[1] \in ToSet(intent.repositories)
          BY <1>6, <2>1, <3>1, NamedFirst
        <4>2. serverScope # {} => a.repo \in serverScope
          BY <1>1, <3>1, <4>1, NamedFirst DEF ServerRejects, validate_repo
        <4> QED
          BY <1>5, <3>1, <4>1, <4>2
      <3>2. CASE intent.repositories = <<>>
        BY <1>5, <1>6, <1>8, <2>1, <3>2 DEF SaidInFull
      <3> QED
        BY <3>1, <3>2
    <2>3. \A n \in aql.names : Matches(a, n)
      BY <1>3, <1>5, <1>8, <2>1 DEF SaidInFull
    <2>4. aql.minSize = 0 /\ ~aql.stale
      BY <1>5, <1>8 DEF SaidInFull
    <2> QED
      BY <2>1, <2>2, <2>3, <2>4 DEF Wanted, Selects
  <1> QED
    BY <1>7, <1>8

\* Nothing within reach is missing below the limit, and nothing comes that was not meant.
LEMMA NothingMissed == SearchInv => NothingIsMissed
  <1> SUFFICES ASSUME SearchInv, Agent, searchAt = "answered"
               PROVE  /\ Cardinality(hits) < ran.limit => Wanted \subseteq hits
                      /\ SaidInFull(intent) => hits \subseteq Wanted
    BY DEF NothingIsMissed, Agent
  <1>1. hits \subseteq Seen /\ Cardinality(hits) = Min({Cardinality(Seen), ran.limit})
    BY DEF SearchInv, HitsInv
  <1>2. ASSUME Cardinality(hits) < ran.limit PROVE hits = Seen
    <2>1. ran.limit \in Int
      BY LimitHolds, SearchAssumption
    <2>2. IsFiniteSet(Seen) /\ Cardinality(Seen) \in Nat
      BY SelectsFinite DEF Seen
    <2>3. Cardinality(hits) = Cardinality(Seen)
      BY <1>1, <1>2, <2>1, <2>2, MinOfTwo
    <2> QED
      BY <1>1, <2>2, <2>3, FS_Subset
  <1> QED
    BY <1>1, <1>2, CallAgainstIntent

\* The types.
LEMMA SearchTypesHold == SearchInv => SearchTypeOK
  <1> SUFFICES ASSUME SearchInv PROVE SearchTypeOK
    OBVIOUS
  <1>1. hits \subseteq Artifacts
    BY DEF SearchInv, HitsInv, Seen, Selects
  <1>2. aql = None \/ aql.repos \subseteq ArtRepos
    <2>1. CASE aql # None
      <3>1. aql = build_items_aql /\ intent \in Intents /\ agentScope \subseteq ArtRepos
        BY <2>1 DEF SearchInv, BuiltInv, SettingOK
      <3>2. intent.repositories \in Seq(ArtRepos)
        BY <3>1, SearchAssumption
      <3>3. ToSet(intent.repositories) \subseteq ArtRepos
        BY <3>2, ElementOfSeq, LenProperties DEF ToSet
      <3> QED
        BY <3>1, <3>3 DEF build_items_aql
    <2> QED
      BY <2>1
  <1>3. ran = None \/ ran.limit \in 1..Max({1, HARD_CEILING})
    <2>1. HARD_CEILING \in Nat \ {0} /\ Max({1, HARD_CEILING}) = HARD_CEILING
      BY MaxOfTwo, SearchAssumption
    <2> QED
      BY <2>1, LimitHolds DEF SearchInv, RanInv
  <1> QED
    BY <1>1, <1>2, <1>3 DEF SearchTypeOK, SearchInv

\* safe_aql.py:73-82, 113-165: whatever is asked, what runs is within the server's ceiling.
THEOREM SearchTypes == SearchSpec => []SearchTypeOK
  BY SearchInitInv, SearchInvNext, SearchTypesHold, PTL DEF SearchSpec

\* tools/artifactory.py, safe_aql.py, server.py: for every artifact, intent, direct call
\* and setting, an answer keeps to the server's scope, its cap, the caller's limit and
\* what the caller may read; it keeps to the repository and the name the intent gives;
\* and it has all that the validated query finds within reach, unless the limit cut it
\* off.  It does not say that an intent without a repository keeps to the agent's scope,
\* nor that the agent's cap holds: neither does.
THEOREM SearchAnswersWhatWasAsked == SearchSpec => []SearchIsWhatWasAsked
  <1>1. SearchInv => SearchIsWhatWasAsked
    BY StaysBounded, NamedIsSearched, NothingMissed DEF SearchIsWhatWasAsked
  <1> QED
    BY <1>1, SearchInitInv, SearchInvNext, PTL DEF SearchSpec

(***************************************************************************)
(* The safety kit.                                                         *)
(***************************************************************************)

(***************************************************************************)
(* The cleaner's loop has a result, whatever the spans.                    *)
(***************************************************************************)
Spans(S) == IsFiniteSet(S) /\ \A m \in S : m.from \in Nat /\ m.to \in Nat
LastSpan(x, S) == x \in S /\ \A m \in S : ~Earlier(x, m)
Kept(K, S) == K \in SUBSET S /\ \A m \in S : m \in K <=> ~Skipped(m, K)

\* A set of sizes has a least one.
LEMMA LeastSize ==
  ASSUME NEW T, T \subseteq Nat, T # {}
  PROVE  \E n \in T : \A k \in T : ~(k < n)
  <1>1. PICK n \in T : \A k \in T : ~(<<k, n>> \in OpToRel(<, Nat))
    BY NatLessThanWellFounded, WFMin
  <1> QED
    BY <1>1 DEF OpToRel

\* Of finitely many spans one is the last: no other starts after it, nor together
\* with it and ends sooner.
LEMMA LastExists ==
  ASSUME NEW U, Spans(U), U # {}
  PROVE  \E x \in U : LastSpan(x, U)
  <1> DEFINE Bad(S) == S \subseteq U /\ S # {} /\ ~\E x \in S : LastSpan(x, S)
             Sizes == {n \in Nat : \E S \in SUBSET U : Bad(S) /\ Cardinality(S) = n}
  <1>1. \A S \in SUBSET U : Spans(S) /\ Cardinality(S) \in Nat
    BY FS_Subset, FS_CardinalityType DEF Spans
  <1>2. ASSUME Sizes # {} PROVE FALSE
    <2>1. PICK n \in Sizes : \A k \in Sizes : ~(k < n)
      BY <1>2, LeastSize
    <2>2. PICK S \in SUBSET U : Bad(S) /\ Cardinality(S) = n
      OBVIOUS
    <2>3. PICK y \in S : TRUE
      BY <2>2
    <2> DEFINE R == S \ {y}
    <2>4. Cardinality(R) = n - 1 /\ Cardinality(R) \in Nat /\ R \in SUBSET U /\ n \in Nat
      BY <1>1, <2>2, FS_RemoveElement DEF Spans
    <2>5. ~Bad(R)
      BY <2>1, <2>4
    <2>6. CASE R = {}
      <3>1. LastSpan(y, S)
        BY <1>1, <2>6 DEF LastSpan, Earlier, Spans
      <3> QED
        BY <2>2, <3>1
    <2>7. CASE R # {}
      <3>1. PICK x \in R : LastSpan(x, R)
        BY <2>5, <2>7
      <3>2. \A m \in S : m.from \in Nat /\ m.to \in Nat
        BY <1>1 DEF Spans
      <3>3. LastSpan(x, S) \/ LastSpan(y, S)
        BY <3>1, <3>2 DEF LastSpan, Earlier
      <3> QED
        BY <2>2, <3>1, <3>3
    <2> QED
      BY <2>6, <2>7
  <1>3. Cardinality(U) \in Nat
    BY <1>1
  <1> QED
    BY <1>2, <1>3

\* What is kept of all but the last span, with the last one if it is not skipped, is
\* what is kept of all.
LEMMA KeptOneMore ==
  ASSUME NEW S, Spans(S), NEW x, LastSpan(x, S), NEW K, Kept(K, S \ {x})
  PROVE  \E L : Kept(L, S)
  <1> DEFINE L == IF Skipped(x, K) THEN K ELSE K \cup {x}
  <1>1. x \in S /\ x \notin K /\ K \subseteq S
    BY DEF LastSpan, Kept
  <1>2. x \in L <=> ~Skipped(x, L)
    BY <1>1 DEF Skipped
  <1>3. ASSUME NEW m \in S, m # x PROVE m \in L <=> ~Skipped(m, L)
    <2>1. m \in L <=> ~Skipped(m, K)
      BY <1>3 DEF Kept
    <2>2. CASE L = K
      BY <2>1, <2>2
    <2>3. CASE L = K \cup {x} /\ ~Skipped(x, K)
      <3>1. ASSUME x # m, ~Earlier(m, x), x.to > m.from PROVE Skipped(m, K)
        <4>1. m.from = x.from /\ m.to = x.to
          BY <3>1, <1>1 DEF LastSpan, Earlier, Spans
        <4>2. m \notin K
          BY <1>3, <2>3, <3>1, <4>1 DEF Skipped, LastSpan
        <4> QED
          BY <2>1, <2>3, <4>2, <1>3
      <3> QED
        BY <2>1, <2>3, <3>1, <1>3 DEF Skipped
    <2> QED
      BY <2>2, <2>3
  <1>4. Kept(L, S)
    BY <1>1, <1>2, <1>3 DEF Kept
  <1> QED
    BY <1>4

\* Whatever the spans, the loop keeps some.
LEMMA KeptExists ==
  ASSUME NEW U, Spans(U)
  PROVE  \E K : Kept(K, U)
  <1> DEFINE Bad(S) == S \subseteq U /\ ~\E K : Kept(K, S)
             Sizes == {n \in Nat : \E S \in SUBSET U : Bad(S) /\ Cardinality(S) = n}
  <1>1. \A S \in SUBSET U : Spans(S) /\ Cardinality(S) \in Nat
    BY FS_Subset, FS_CardinalityType DEF Spans
  <1>2. ASSUME Sizes # {} PROVE FALSE
    <2>1. PICK n \in Sizes : \A k \in Sizes : ~(k < n)
      BY <1>2, LeastSize
    <2>2. PICK S \in SUBSET U : Bad(S) /\ Cardinality(S) = n
      OBVIOUS
    <2>3. S # {}
      <3>1. Kept({}, {})
        BY DEF Kept
      <3> QED
        BY <2>2, <3>1
    <2>4. PICK x \in S : LastSpan(x, S)
      BY <1>1, <2>3, LastExists
    <2> DEFINE R == S \ {x}
    <2>5. Cardinality(R) = n - 1 /\ Cardinality(R) \in Nat /\ R \in SUBSET U /\ n \in Nat
      BY <1>1, <2>2, FS_RemoveElement DEF Spans
    <2>6. ~Bad(R)
      BY <2>1, <2>5
    <2>7. PICK K : Kept(K, R)
      BY <2>5, <2>6
    <2> QED
      BY <1>1, <2>2, <2>4, <2>7, KeptOneMore
  <1>3. Cardinality(U) \in Nat
    BY <1>1
  <1> QED
    BY <1>2, <1>3

\* What the cleaner chooses is what the loop keeps.
LEMMA SpansAreKept ==
  ASSUME NEW S, Spans(S)
  PROVE  Kept(_apply_spans(S), S)
  BY KeptExists DEF Kept, _apply_spans

-----------------------------------------------------------------------------
(* What the guard does with a user's message.                              *)
Severe(t) == \/ \E m \in scan_secrets(t) : Severity[m.kind] >= policy.block
             \/ /\ policy.blockPii /\ policy.redactPii
                /\ \E m \in scan_pii(t) : Severity[m.kind] >= policy.piiBlock

\* What is left of t in a message: only tails.
OnlyTails(t, text) ==
  \A m \in Found(t) : \/ Covers(m) \subseteq text.gone
                      \/ \E n \in Found(t) : /\ Earlier(n, m) /\ n.to > m.from
                                             /\ Covers(n) \subseteq text.gone

\* In a cleaned text only tails of the matches are left.
LEMMA CleanedText ==
  ASSUME NEW t, TextOK(t)
  PROVE  OnlyTails(t, guard_text(t).cleaned)
  <1> DEFINE S == Found(t)
             K == _apply_spans(S)
             text == guard_text(t).cleaned
  <1>1. Spans(S)
    <2>1. S \subseteq t.matches
      BY DEF Found, scan_secrets, scan_pii
    <2> QED
      BY <2>1, FS_Subset DEF TextOK, Spans
  <1>2. K \subseteq S /\ \A m \in S : m \in K <=> ~Skipped(m, K)
    BY <1>1, SpansAreKept DEF Kept
  <1>3. text.gone = t.gone \cup UNION {Covers(m) : m \in K}
    BY DEF guard_text, clean_text, Found
  <1>4. \A m \in K : Covers(m) \subseteq text.gone
    BY <1>3
  <1>5. ASSUME NEW m \in S, m \notin K
        PROVE  \/ Covers(m) \subseteq text.gone
               \/ \E n \in S : Earlier(n, m) /\ n.to > m.from /\ Covers(n) \subseteq text.gone
    <2>1. PICK n \in K : n # m /\ ~Earlier(m, n) /\ n.to > m.from
      BY <1>2, <1>5 DEF Skipped
    <2>2. Earlier(n, m) \/ (n.from = m.from /\ n.to = m.to)
      BY <1>1, <1>2, <2>1 DEF Earlier, Spans
    <2>3. n.from = m.from /\ n.to = m.to => Covers(n) = Covers(m)
      BY DEF Covers
    <2> QED
      BY <1>2, <1>4, <2>1, <2>2, <2>3
  <1> QED
    BY <1>4, <1>5 DEF OnlyTails

\* Nothing is found in no text.
LEMMA NothingFound == Found(NoText) = {} /\ ~Severe(NoText) /\ TextOK(NoText)
  BY FS_EmptySet DEF Found, scan_secrets, scan_pii, NoText, Severe, TextOK

\* Nothing is found in an empty text.
LEMMA EmptyIsSafe == ASSUME NEW t, Empty(t) PROVE Found(t) = {} /\ ~Severe(t)
  BY DEF Empty, Found, scan_secrets, scan_pii, Severe

\* What may be seen of t in a message the guard was asked about: of one it can rebuild
\* only tails, all of another.
Shows(msg, t) == IF msg.form # "object" THEN OnlyTails(t, msg.text) ELSE msg.text = t

\* A guarded message shows only tails unless it cannot be rebuilt, and is refused when
\* its text is too severe.
LEMMA MessageGuarded ==
  ASSUME NEW form, NEW t, TextOK(t)
  PROVE  /\ Shows(GuardedMessage(User(form, t)), t)
         /\ ~Empty(t) /\ guard_text(t).blocked <=> Severe(t)
  <1>1. guard_text(t).blocked <=> Severe(t)
    BY DEF guard_text, clean_text, _decide_block, Severe
  <1>2. CASE Empty(t)
    BY <1>2, EmptyIsSafe DEF GuardedMessage, User, OnlyTails, Shows
  <1>3. CASE ~Empty(t)
    <2>1. GuardedMessage(User(form, t)) = _with_content(User(form, t), guard_text(t).cleaned)
      BY <1>3 DEF GuardedMessage, User
    <2>2. CASE form = "object"
      BY <1>1, <1>3, <2>1, <2>2 DEF _with_content, User, Shows
    <2>3. CASE form # "object"
      <3>1. /\ GuardedMessage(User(form, t)).text = guard_text(t).cleaned
            /\ GuardedMessage(User(form, t)).form # "object"
        BY <2>1, <2>3 DEF _with_content, User
      <3> QED
        BY <1>1, <1>3, <3>1, CleanedText DEF Shows
    <2> QED
      BY <2>2, <2>3
  <1> QED
    BY <1>1, <1>2, <1>3, EmptyIsSafe

\* The planner's and the summarizer's messages as the guard lets them through.
Planned(form) == _guard_before_llm(<<System(form), User(form, request)>>)
Summed(form) == _guard_before_llm(<<System(form), User(form, request), User(form, evidence)>>)

\* The guard before the plan.
LEMMA PlannedIs ==
  ASSUME NEW form, TextOK(request), kit \in {"installed", "missing"}
  PROVE  /\ Planned(form).blocked => Guarding /\ Severe(request)
         /\ ~Guarding => Planned(form).out = <<System(form), User(form, request)>>
         /\ Guarding => /\ Planned(form).blocked <=> Severe(request)
                        /\ Planned(form).out = <<System(form), GuardedMessage(User(form, request))>>
  <1>1. CASE ~Guarding
    BY <1>1 DEF Guarding, Planned, _guard_before_llm, guard_messages
  <1>2. CASE Guarding
    <2> DEFINE msgs == <<System(form), User(form, request)>>
    <2>1. Planned(form) = [out |-> [i \in DOMAIN msgs |-> GuardedMessage(msgs[i])],
                           blocked |-> \E i \in DOMAIN msgs : /\ msgs[i].role # "system" /\ ~Empty(msgs[i].text)
                                                              /\ guard_text(msgs[i].text).blocked]
      BY <1>2 DEF Guarding, Planned, _guard_before_llm, guard_messages
    <2>2. Planned(form).blocked <=> ~Empty(request) /\ guard_text(request).blocked
      BY <2>1 DEF System, User
    <2>3. Planned(form).out = <<System(form), GuardedMessage(User(form, request))>>
      BY <2>1 DEF GuardedMessage, System
    <2> QED
      BY <1>2, <2>2, <2>3, MessageGuarded
  <1> QED
    BY <1>1, <1>2

\* The guard before the summary.
LEMMA SummedIs ==
  ASSUME NEW form, TextOK(request), TextOK(evidence), kit \in {"installed", "missing"}
  PROVE  /\ Summed(form).blocked => Guarding /\ (Severe(request) \/ Severe(evidence))
         /\ ~Guarding => Summed(form).out = <<System(form), User(form, request), User(form, evidence)>>
         /\ Guarding => /\ Summed(form).blocked <=> Severe(request) \/ Severe(evidence)
                        /\ Summed(form).out = <<System(form), GuardedMessage(User(form, request)),
                                                GuardedMessage(User(form, evidence))>>
  <1>1. CASE ~Guarding
    BY <1>1 DEF Guarding, Summed, _guard_before_llm, guard_messages
  <1>2. CASE Guarding
    <2> DEFINE msgs == <<System(form), User(form, request), User(form, evidence)>>
    <2>1. Summed(form) = [out |-> [i \in DOMAIN msgs |-> GuardedMessage(msgs[i])],
                          blocked |-> \E i \in DOMAIN msgs : /\ msgs[i].role # "system" /\ ~Empty(msgs[i].text)
                                                             /\ guard_text(msgs[i].text).blocked]
      BY <1>2 DEF Guarding, Summed, _guard_before_llm, guard_messages
    <2>2. Summed(form).blocked <=> \/ ~Empty(request) /\ guard_text(request).blocked
                                   \/ ~Empty(evidence) /\ guard_text(evidence).blocked
      BY <2>1 DEF System, User
    <2>3. Summed(form).out = <<System(form), GuardedMessage(User(form, request)), GuardedMessage(User(form, evidence))>>
      BY <2>1 DEF GuardedMessage, System
    <2> QED
      BY <1>2, <2>2, <2>3, MessageGuarded
  <1> QED
    BY <1>1, <1>2

-----------------------------------------------------------------------------
(* What was sent, stage by stage.                                          *)
SentFirst == \E f \in Forms : sent = <<Planned(f).out>> /\ ~Planned(f).blocked
SentBoth == \E f, g \in Forms : /\ sent = <<Planned(f).out, Summed(g).out>>
                                /\ ~Planned(f).blocked /\ ~Summed(g).blocked
GuardInv ==
  /\ policy \in Policies /\ kit \in {"installed", "missing"} /\ request \in Requests
  /\ \/ stage = "request" /\ sent = <<>> /\ shown = "nothing" /\ evidence = NoText
     \/ stage = "blocked" /\ sent = <<>> /\ shown = "block_reason" /\ evidence = NoText /\ \E f \in Forms : Planned(f).blocked
     \/ stage = "planned" /\ SentFirst /\ shown = "nothing" /\ evidence = NoText
     \/ stage = "executed" /\ SentFirst /\ shown = "nothing" /\ evidence \in Evidence
     \/ stage = "done" /\ SentFirst /\ shown = "block_reason" /\ evidence \in Evidence /\ \E g \in Forms : Summed(g).blocked
     \/ stage = "done" /\ SentBoth /\ shown \in {"answer", "fallback"} /\ evidence \in Evidence

\* At first nothing was sent.
LEMMA GuardInitInv == SafetyInit => GuardInv
  BY DEF SafetyInit, GuardInv

\* The plan depends on the settings and the request.
LEMMA PlansStay ==
  ASSUME UNCHANGED <<policy, kit, request>>
  PROVE  \A f \in Forms : Planned(f)' = Planned(f)
  BY DEF Planned, _guard_before_llm, guard_messages, GuardedMessage, guard_text, clean_text, _decide_block

\* The summary depends on the evidence as well.
LEMMA SummariesStay ==
  ASSUME UNCHANGED <<policy, kit, request, evidence>>
  PROVE  \A f \in Forms : Summed(f)' = Summed(f)
  BY DEF Summed, _guard_before_llm, guard_messages, GuardedMessage, guard_text, clean_text, _decide_block

\* The invariant of the guard is inductive.
LEMMA GuardInvNext == GuardInv /\ [SafetyNext]_safetyVars => GuardInv'
  <1> SUFFICES ASSUME GuardInv, [SafetyNext]_safetyVars PROVE GuardInv'
    OBVIOUS
  <1>1. CASE make_plan
    <2>1. PICK f \in Forms : IF Planned(f).blocked
             THEN stage' = "blocked" /\ shown' = "block_reason" /\ UNCHANGED sent
             ELSE stage' = "planned" /\ UNCHANGED shown /\ sent' = Append(sent, Planned(f).out)
      BY <1>1 DEF make_plan, Planned
    <2>2. stage = "request" /\ sent = <<>> /\ UNCHANGED <<policy, kit, request, evidence>>
      BY <1>1 DEF make_plan, GuardInv
    <2>3. \A g \in Forms : Planned(g)' = Planned(g)
      BY <2>2, PlansStay
    <2>4. CASE Planned(f).blocked
      BY <2>1, <2>2, <2>3, <2>4 DEF GuardInv
    <2>5. CASE ~Planned(f).blocked
      <3>1. sent' = <<Planned(f).out>>
        BY <2>1, <2>2, <2>5
      <3>2. SentFirst'
        BY <2>3, <2>5, <3>1 DEF SentFirst
      <3> QED
        BY <2>1, <2>2, <2>5, <3>2 DEF GuardInv
    <2> QED
      BY <2>4, <2>5
  <1>2. CASE CollectEvidence
    <2>1. stage = "planned" /\ stage' = "executed" /\ evidence' \in Evidence /\ UNCHANGED <<policy, kit, request, sent, shown>>
      BY <1>2 DEF CollectEvidence
    <2>2. SentFirst'
      BY <2>1, PlansStay DEF GuardInv, SentFirst
    <2> QED
      BY <2>1, <2>2 DEF GuardInv
  <1>3. CASE summarize
    <2>1. PICK g \in Forms, fails \in BOOLEAN :
             IF Summed(g).blocked THEN shown' = "block_reason" /\ UNCHANGED sent
             ELSE /\ shown' = (IF fails THEN "fallback" ELSE "answer")
                  /\ sent' = Append(sent, Summed(g).out)
      BY <1>3 DEF summarize, Summed
    <2>2. stage = "executed" /\ stage' = "done" /\ UNCHANGED <<policy, kit, request, evidence>>
      BY <1>3 DEF summarize
    <2>3. /\ \A f \in Forms : Planned(f)' = Planned(f)
          /\ \A f \in Forms : Summed(f)' = Summed(f)
      BY <2>2, PlansStay, SummariesStay
    <2>4. SentFirst /\ evidence \in Evidence
      BY <2>2 DEF GuardInv
    <2>5. CASE Summed(g).blocked
      BY <2>1, <2>2, <2>3, <2>4, <2>5 DEF GuardInv, SentFirst
    <2>6. CASE ~Summed(g).blocked
      <3>1. PICK f \in Forms : sent = <<Planned(f).out>> /\ ~Planned(f).blocked
        BY <2>4 DEF SentFirst
      <3>2. sent' = <<Planned(f).out, Summed(g).out>>
        BY <2>1, <2>6, <3>1
      <3>3. SentBoth'
        BY <2>3, <2>6, <3>1, <3>2 DEF SentBoth
      <3> QED
        BY <2>1, <2>2, <2>4, <2>6, <3>3 DEF GuardInv
    <2> QED
      BY <2>5, <2>6
  <1>4. CASE ScanTraffic \/ UNCHANGED safetyVars
    <2>1. UNCHANGED <<policy, kit, stage, request, evidence, sent, shown>>
      BY <1>4 DEF ScanTraffic, safetyVars, guardVars
    <2>2. /\ \A f \in Forms : Planned(f)' = Planned(f)
          /\ \A f \in Forms : Summed(f)' = Summed(f)
      BY <2>1, PlansStay, SummariesStay
    <2> QED
      BY <2>1, <2>2 DEF GuardInv, SentFirst, SentBoth
  <1> QED
    BY <1>1, <1>2, <1>3, <1>4 DEF SafetyNext, GuardNext

\* Every text is one the settings allow.
LEMMA TextsOK == GuardInv => TextOK(request) /\ TextOK(evidence) /\ kit \in {"installed", "missing"}
  BY SafetyAssumption, NothingFound DEF GuardInv

\* Only tails of what was found reach the model, but for messages that cannot be rebuilt;
\* without the guard everything does.
LEMMA TailsOnly == GuardInv => OnlyTailsReachTheModel
  <1> DEFINE Good(msg, k) == IF Guarding THEN Shows(msg, Said(k)) ELSE msg.text = Said(k)
  <1>1. SUFFICES ASSUME GuardInv, NEW i \in DOMAIN sent, NEW k \in DOMAIN sent[i] PROVE Good(sent[i][k], k)
    BY DEF OnlyTailsReachTheModel, OnlyTails, Shows
  <1>2. TextOK(request) /\ TextOK(evidence) /\ kit \in {"installed", "missing"}
    BY <1>1, TextsOK
  <1>3. \A f : Good(System(f), 1)
    BY NothingFound DEF OnlyTails, Shows, Said, System
  <1>4. \A f : /\ Guarding => Good(GuardedMessage(User(f, request)), 2)
               /\ ~Guarding => Good(User(f, request), 2)
    BY <1>2, MessageGuarded DEF Said, User
  <1>5. \A f : /\ Guarding => Good(GuardedMessage(User(f, evidence)), 3)
               /\ ~Guarding => Good(User(f, evidence), 3)
    BY <1>2, MessageGuarded DEF Said, User
  <1>6. \A f : \A n \in DOMAIN Planned(f).out : Good(Planned(f).out[n], n)
    <2> TAKE f
    <2>1. /\ Guarding => Planned(f).out = <<System(f), GuardedMessage(User(f, request))>>
          /\ ~Guarding => Planned(f).out = <<System(f), User(f, request)>>
      BY <1>2, PlannedIs
    <2> HIDE DEF Good
    <2> QED
      BY <1>3, <1>4, <2>1
  <1>7. \A f : \A n \in DOMAIN Summed(f).out : Good(Summed(f).out[n], n)
    <2> TAKE f
    <2>1. /\ Guarding => Summed(f).out = <<System(f), GuardedMessage(User(f, request)), GuardedMessage(User(f, evidence))>>
          /\ ~Guarding => Summed(f).out = <<System(f), User(f, request), User(f, evidence)>>
      BY <1>2, SummedIs
    <2> HIDE DEF Good
    <2> QED
      BY <1>3, <1>4, <1>5, <2>1
  <1>8. \/ sent = <<>>
        \/ \E f : sent = <<Planned(f).out>>
        \/ \E f, g : sent = <<Planned(f).out, Summed(g).out>>
    BY <1>1 DEF GuardInv, SentFirst, SentBoth
  <1> HIDE DEF Good
  <1> QED
    BY <1>1, <1>6, <1>7, <1>8

\* A request is blocked exactly when something in it is too severe.
LEMMA BlockedRightly == GuardInv => BlockedIffTooSevere
  <1> SUFFICES ASSUME GuardInv
               PROVE  /\ Guarding /\ sent # <<>> => ~Severe(request)
                      /\ Guarding /\ Len(sent) = 2 => ~Severe(evidence)
                      /\ shown = "block_reason" => Guarding /\ (Severe(request) \/ Severe(evidence))
    BY DEF BlockedIffTooSevere, Severe
  <1>1. TextOK(request) /\ TextOK(evidence) /\ kit \in {"installed", "missing"}
    BY TextsOK
  <1>2. \/ sent = <<>> /\ (shown = "block_reason" => \E f \in Forms : Planned(f).blocked)
        \/ SentFirst /\ (shown = "block_reason" => \E g \in Forms : Summed(g).blocked)
        \/ SentBoth /\ shown # "block_reason"
    BY DEF GuardInv
  <1>3. shown = "block_reason" => Guarding /\ (Severe(request) \/ Severe(evidence))
    BY <1>1, <1>2, PlannedIs, SummedIs
  <1>4. sent # <<>> => \E f \in Forms : ~Planned(f).blocked
    BY <1>2 DEF SentFirst, SentBoth
  <1>5. Len(sent) = 2 => \E g \in Forms : ~Summed(g).blocked
    BY <1>2 DEF SentFirst, SentBoth
  <1> QED
    BY <1>1, <1>3, <1>4, <1>5, PlannedIs, SummedIs

-----------------------------------------------------------------------------
(* The scan.                                                               *)

\* The image of a finite set is finite.
LEMMA ImageFinite ==
  ASSUME NEW S, IsFiniteSet(S), NEW f, DOMAIN f = S
  PROVE  IsFiniteSet({f[x] : x \in S})
  <1> DEFINE T == {f[x] : x \in S}
             g == [x \in S |-> f[x]]
  <1>1. g \in Surjection(S, T)
    BY DEF Surjection
  <1> QED
    BY <1>1, FS_Surjection

\* A union of finitely many finite sets is finite.
LEMMA UnionFinite ==
  ASSUME NEW S, IsFiniteSet(S), NEW f, DOMAIN f = S, \A x \in S : IsFiniteSet(f[x])
  PROVE  IsFiniteSet(UNION {f[x] : x \in S})
  <1> DEFINE T == {f[x] : x \in S}
  <1>1. IsFiniteSet(T)
    BY ImageFinite
  <1>2. \A t \in T : IsFiniteSet(t)
    OBVIOUS
  <1> HIDE DEF T
  <1>3. IsFiniteSet(UNION T)
    BY <1>1, <1>2, FS_UNION
  <1> QED
    BY <1>3 DEF T

\* Two sets in a bijection have as many elements.
LEMMA AsMany ==
  ASSUME NEW S, IsFiniteSet(S), NEW T, NEW f \in [S -> T],
         \A x, y \in S : f[x] = f[y] => x = y, \A t \in T : \E x \in S : f[x] = t
  PROVE  Cardinality(T) = Cardinality(S)
  <1>1. f \in Bijection(S, T)
    BY DEF Bijection, Injection, Surjection, IsInjective
  <1>2. ExistsBijection(S, T)
    BY <1>1 DEF ExistsBijection
  <1> QED
    BY <1>2, FS_Bijection

\* What there is to scan in a snapshot, and what a scan finds there.
Enabled(t) == t \in DOMAIN Registered /\ Registered[t].enabled
Exists(s, t, i, c) == /\ Registered[t].enabled /\ c \in Registered[t].columns
                      /\ t \in DOMAIN s /\ i \in DOMAIN s[t] /\ c \in DOMAIN s[t][i].values
There(s, t, i, c) == t \in DOMAIN Registered /\ Exists(s, t, i, c)
Pii(s, t, i, c) == scan_pii(s[t][i].values[c].text)
Finding(s, t, i, c, m) == [table |-> t, row |-> i, request |-> s[t][i].request, column |-> c, match |-> m]
IsFound(s, f) == \E t, i, c : There(s, t, i, c) /\ \E m \in Pii(s, t, i, c) : f = Finding(s, t, i, c, m)

\* One row's findings, with an absent column holding nothing.
LEMMA RowFindings ==
  ASSUME NEW row, NEW i, NEW columns, NEW t, NEW f
  PROVE  f \in scan_row(row, i, columns, t) <=>
           \E c \in columns : /\ c \in DOMAIN row.values
                              /\ \E m \in scan_pii(row.values[c].text) :
                                   f = [table |-> t, row |-> i, request |-> row.request, column |-> c, match |-> m]
  <1>1. \A c : scan_pii(Column(row, c)) = IF c \in DOMAIN row.values THEN scan_pii(row.values[c].text) ELSE {}
    BY DEF Column, scan_pii, NoText
  <1> QED
    BY <1>1 DEF scan_row

Targets == {t \in DOMAIN Registered : Registered[t].enabled}
RowsOf(s, t) == IF t \in DOMAIN s THEN s[t] ELSE <<>>
FoundIn(s) == UNION {scan_rows(RowsOf(s, t), t, TextColumns(RowsOf(s, t), t)) : t \in Targets}

\* The findings of a table, place by place.
LEMMA TableFindings ==
  ASSUME NEW s, NEW t, t \in DOMAIN s, Enabled(t), NEW f
  PROVE  f \in scan_rows(s[t], t, TextColumns(s[t], t)) <=>
           \E i, c : There(s, t, i, c) /\ \E m \in Pii(s, t, i, c) : f = Finding(s, t, i, c, m)
  BY RowFindings DEF scan_rows, TextColumns, There, Exists, Enabled, Pii, Finding

\* No rows, no findings.
LEMMA NoRows == ASSUME NEW t, NEW f PROVE f \notin scan_rows(<<>>, t, TextColumns(<<>>, t))
  BY DEF scan_rows

\* What the scan of all tables finds.
LEMMA FoundIs ==
  ASSUME NEW s, NEW f
  PROVE  f \in FoundIn(s) <=> IsFound(s, f)
  <1>1. ASSUME NEW t \in Targets
        PROVE  f \in scan_rows(RowsOf(s, t), t, TextColumns(RowsOf(s, t), t)) <=>
                 \E i, c : There(s, t, i, c) /\ \E m \in Pii(s, t, i, c) : f = Finding(s, t, i, c, m)
    <2>1. CASE t \in DOMAIN s
      BY <2>1, TableFindings DEF Targets, Enabled, RowsOf
    <2>2. CASE t \notin DOMAIN s
      BY <2>2, NoRows DEF RowsOf, There, Exists
    <2> QED
      BY <2>1, <2>2
  <1>2. \A t, i, c : There(s, t, i, c) => t \in Targets
    BY DEF There, Exists, Enabled, Targets
  <1> QED
    BY <1>1, <1>2 DEF FoundIn, IsFound

\* The other way to scan finds the same in the enabled tables.
LEMMA AdHoc ==
  ASSUME NEW s, NEW f
  PROVE  f \in scan_records(s) /\ Enabled(f.table) <=> IsFound(s, f)
  <1> DEFINE columns(t) == IF Enabled(t) THEN TextColumns(s[t], t) ELSE StringColumns(s[t])
  <1>1. f \in scan_records(s) <=> \E t \in DOMAIN s : f \in scan_rows(s[t], t, columns(t))
    BY DEF scan_records, Enabled
  <1>2. \A t, i, c, m : Finding(s, t, i, c, m).table = t
    BY DEF Finding
  <1>3. ASSUME NEW t \in DOMAIN s, f \in scan_rows(s[t], t, columns(t)) PROVE f.table = t
    BY <1>3, RowFindings DEF scan_rows
  <1>4. ASSUME NEW t \in DOMAIN s, Enabled(t)
        PROVE  f \in scan_rows(s[t], t, columns(t)) <=>
                 \E i, c : There(s, t, i, c) /\ \E m \in Pii(s, t, i, c) : f = Finding(s, t, i, c, m)
    BY <1>4, TableFindings
  <1>5. \A t, i, c : There(s, t, i, c) => t \in DOMAIN s /\ Enabled(t)
    BY DEF There, Exists, Enabled
  <1> HIDE DEF columns
  <1> QED
    BY <1>1, <1>2, <1>3, <1>4, <1>5 DEF IsFound

-----------------------------------------------------------------------------
(* What the alert says.                                                    *)
Actionable(s) == {f \in FoundIn(s) : Severity[f.match.kind] >= AlertAt}
Places(s) == (DOMAIN Registered) \X (UNION {DOMAIN s[t] : t \in DOMAIN s})
                                 \X (UNION {Registered[t].columns : t \in DOMAIN Registered})
Hits(s, x) == {m \in s[x[1]][x[2]].values[x[3]].text.matches :
                 m.kind \notin Secrets /\ m.valid /\ Severity[m.kind] >= AlertAt}
Loud(s) == {x \in {y \in Places(s) : Exists(s, y[1], y[2], y[3])} : Hits(s, x) # {}}
Pairs(s) == UNION {{x} \X Hits(s, x) : x \in Loud(s)}
FindingOf(s, e) == Finding(s, e[1][1], e[1][2], e[1][3], e[2])

\* The pairs of a place and a match there.
LEMMA InPairs ==
  ASSUME NEW s, NEW e
  PROVE  e \in Pairs(s) <=> \E x \in Loud(s) : \E m \in Hits(s, x) : e = <<x, m>>
  BY DEF Pairs

\* A place is loud when a match there is severe.
LEMMA InLoud ==
  ASSUME NEW s, NEW t, NEW i, NEW c
  PROVE  <<t, i, c>> \in Loud(s) <=> There(s, t, i, c) /\ Hits(s, <<t, i, c>>) # {}
  <1>1. There(s, t, i, c) => <<t, i, c>> \in Places(s)
    BY DEF There, Exists, Enabled, Places
  <1> QED
    BY <1>1 DEF Loud, Places, There

\* A loud place is a row and a column that are there.
LEMMA LoudIs ==
  ASSUME NEW s, NEW x \in Loud(s)
  PROVE  x = <<x[1], x[2], x[3]>> /\ There(s, x[1], x[2], x[3]) /\ Hits(s, x) # {}
  BY DEF Loud, Places, There

\* The severe matches of a place.
LEMMA HitsAre ==
  ASSUME NEW s, NEW t, NEW i, NEW c, NEW m
  PROVE  m \in Hits(s, <<t, i, c>>) <=> m \in Pii(s, t, i, c) /\ Severity[m.kind] >= AlertAt
  BY DEF Hits, Pii, scan_pii

\* Findings that call for an alert are those of the pairs.
LEMMA ActionableIs ==
  ASSUME NEW s, NEW f
  PROVE  f \in Actionable(s) <=> \E e \in Pairs(s) : f = FindingOf(s, e)
  <1>1. ASSUME NEW e \in Pairs(s) PROVE FindingOf(s, e) \in Actionable(s)
    <2>1. PICK x \in Loud(s) : \E m \in Hits(s, x) : e = <<x, m>>
      BY InPairs
    <2> PICK m \in Hits(s, x) : e = <<x, m>>
      BY <2>1
    <2>2. x = <<x[1], x[2], x[3]>> /\ There(s, x[1], x[2], x[3])
      BY LoudIs
    <2>3. m \in Pii(s, x[1], x[2], x[3]) /\ Severity[m.kind] >= AlertAt
      BY <2>2, HitsAre
    <2>4. FindingOf(s, e) = Finding(s, x[1], x[2], x[3], m) /\ FindingOf(s, e).match = m
      BY <2>1 DEF FindingOf, Finding
    <2> QED
      BY <2>2, <2>3, <2>4, FoundIs DEF Actionable, IsFound
  <1>2. ASSUME f \in Actionable(s) PROVE \E e \in Pairs(s) : f = FindingOf(s, e)
    <2>1. PICK t, i, c : There(s, t, i, c) /\ \E m \in Pii(s, t, i, c) : f = Finding(s, t, i, c, m)
      BY <1>2, FoundIs DEF Actionable, IsFound
    <2>2. PICK m \in Pii(s, t, i, c) : f = Finding(s, t, i, c, m)
      BY <2>1
    <2>3. Severity[m.kind] >= AlertAt
      BY <1>2, <2>2 DEF Actionable, Finding
    <2>4. m \in Hits(s, <<t, i, c>>) /\ <<t, i, c>> \in Loud(s)
      BY <2>1, <2>3, HitsAre, InLoud
    <2>5. <<<<t, i, c>>, m>> \in Pairs(s)
      BY <2>4, InPairs
    <2> QED
      BY <2>2, <2>5 DEF FindingOf
  <1> QED
    BY <1>1, <1>2

\* There are finitely many.
LEMMA PairsFinite ==
  ASSUME NEW s \in Snapshots
  PROVE  IsFiniteSet(Pairs(s))
  <1>1. SnapshotOK(s) /\ IsFiniteSet(DOMAIN Registered) /\ \A t \in DOMAIN Registered : IsFiniteSet(Registered[t].columns)
    BY SafetyAssumption
  <1>2. IsFiniteSet(UNION {DOMAIN s[t] : t \in DOMAIN s})
    <2> DEFINE f == [t \in DOMAIN s |-> DOMAIN s[t]]
    <2>1. IsFiniteSet(UNION {f[t] : t \in DOMAIN s})
      <3>1. DOMAIN f = DOMAIN s /\ \A t \in DOMAIN s : IsFiniteSet(f[t])
        BY <1>1 DEF SnapshotOK
      <3> HIDE DEF f
      <3> QED
        BY <1>1, <3>1, UnionFinite DEF SnapshotOK
    <2> QED
      BY <2>1
  <1>3. IsFiniteSet(UNION {Registered[t].columns : t \in DOMAIN Registered})
    <2> DEFINE f == [t \in DOMAIN Registered |-> Registered[t].columns]
    <2>1. IsFiniteSet(UNION {f[t] : t \in DOMAIN Registered})
      <3>1. DOMAIN f = DOMAIN Registered /\ \A t \in DOMAIN Registered : IsFiniteSet(f[t])
        BY <1>1
      <3> HIDE DEF f
      <3> QED
        BY <1>1, <3>1, UnionFinite
    <2> QED
      BY <2>1
  <1>4. IsFiniteSet(Loud(s))
    <2> DEFINE A == DOMAIN Registered
               B == UNION {DOMAIN s[t] : t \in DOMAIN s}
               C == UNION {Registered[t].columns : t \in DOMAIN Registered}
    <2>1. IsFiniteSet((A \X B) \X C)
      <3> HIDE DEF A, B, C
      <3> QED
        BY <1>1, <1>2, <1>3, FS_Product DEF A, B, C
    <2> DEFINE g == [x \in Loud(s) |-> <<<<x[1], x[2]>>, x[3]>>]
    <2>2. g \in Injection(Loud(s), (A \X B) \X C)
      BY DEF Injection, IsInjective, Loud, Places
    <2> QED
      BY <2>1, <2>2, FS_Injection
  <1>5. \A x \in Loud(s) : IsFiniteSet({x} \X Hits(s, x))
    <2> TAKE x \in Loud(s)
    <2>1. There(s, x[1], x[2], x[3])
      BY LoudIs
    <2>2. IsFiniteSet(s[x[1]][x[2]].values[x[3]].text.matches)
      BY <1>1, <2>1 DEF There, Exists, SnapshotOK, TextOK
    <2>3. Hits(s, x) \in SUBSET s[x[1]][x[2]].values[x[3]].text.matches
      BY SMTT(40) DEF Hits
    <2>4. IsFiniteSet(Hits(s, x)) /\ IsFiniteSet({x})
      BY <2>2, <2>3, FS_Subset, FS_Singleton
    <2> QED
      BY <2>4, FS_Product
  <1> DEFINE h == [x \in Loud(s) |-> {x} \X Hits(s, x)]
  <1>6. DOMAIN h = Loud(s) /\ \A x \in Loud(s) : IsFiniteSet(h[x]) /\ h[x] = {x} \X Hits(s, x)
    BY <1>5
  <1>7. Pairs(s) = UNION {h[x] : x \in Loud(s)}
    BY <1>6 DEF Pairs
  <1> HIDE DEF h
  <1> QED
    BY <1>4, <1>6, <1>7, UnionFinite

\* As many findings as pairs: none is counted twice or lost.
LEMMA AsManyFindings ==
  ASSUME NEW s \in Snapshots
  PROVE  Cardinality(Actionable(s)) = Cardinality(Pairs(s))
  <1> DEFINE S == Pairs(s)
             T == Actionable(s)
             f == [e \in S |-> FindingOf(s, e)]
  <1>1. \A t \in T : \E e \in S : f[e] = t
    BY ActionableIs
  <1>2. f \in [S -> T]
    BY ActionableIs
  <1>3. ASSUME NEW e \in S, NEW d \in S, f[e] = f[d] PROVE e = d
    <2>1. PICK x \in Loud(s) : \E m \in Hits(s, x) : e = <<x, m>>
      BY InPairs
    <2>2. PICK y \in Loud(s) : \E n \in Hits(s, y) : d = <<y, n>>
      BY InPairs
    <2> PICK m \in Hits(s, x) : e = <<x, m>>
      BY <2>1
    <2> PICK n \in Hits(s, y) : d = <<y, n>>
      BY <2>2
    <2>3. Finding(s, x[1], x[2], x[3], m) = Finding(s, y[1], y[2], y[3], n)
      BY <1>3, <2>1, <2>2 DEF FindingOf
    <2>4. x[1] = y[1] /\ x[2] = y[2] /\ x[3] = y[3] /\ m = n
      BY <2>3 DEF Finding
    <2> QED
      BY <2>1, <2>2, <2>4, LoudIs
  <1>4. IsFiniteSet(S)
    BY PairsFinite
  <1> HIDE DEF S, T, f
  <1>5. Cardinality(T) = Cardinality(S)
    BY <1>1, <1>2, <1>3, <1>4, AsMany
  <1> QED
    BY <1>5 DEF S, T

\* What the alert says of a snapshot is what is there.
LEMMA ScanTold ==
  ASSUME NEW s \in Snapshots, NEW dry \in BOOLEAN, NEW webhook, report = scan_all_tables(s, dry, webhook)
  PROVE  AlertsWhatIsThere /\ ScansAgree
  <1>1. /\ report.snapshot = s /\ report.found = FoundIn(s) /\ report.adhoc = scan_records(s)
        /\ report.dry = dry /\ report.alert = emit_alerts(FoundIn(s), dry, webhook)
    BY DEF scan_all_tables, FoundIn, Targets, RowsOf
  <1>2. ScansAgree
    BY <1>1, FoundIs, AdHoc, SMTT(40) DEF ScansAgree, Enabled
  <1>3. AlertsWhatIsThere
    <2>1. Actionable(s) = {} <=> Loud(s) = {}
      <3>1. \A x \in Loud(s) : \E m \in Hits(s, x) : <<x, m>> \in Pairs(s)
        BY LoudIs, InPairs
      <3>2. \A e \in Pairs(s) : FindingOf(s, e) \in Actionable(s)
        BY ActionableIs
      <3>3. \A f \in Actionable(s) : \E e \in Pairs(s) : TRUE
        BY ActionableIs
      <3> QED
        BY <3>1, <3>2, <3>3, InPairs
    <2>2. {f.request : f \in Actionable(s)} = {s[x[1]][x[2]].request : x \in Loud(s)}
      <3>1. \A x \in Loud(s) : \A m : FindingOf(s, <<x, m>>).request = s[x[1]][x[2]].request
        BY DEF FindingOf, Finding
      <3>2. \A x \in Loud(s) : \E f \in Actionable(s) : f.request = s[x[1]][x[2]].request
        <4> TAKE x \in Loud(s)
        <4>1. PICK m \in Hits(s, x) : <<x, m>> \in Pairs(s)
          BY LoudIs, InPairs
        <4> QED
          BY <3>1, <4>1, ActionableIs
      <3>3. \A f \in Actionable(s) : \E x \in Loud(s) : f.request = s[x[1]][x[2]].request
        BY <3>1, InPairs, ActionableIs
      <3> QED
        BY <3>2, <3>3
    <2>3. Cardinality(Actionable(s)) = Cardinality(Pairs(s))
      BY AsManyFindings
    <2>4. Actionable(s) = {} => Pairs(s) = {}
      BY ActionableIs
    <2> DEFINE alert == report.alert
    <2>5. /\ alert.suppressed <=> Actionable(s) = {}
          /\ alert.details = findings_summary(Actionable(s))
          /\ alert.sent \/ alert.failed => ~dry /\ Actionable(s) # {}
      <3>1. CASE Actionable(s) = {}
        <4>1. alert = [suppressed |-> TRUE, logged |-> FALSE, sent |-> FALSE, failed |-> FALSE,
                       details |-> findings_summary({})]
          BY <1>1, <3>1 DEF emit_alerts, Actionable
        <4> QED
          BY <3>1, <4>1
      <3>2. CASE Actionable(s) # {}
        <4> DEFINE ok == ~dry /\ webhook = "ok"
                   fails == ~dry /\ webhook = "fails"
        <4>1. alert = [suppressed |-> FALSE, logged |-> TRUE, sent |-> ok, failed |-> fails,
                       details |-> findings_summary(Actionable(s))]
          BY <1>1, <3>2 DEF emit_alerts, Actionable
        <4>2. ok \in BOOLEAN /\ fails \in BOOLEAN /\ (ok \/ fails => ~dry)
          OBVIOUS
        <4> HIDE DEF ok, fails
        <4>3. ~alert.suppressed /\ alert.details = findings_summary(Actionable(s))
          BY <4>1
        <4>4. alert.sent = ok /\ alert.failed = fails
          BY <4>1
        <4> QED
          BY <3>2, <4>2, <4>3, <4>4
      <3> QED
        BY <3>1, <3>2
    <2>6. /\ alert.suppressed <=> Loud(s) = {}
          /\ alert.details.total = Cardinality(Pairs(s))
          /\ alert.details.requests = {s[x[1]][x[2]].request : x \in Loud(s)} \ {0}
          /\ alert.sent \/ alert.failed => ~report.dry /\ Loud(s) # {}
      <3>1. alert.details.total = Cardinality(Actionable(s))
        BY <2>5 DEF findings_summary
      <3>2. alert.details.requests = {f.request : f \in Actionable(s)} \ {0}
        BY <2>5 DEF findings_summary
      <3> QED
        BY <1>1, <2>1, <2>2, <2>3, <2>5, <3>1, <3>2
    <2> DEFINE t == report.snapshot
    <2>7. /\ alert.suppressed <=> Loud(t) = {}
          /\ alert.details.total = Cardinality(Pairs(t))
          /\ alert.details.requests = {t[x[1]][x[2]].request : x \in Loud(t)} \ {0}
          /\ alert.sent \/ alert.failed => ~report.dry /\ Loud(t) # {}
      BY <1>1, <2>6
    <2> QED
      BY <2>7 DEF AlertsWhatIsThere, Loud, Pairs, Hits, Places, Exists
  <1> QED
    BY <1>2, <1>3

ReportInv == report = NoReport \/ \E s \in Snapshots, dry \in BOOLEAN, webhook \in {"none", "ok", "fails"} :
                                    report = scan_all_tables(s, dry, webhook)

\* The report is kept as the scan made it.
LEMMA ReportInvNext == ReportInv /\ [SafetyNext]_safetyVars => ReportInv'
  BY DEF ReportInv, SafetyNext, GuardNext, make_plan, CollectEvidence, summarize, ScanTraffic, safetyVars

\* Types (SafetyTypeOK): the guard sends at most the two calls of a run, and ends in one
\* of its outcomes.
THEOREM SafetyTypes == SafetySpec => []SafetyTypeOK
  <1>1. GuardInv => Len(sent) <= 2
    <2>1. SentFirst => Len(sent) <= 2
      BY DEF SentFirst
    <2>2. SentBoth => Len(sent) <= 2
      BY DEF SentBoth
    <2>3. sent = <<>> => Len(sent) <= 2
      OBVIOUS
    <2> QED
      BY <2>1, <2>2, <2>3 DEF GuardInv
  <1>2. ReportInv => report.ran \in BOOLEAN
    <2>1. \A s, dry, webhook : scan_all_tables(s, dry, webhook).ran = TRUE
      BY DEF scan_all_tables
    <2>2. NoReport.ran = FALSE
      BY DEF NoReport
    <2> QED
      BY <2>1, <2>2 DEF ReportInv
  <1>3. GuardInv /\ ReportInv => SafetyTypeOK
    BY <1>1, <1>2 DEF GuardInv, SafetyTypeOK
  <1>4. SafetyInit => ReportInv
    BY DEF SafetyInit, ReportInv
  <1> QED
    BY <1>3, <1>4, GuardInitInv, GuardInvNext, ReportInvNext, PTL DEF SafetySpec

\* guard.py, cleaner.py, llm.py: for every policy, text and set of matches.  With the kit
\* on the path and the guard on, a message that can be rebuilt shows only tails of what
\* was found in it, one that cannot goes out as it came, and a request or its evidence
\* is blocked exactly when it has a secret, or personal data that is both redacted and
\* blocked, as severe as the policy says.  Otherwise everything goes out as it came.
THEOREM GuardStops == SafetySpec => []GuardStopsWhatItFinds
  <1>1. GuardInv => GuardStopsWhatItFinds
    BY TailsOnly, BlockedRightly DEF GuardStopsWhatItFinds
  <1> QED
    BY <1>1, GuardInitInv, GuardInvNext, PTL DEF SafetySpec

\* scanner.py, alerter.py: the alert of a scan tells of every severe match in every
\* registered column, once each, and nothing else, for every snapshot of the tables.
THEOREM ScanFinds == SafetySpec => []ScanFindsWhatIsThere
  <1>1. ReportInv => ScanFindsWhatIsThere
    <2> SUFFICES ASSUME ReportInv PROVE AlertsWhatIsThere /\ ScansAgree
      BY SMTT(40) DEF ScanFindsWhatIsThere
    <2>1. CASE report = NoReport
      <3>1. ~report.ran
        BY <2>1 DEF NoReport
      <3> QED
        BY <3>1 DEF AlertsWhatIsThere, ScansAgree
    <2> QED
      BY <2>1, ScanTold DEF ReportInv
  <1>2. SafetyInit => ReportInv
    BY DEF SafetyInit, ReportInv
  <1> QED
    BY <1>1, <1>2, ReportInvNext, PTL DEF SafetySpec

(***************************************************************************)
(* The Drive server.                                                       *)
(***************************************************************************)

(***************************************************************************)
(* What the Docs operations make of a document.                            *)
(***************************************************************************)
\* The function FlattenSeq picks exists for a sequence of any length.
LEMMA FlattenFunction ==
  ASSUME NEW S, NEW seqs \in Seq(Seq(S)), NEW m \in Nat \ {0}, m <= Len(seqs)
  PROVE  \E f : f = [i \in 1 .. m |-> IF i = 1 THEN seqs[i] ELSE f[i - 1] \o seqs[i]]
  <1> DEFINE Is(f, n) == f = [i \in 1 .. n |-> IF i = 1 THEN seqs[i] ELSE f[i - 1] \o seqs[i]]
             Bad == {n \in Nat \ {0} : n <= Len(seqs) /\ ~\E f : Is(f, n)}
  <1>1. SUFFICES Bad = {}
    OBVIOUS
  <1>2. SUFFICES ASSUME Bad # {} PROVE FALSE
    OBVIOUS
  <1>3. PICK n \in Bad : \A k \in Bad : ~(k < n)
    <2>1. Bad \subseteq Nat
      OBVIOUS
    <2> HIDE DEF Bad
    <2> QED
      BY <1>2, <2>1, LeastSize
  <1>4. n \in Nat \ {0} /\ n <= Len(seqs) /\ ~\E f : Is(f, n)
    BY <1>3
  <1>5. CASE n = 1
    <2>1. Is([i \in 1 .. 1 |-> seqs[i]], 1)
      OBVIOUS
    <2> QED
      BY <1>4, <1>5, <2>1
  <1>6. CASE n # 1
    <2>1. n - 1 \in Nat \ {0} /\ n - 1 <= Len(seqs) /\ n - 1 < n
      BY <1>4, <1>6
    <2>2. PICK g : Is(g, n - 1)
      BY <1>3, <2>1
    <2> DEFINE h == [i \in 1 .. n |-> IF i = n THEN g[n - 1] \o seqs[n] ELSE g[i]]
    <2>3. \A i \in 1 .. n : h[i] = IF i = n THEN g[n - 1] \o seqs[n] ELSE g[i]
      OBVIOUS
    <2>4. \A i \in 1 .. n - 1 : g[i] = IF i = 1 THEN seqs[i] ELSE g[i - 1] \o seqs[i]
      BY <2>2
    <2>5. \A i \in 1 .. n : h[i] = IF i = 1 THEN seqs[i] ELSE h[i - 1] \o seqs[i]
      <3>1. TAKE i \in 1 .. n
      <3>2. CASE i = n
        <4>1. n \in 1 .. n /\ n - 1 \in 1 .. n /\ n - 1 # n
          BY <2>1, <1>4
        <4>2. h[n] = g[n - 1] \o seqs[n] /\ h[n - 1] = g[n - 1]
          BY <4>1, <2>3
        <4> HIDE DEF h
        <4> QED
          BY <4>2, <3>2, <1>6
      <3>3. CASE i # n /\ i = 1
        BY <3>3, <2>3, <2>4, <2>1
      <3>4. CASE i # n /\ i # 1
        <4>1. i \in 1 .. n - 1 /\ i - 1 \in 1 .. n - 1 /\ i - 1 # n /\ i - 1 \in 1 .. n
          BY <3>4, <1>4
        <4> QED
          BY <4>1, <3>4, <2>3, <2>4
      <3> QED
        BY <3>2, <3>3, <3>4
    <2>6. h = [i \in 1 .. n |-> h[i]]
      OBVIOUS
    <2> HIDE DEF h
    <2>7. Is(h, n)
      BY <2>5, <2>6
    <2> QED
      BY <1>4, <2>7
  <1> QED
    BY <1>5, <1>6

\* Sequences of characters put together are a sequence of characters.
LEMMA FlattenType ==
  ASSUME NEW S, NEW seqs \in Seq(Seq(S))
  PROVE  FlattenSeq(seqs) \in Seq(S)
  <1>1. CASE Len(seqs) = 0
    BY <1>1 DEF FlattenSeq
  <1>2. CASE Len(seqs) # 0
    <2> DEFINE Is(f) == f = [i \in 1 .. Len(seqs) |-> IF i = 1 THEN seqs[i] ELSE f[i - 1] \o seqs[i]]
               flat == CHOOSE f : Is(f)
               Bad == {n \in 1 .. Len(seqs) : flat[n] \notin Seq(S)}
    <2>1. FlattenSeq(seqs) = flat[Len(seqs)]
      BY <1>2 DEF FlattenSeq
    <2>2. Len(seqs) \in Nat \ {0} /\ \A i \in 1 .. Len(seqs) : seqs[i] \in Seq(S)
      BY <1>2
    <2>3. \E f : Is(f)
      <3>1. Len(seqs) <= Len(seqs)
        BY <2>2
      <3> QED
        BY <2>2, <3>1, FlattenFunction
    <2>4. Is(flat)
      BY <2>3
    <2> HIDE DEF flat
    <2>5. \A i \in 1 .. Len(seqs) : flat[i] = IF i = 1 THEN seqs[i] ELSE flat[i - 1] \o seqs[i]
      BY <2>4
    <2>6. Bad = {}
      <3>1. SUFFICES ASSUME Bad # {} PROVE FALSE
        OBVIOUS
      <3>2. Bad \subseteq Nat
        OBVIOUS
      <3>3. PICK n \in Bad : \A k \in Bad : ~(k < n)
        <4> HIDE DEF Bad
        <4> QED
          BY <3>1, <3>2, LeastSize
      <3>4. n \in 1 .. Len(seqs) /\ flat[n] \notin Seq(S)
        BY <3>3
      <3>5. n # 1
        BY <3>4, <2>5, <2>2
      <3>6. n - 1 \in 1 .. Len(seqs) /\ n - 1 < n
        BY <3>4, <3>5
      <3>7. flat[n - 1] \in Seq(S)
        BY <3>3, <3>6
      <3>8. flat[n] = flat[n - 1] \o seqs[n] /\ seqs[n] \in Seq(S)
        BY <3>4, <3>5, <2>5, <2>2
      <3>9. flat[n - 1] \o seqs[n] \in Seq(S)
        BY <3>7, <3>8, ConcatProperties
      <3> QED
        BY <3>4, <3>8, <3>9
    <2> QED
      BY <2>1, <2>2, <2>6, SMTT(40)
  <1> QED
    BY <1>1, <1>2

\* A text is a sequence of characters.
LEMMA TextIsSequence ==
  ASSUME NEW text \in Texts
  PROVE  text \in Seq(Words) /\ Len(text) \in Nat /\ (text # <<>> => Len(text) > 0)
  <1>1. CASE text = <<>>
    BY <1>1
  <1>2. CASE text # <<>>
    <2>1. PICK w \in Words : text = <<w>>
      BY <1>2 DEF Texts
    <2> QED
      BY <2>1
  <1> QED
    BY <1>1, <1>2

\* An insertion adds the text and loses nothing.
LEMMA InsertedType ==
  ASSUME NEW body \in Seq(Words), NEW text \in Texts, NEW index \in 1 .. Len(body) + 1
  PROVE  /\ Inserted(body, index, text) \in Seq(Words)
         /\ Len(Inserted(body, index, text)) = Len(body) + Len(text)
  <1> DEFINE front == SubSeq(body, 1, index - 1)
             rest == SubSeq(body, index, Len(body))
  <1>1. index \in Nat /\ Len(body) \in Nat /\ text \in Seq(Words) /\ Len(text) \in Nat
    BY TextIsSequence
  <1>2. front \in Seq(Words) /\ Len(front) = index - 1
    BY <1>1, SubSeqProperties
  <1>3. rest \in Seq(Words) /\ Len(rest) = Len(body) - index + 1
    BY <1>1, SubSeqProperties
  <1> HIDE DEF front, rest
  <1>4. front \o text \in Seq(Words) /\ Len(front \o text) = index - 1 + Len(text)
    BY <1>1, <1>2, ConcatProperties
  <1>5. (front \o text) \o rest \in Seq(Words)
        /\ Len((front \o text) \o rest) = index - 1 + Len(text) + (Len(body) - index + 1)
    <2> DEFINE head == front \o text
    <2>1. head \in Seq(Words) /\ Len(head) = index - 1 + Len(text)
      BY <1>4
    <2> HIDE DEF head
    <2>2. head \o rest \in Seq(Words) /\ Len(head \o rest) = Len(head) + Len(rest)
      BY <2>1, <1>3, ConcatProperties
    <2> QED
      BY <2>1, <2>2, <1>3 DEF head
  <1>6. index - 1 + Len(text) + (Len(body) - index + 1) = Len(body) + Len(text)
    BY <1>1
  <1> QED
    BY <1>5, <1>6 DEF Inserted, front, rest

\* A removal leaves a sequence of characters.
LEMMA RemovedType ==
  ASSUME NEW body \in Seq(Words), NEW i \in DOMAIN body
  PROVE  RemoveAt(body, i) \in Seq(Words)
  <1> DEFINE front == SubSeq(body, 1, i - 1)
             rest == SubSeq(body, i + 1, Len(body))
  <1>1. i \in 1 .. Len(body) /\ Len(body) \in Nat
    OBVIOUS
  <1>2. front \in Seq(Words) /\ rest \in Seq(Words)
    BY <1>1, SubSeqProperties
  <1> HIDE DEF front, rest
  <1>3. front \o rest \in Seq(Words)
    BY <1>2, ConcatProperties
  <1> QED
    BY <1>3 DEF RemoveAt, front, rest

\* A replacement leaves a sequence of characters.
LEMMA ReplacedType ==
  ASSUME NEW body \in Seq(Words), NEW find, NEW by \in Texts
  PROVE  Replaced(body, find, by) \in Seq(Words)
  <1> DEFINE pieces == [i \in DOMAIN body |-> IF <<body[i]>> = find THEN by ELSE <<body[i]>>]
  <1>1. DOMAIN body = 1 .. Len(body) /\ Len(body) \in Nat
    OBVIOUS
  <1>2. \A i \in DOMAIN body : body[i] \in Words /\ <<body[i]>> \in Seq(Words)
    OBVIOUS
  <1>3. \A i \in 1 .. Len(body) : pieces[i] \in Seq(Words)
    BY <1>1, <1>2, TextIsSequence
  <1>4. pieces \in [1 .. Len(body) -> Seq(Words)]
    BY <1>1, <1>3
  <1> HIDE DEF pieces
  <1>5. pieces \in Seq(Seq(Words))
    BY <1>1, <1>4
  <1> QED
    BY <1>5, FlattenType DEF Replaced, pieces

\* The end of a document lies after its last character.
LEMMA DocEnd ==
  ASSUME NEW body \in Seq(Words)
  PROVE  _doc_end_index(body) = Len(body) + 1
  BY DEF _doc_end_index

(***************************************************************************)
(* What a call that is underway carries, and what a server has cached.     *)
(***************************************************************************)
CacheInv == \A s \in Servers : cached[s].token # 0 => cached[s].expiry = cached[s].token - zone[s]

\* Its document exists, unless it is about to be created; the index is where the
\* document it read ended.
CallFits(c, n) ==
  /\ c.tool # "none" /\ c.step # "idle"
  /\ c.tool # "create_document" \/ c.step # "called" => c.doc \in 1 .. n
  /\ c.step = "created" => c.tool = "create_document" /\ c.text # <<>>
  /\ c.step = "read" => c.tool = "append_text" /\ c.index = Len(c.read) + 1
Underway == \A s \in Servers : toolCall[s] # NoDriveCall => CallFits(toolCall[s], Len(docs))

DriveInv == DriveTypeOK /\ CacheInv /\ Underway

Documents == [body : Seq(Words), text : Texts]
Ended == [call : DriveCalls, how : {"ok", "error"}, on : Nat, was : Seq(Words)]

\* The credential a server takes for a call: alive when the server is not behind UTC.
LEMMA TokenFits ==
  ASSUME DriveAssumption, DriveTypeOK, CacheInv, NEW s \in Servers, NEW bearer \in BOOLEAN
  PROVE  LET cred == _access_token(s, bearer)
         IN  /\ cred \in [as : {"none", "caller", "shared", "service"}, until : Nat]
             /\ mode = "secure" => cred.as \in {"none", "caller"}
             /\ cred.as # "none" /\ zone[s] >= 0 => cred.until > clock
  <1> DEFINE kept == cached[s]
             new == _service_account_token(s)
  <1>1. /\ clock \in Nat /\ zone[s] \in Int /\ Lifetime \in Nat \ {0}
        /\ kept.token \in Nat /\ kept.expiry \in Int
    <2>1. kept \in [token : 0 .. MaxDriveClock + Lifetime, expiry : Int]
      BY DEF DriveTypeOK
    <2>2. zone[s] \in Zones
      BY DEF DriveTypeOK
    <2> HIDE DEF kept
    <2>3. kept.token \in Nat /\ kept.expiry \in Int
      BY <2>1
    <2>4. clock \in Nat
      BY DEF DriveTypeOK, DriveAssumption
    <2> QED
      BY <2>2, <2>3, <2>4 DEF DriveAssumption
  <1>2. kept.token # 0 => kept.expiry = kept.token - zone[s]
    BY DEF CacheInv
  <1>3. Mint(s).token = clock + Lifetime
    BY DEF Mint
  <1>4. new.token \in Nat /\ (zone[s] >= 0 => new.token > clock)
    <2>1. CASE kept.token # 0 /\ clock < kept.expiry - 1
      <3>1. new = kept
        BY <2>1 DEF _service_account_token
      <3> HIDE DEF new, kept
      <3> QED
        BY <1>1, <1>2, <2>1, <3>1
    <2>2. CASE ~(kept.token # 0 /\ clock < kept.expiry - 1)
      <3>1. new = Mint(s)
        BY <2>2 DEF _service_account_token
      <3> HIDE DEF new, kept
      <3> QED
        BY <1>1, <1>3, <3>1
    <2> QED
      BY <2>1, <2>2
  <1> HIDE DEF new, kept
  <1>5. CASE mode = "secure"
    <2>1. _access_token(s, bearer) = [as |-> IF bearer THEN "caller" ELSE "none", until |-> clock + 1]
      BY <1>5 DEF _access_token
    <2> QED
      BY <2>1, <1>1
  <1>6. CASE mode # "secure" /\ sharedToken
    <2>1. _access_token(s, bearer) = [as |-> "shared", until |-> clock + 1]
      BY <1>6 DEF _access_token
    <2> QED
      BY <2>1, <1>1, <1>6
  <1>7. CASE mode # "secure" /\ ~sharedToken /\ mode = "service"
    <2>1. _access_token(s, bearer) = [as |-> "service", until |-> new.token]
      BY <1>7 DEF _access_token, new
    <2> QED
      BY <2>1, <1>4, <1>7
  <1>8. CASE mode # "secure" /\ ~sharedToken /\ mode # "service"
    <2>1. _access_token(s, bearer) = NoCred
      BY <1>8 DEF _access_token
    <2> QED
      BY <2>1, <1>8 DEF NoCred
  <1> QED
    BY <1>5, <1>6, <1>7, <1>8

\* What a server keeps expires, by its own clock, when the token does.
LEMMA CacheFits ==
  ASSUME DriveAssumption, DriveTypeOK, CacheInv, NEW s \in Servers, NEW cred,
         cached' = Minted(s, cred), UNCHANGED zone
  PROVE  /\ cached' \in [Servers -> [token : 0 .. MaxDriveClock + Lifetime, expiry : Int]]
         /\ CacheInv'
  <1> DEFINE new == _service_account_token(s)
  <1>1. /\ clock \in 1 .. MaxDriveClock /\ zone \in [Servers -> Int] /\ Lifetime \in Nat \ {0}
        /\ cached \in [Servers -> [token : 0 .. MaxDriveClock + Lifetime, expiry : Int]]
        /\ MaxDriveClock \in Nat
    BY DEF DriveAssumption, DriveTypeOK
  <1>2. CASE cached' = cached
    BY <1>1, <1>2 DEF CacheInv
  <1>3. CASE cached' # cached
    <2>1. cached' = [cached EXCEPT ![s] = new]
      BY <1>3 DEF Minted
    <2>2. new = cached[s] \/ new = Mint(s)
      BY DEF _service_account_token
    <2>3. new # cached[s]
      BY <1>1, <1>3, <2>1
    <2>4. new = [token |-> clock + Lifetime, expiry |-> clock + Lifetime - zone[s]]
      BY <2>2, <2>3 DEF Mint
    <2> HIDE DEF new
    <2>5. new \in [token : 0 .. MaxDriveClock + Lifetime, expiry : Int] /\ new.expiry = new.token - zone[s]
      BY <1>1, <2>4
    <2> QED
      BY <1>1, <2>1, <2>5 DEF CacheInv
  <1> QED
    BY <1>2, <1>3

(***************************************************************************)
(* What each step does, value by value.                                    *)
(***************************************************************************)
Started(s, c) ==
  /\ toolCall[s] = NoDriveCall /\ toolCall' = [toolCall EXCEPT ![s] = c] /\ lived' = lived
  /\ c \in DriveCalls /\ c # NoDriveCall /\ CallFits(c, Len(docs)) /\ c.step = "called" /\ c.doc \in 0 .. Len(docs)
  /\ mode = "secure" => c.cred.as = "caller"
  /\ zone[s] >= 0 => c.cred.until > c.at
Refused(c) ==
  /\ toolCall' = toolCall /\ c \in DriveCalls /\ c.cred.as = "none"
  /\ lived' = lived \cup {[call |-> c, how |-> "error", on |-> 0, was |-> <<>>]}
Asked(s) ==
  /\ \E c : Started(s, c) \/ Refused(c)
  /\ cached' \in [Servers -> [token : 0 .. MaxDriveClock + Lifetime, expiry : Int]] /\ CacheInv'
  /\ UNCHANGED <<mode, sharedToken, zone, docs, edits, clock>> /\ calls' \in 0 .. MaxDriveCalls

Still == UNCHANGED <<mode, sharedToken, zone, cached, calls, edits, clock>>
Writes(d, body) ==
  /\ d \in 1 .. Len(docs) /\ body \in Seq(Words) /\ docs' = [docs EXCEPT ![d].body = body]
Adds(text) == text \in Texts /\ docs' = Append(docs, [body |-> <<>>, text |-> text])

\* A call that is asked for starts, or is refused for want of a credential.
LEMMA CallsDo ==
  ASSUME DriveAssumption, DriveInv, NEW s \in Servers, NEW bearer \in BOOLEAN, NEW call \in DriveCalls,
         call.step = "called", call.tool # "none", call.doc \in 0 .. Len(docs),
         call.tool # "create_document" => call.doc \in 1 .. Len(docs),
         Calls(s, call, bearer)
  PROVE  Asked(s)
  <1> DEFINE cred == _access_token(s, bearer)
             c == [call EXCEPT !.cred = cred, !.at = clock]
  <1>1. /\ cred \in [as : {"none", "caller", "shared", "service"}, until : Nat]
        /\ mode = "secure" => cred.as \in {"none", "caller"}
        /\ cred.as # "none" /\ zone[s] >= 0 => cred.until > clock
    BY TokenFits DEF DriveInv
  <1>2. clock \in 0 .. MaxDriveClock /\ calls \in 0 .. MaxDriveCalls /\ MaxDriveCalls \in Nat
    BY DEF DriveInv, DriveTypeOK, DriveAssumption
  <1>3. cached' = Minted(s, cred) /\ UNCHANGED <<mode, sharedToken, zone, docs, edits, clock>>
        /\ calls < MaxDriveCalls /\ calls' = calls + 1 /\ toolCall[s] = NoDriveCall
    BY DEF Calls
  <1>4. /\ cached' \in [Servers -> [token : 0 .. MaxDriveClock + Lifetime, expiry : Int]]
        /\ CacheInv'
    BY <1>3, CacheFits DEF DriveInv
  <1>5. IF cred.as = "none"
          THEN toolCall' = toolCall /\ lived' = lived \cup {[call |-> c, how |-> "error", on |-> 0, was |-> <<>>]}
          ELSE toolCall' = [toolCall EXCEPT ![s] = c] /\ lived' = lived
    BY DEF Calls
  <1> HIDE DEF cred
  <1>6. /\ c \in DriveCalls /\ c.cred = cred /\ c.at = clock /\ c.tool = call.tool /\ c.step = "called"
        /\ c.doc = call.doc
    BY <1>1, <1>2 DEF DriveCalls
  <1> HIDE DEF c
  <1>7. c # NoDriveCall
    BY <1>6 DEF NoDriveCall
  <1>8. CallFits(c, Len(docs))
    BY <1>6 DEF CallFits
  <1>9. Started(s, c) \/ Refused(c)
    BY <1>1, <1>3, <1>5, <1>6, <1>7, <1>8 DEF Started, Refused
  <1>10. calls' \in 0 .. MaxDriveCalls
    BY <1>2, <1>3
  <1> QED
    BY <1>3, <1>4, <1>9, <1>10 DEF Asked

\* A new call of a tool is a call.
LEMMA CallTyped ==
  ASSUME DriveAssumption,
         NEW tool \in {"append_text", "insert_text", "replace_text", "create_document", "get_document"},
         NEW doc \in Nat, NEW text \in Texts, NEW by \in Texts, NEW index \in Nat
  PROVE  LET call == Call(tool, doc, text, by, index)
         IN  call \in DriveCalls /\ call.step = "called" /\ call.tool = tool /\ call.doc = doc
  <1>1. NoCred \in [as : {"none", "caller", "shared", "service"}, until : Nat] /\ 0 \in 0 .. MaxDriveClock
        /\ <<>> \in Seq(Words)
    BY DEF NoCred, DriveAssumption
  <1> QED
    BY <1>1 DEF DriveCalls, Call

\* Each of the five tools asks so.
LEMMA AskedSo ==
  ASSUME DriveAssumption, DriveInv, NEW s \in Servers, NEW bearer \in BOOLEAN,
         \/ AppendCalled(s, bearer) \/ InsertCalled(s, bearer) \/ ReplaceCalled(s, bearer)
         \/ CreateCalled(s, bearer) \/ ReadCalled(s, bearer)
  PROVE  Asked(s)
  <1>1. DOMAIN docs = 1 .. Len(docs) /\ Len(docs) \in Nat
    BY DEF DriveInv, DriveTypeOK
  <1>2. \A w \in Words : <<w>> \in Texts
    BY DEF Texts
  <1>3. <<>> \in Texts
    BY DEF Texts
  <1>4. ASSUME NEW tool \in {"append_text", "insert_text", "replace_text", "get_document"},
               NEW d \in DOMAIN docs, NEW text \in Texts, NEW by \in Texts, NEW i \in Nat,
               Calls(s, Call(tool, d, text, by, i), bearer)
        PROVE  Asked(s)
    <2> DEFINE call == Call(tool, d, text, by, i)
    <2>1. d \in Nat /\ d \in 1 .. Len(docs) /\ d \in 0 .. Len(docs)
      BY <1>1
    <2>2. call \in DriveCalls /\ call.step = "called" /\ call.tool = tool /\ call.doc = d
      <3>1. tool \in {"append_text", "insert_text", "replace_text", "create_document", "get_document"}
        OBVIOUS
      <3>2. NoCred \in [as : {"none", "caller", "shared", "service"}, until : Nat]
            /\ 0 \in 0 .. MaxDriveClock /\ <<>> \in Seq(Words)
        BY DEF NoCred, DriveAssumption
      <3> QED
        BY <2>1, <3>1, <3>2 DEF DriveCalls, Call
    <2>3. Calls(s, call, bearer)
      BY <1>4
    <2> HIDE DEF call
    <2> QED
      BY <2>1, <2>2, <2>3, CallsDo
  <1>5. CASE AppendCalled(s, bearer)
    BY <1>2, <1>3, <1>4, <1>5 DEF AppendCalled
  <1>6. CASE InsertCalled(s, bearer)
    <2>1. PICK d \in DOMAIN docs, w \in Words, i \in 0 .. 3 :
            Calls(s, Call("insert_text", d, <<w>>, <<>>, i), bearer)
      BY <1>6 DEF InsertCalled
    <2>2. i \in Nat
      OBVIOUS
    <2> QED
      BY <2>1, <2>2, <1>2, <1>3, <1>4
  <1>7. CASE ReplaceCalled(s, bearer)
    BY <1>2, <1>4, <1>7 DEF ReplaceCalled
  <1>8. CASE CreateCalled(s, bearer)
    <2>1. PICK text \in Texts : Calls(s, Call("create_document", 0, text, <<>>, 0), bearer)
      BY <1>8 DEF CreateCalled
    <2> DEFINE call == Call("create_document", 0, text, <<>>, 0)
    <2>2. call \in DriveCalls /\ call.step = "called" /\ call.tool = "create_document" /\ call.doc = 0
      BY <1>3, CallTyped
    <2>3. Calls(s, call, bearer)
      BY <2>1
    <2>4. 0 \in 0 .. Len(docs)
      BY <1>1
    <2> HIDE DEF call
    <2> QED
      BY <2>2, <2>3, <2>4, CallsDo
  <1>9. CASE ReadCalled(s, bearer)
    BY <1>3, <1>4, <1>9 DEF ReadCalled
  <1> QED
    BY <1>5, <1>6, <1>7, <1>8, <1>9

Finished(s, how, on, was) ==
  /\ toolCall[s] # NoDriveCall /\ CallFits(toolCall[s], Len(docs)) /\ toolCall[s] \in DriveCalls
  /\ toolCall' = [toolCall EXCEPT ![s] = NoDriveCall]
  /\ lived' = lived \cup {[call |-> toolCall[s], how |-> how, on |-> on, was |-> was]}
  /\ how \in {"ok", "error"} /\ was \in Seq(Words) /\ on \in 0 .. Len(docs')

Got(s) ==
  /\ toolCall[s].tool = "get_document" /\ docs' = docs /\ Still
  /\ Finished(s, "ok", toolCall[s].doc, docs[toolCall[s].doc].body)
ReadEnd(s) ==
  /\ toolCall[s].tool = "append_text" /\ docs' = docs /\ lived' = lived /\ Still /\ toolCall[s] # NoDriveCall
  /\ \E c \in DriveCalls :
       /\ toolCall' = [toolCall EXCEPT ![s] = c] /\ CallFits(c, Len(docs)) /\ c # NoDriveCall
       /\ c.tool = "append_text" /\ c.cred = toolCall[s].cred /\ c.at = toolCall[s].at /\ c.step = "read"
       /\ c.doc \in 0 .. Len(docs)

\* A body into which a text was inserted.
Longer(new, old, text) == Len(new) >= Len(old) /\ (text # <<>> => Len(new) > Len(old))
Put(s) ==
  /\ toolCall[s].tool \in {"append_text", "insert_text"}
  /\ toolCall[s].tool = "append_text" => toolCall[s].step = "read"
  /\ toolCall[s].doc \in 1 .. Len(docs) /\ toolCall[s].step # "created" /\ Still
  /\ \/ docs' = docs /\ Finished(s, "error", toolCall[s].doc, <<>>)
     \/ /\ \E body \in Seq(Words) : /\ Writes(toolCall[s].doc, body)
                                    /\ body = <<>> => docs[toolCall[s].doc].body = <<>>
                                    /\ Longer(body, docs[toolCall[s].doc].body, toolCall[s].text)
        /\ Finished(s, "ok", toolCall[s].doc, docs[toolCall[s].doc].body)
        /\ toolCall[s].tool = "append_text" => toolCall[s].index \in 1 .. Len(docs[toolCall[s].doc].body) + 1
Swapped(s) ==
  /\ toolCall[s].tool = "replace_text" /\ Still
  /\ \E body \in Seq(Words) : Writes(toolCall[s].doc, body)
  /\ Finished(s, "ok", toolCall[s].doc, docs[toolCall[s].doc].body)
Made(s) ==
  /\ toolCall[s].tool = "create_document" /\ toolCall[s].step = "called" /\ Still
  /\ Adds(toolCall[s].text) /\ toolCall[s] # NoDriveCall
  /\ \/ toolCall[s].text = <<>> /\ Finished(s, "ok", Len(docs) + 1, <<>>)
     \/ /\ toolCall[s].text # <<>> /\ lived' = lived
        /\ \E c \in DriveCalls :
             /\ toolCall' = [toolCall EXCEPT ![s] = c] /\ CallFits(c, Len(docs) + 1) /\ c # NoDriveCall
             /\ c.tool = "create_document" /\ c.cred = toolCall[s].cred /\ c.at = toolCall[s].at
             /\ c.step = "created" /\ c.doc = Len(docs) + 1
Filled(s) ==
  /\ toolCall[s].tool = "create_document" /\ toolCall[s].step = "created" /\ Still
  /\ \E body \in Seq(Words) : /\ Writes(toolCall[s].doc, body) /\ body # <<>>
                              /\ Longer(body, docs[toolCall[s].doc].body, toolCall[s].text)
  /\ Finished(s, "ok", toolCall[s].doc, docs[toolCall[s].doc].body)
Failed(s) ==
  /\ docs' = docs /\ Still /\ Finished(s, "error", toolCall[s].doc, <<>>)
Edited ==
  /\ \E d \in 1 .. Len(docs), body \in Seq(Words) : Writes(d, body)
  /\ edits' \in 1 .. MaxEdits
  /\ UNCHANGED <<mode, sharedToken, zone, cached, toolCall, lived, calls, clock>>
Apart ==
  /\ UNCHANGED <<mode, sharedToken, zone, docs, toolCall, lived, calls, edits>>
  /\ cached' \in [Servers -> [token : 0 .. MaxDriveClock + Lifetime, expiry : Int]] /\ CacheInv'
  /\ clock' \in 1 .. MaxDriveClock

DriveStep ==
  \/ \E s \in Servers : \/ Asked(s) \/ Got(s) \/ ReadEnd(s) \/ Put(s) \/ Swapped(s)
                        \/ Made(s) \/ Filled(s) \/ Failed(s)
  \/ Edited \/ Apart

\* What is known of a call underway.
LEMMA CallKnown ==
  ASSUME DriveInv, NEW s \in Servers, toolCall[s] # NoDriveCall
  PROVE  /\ toolCall[s] \in DriveCalls /\ CallFits(toolCall[s], Len(docs)) /\ toolCall[s].doc \in 0 .. Len(docs)
         /\ toolCall[s].text \in Texts /\ toolCall[s].by \in Texts /\ toolCall[s].index \in Nat
         /\ toolCall[s].read \in Seq(Words) /\ Len(docs) \in Nat
         /\ toolCall[s].doc \in 1 .. Len(docs) => docs[toolCall[s].doc].body \in Seq(Words)
  <1>1. toolCall[s] \in DriveCalls /\ toolCall[s].doc \in 0 .. Len(docs) /\ Len(docs) \in Nat
        /\ docs \in Seq([body : Seq(Words), text : Texts])
    BY DEF DriveInv, DriveTypeOK
  <1>2. \A d \in 1 .. Len(docs) : docs[d] \in [body : Seq(Words), text : Texts]
    BY <1>1, ElementOfSeq
  <1>3. \A d \in 1 .. Len(docs) : docs[d].body \in Seq(Words)
    BY <1>2
  <1> QED
    BY <1>1, <1>3 DEF DriveCalls, DriveInv, Underway

\* A document that someone edits stays a sequence of characters.
LEMMA EditType ==
  ASSUME DriveInv, NEW d \in 1 .. Len(docs), NEW i \in 1 .. Len(docs[d].body) + 1,
         \/ \E w \in Words : Update(d, Inserted(docs[d].body, i, <<w>>))
         \/ i \in DOMAIN docs[d].body /\ Update(d, RemoveAt(docs[d].body, i))
  PROVE  \E body \in Seq(Words) : Writes(d, body)
  <1>1. docs[d].body \in Seq(Words)
    <2>1. docs \in Seq([body : Seq(Words), text : Texts])
      BY DEF DriveInv, DriveTypeOK
    <2>2. docs[d] \in [body : Seq(Words), text : Texts]
      BY <2>1, ElementOfSeq
    <2> QED
      BY <2>2
  <1>2. CASE \E w \in Words : Update(d, Inserted(docs[d].body, i, <<w>>))
    <2>1. PICK w \in Words : Update(d, Inserted(docs[d].body, i, <<w>>))
      BY <1>2
    <2>2. <<w>> \in Texts
      BY DEF Texts
    <2>3. Inserted(docs[d].body, i, <<w>>) \in Seq(Words)
      BY <1>1, <2>2, InsertedType
    <2> QED
      BY <2>1, <2>3 DEF Update, Writes
  <1>3. CASE i \in DOMAIN docs[d].body /\ Update(d, RemoveAt(docs[d].body, i))
    <2>1. RemoveAt(docs[d].body, i) \in Seq(Words)
      BY <1>1, <1>3, RemovedType
    <2> QED
      BY <1>3, <2>1 DEF Update, Writes
  <1> QED
    BY <1>2, <1>3

\* Each action does what is said of it.
LEMMA StepsSaid ==
  ASSUME DriveAssumption, DriveInv, DriveNext
  PROVE  DriveStep
  <1>1. ASSUME NEW s \in Servers, get_document(s) PROVE Got(s)
    <2>1. toolCall[s] # NoDriveCall /\ toolCall[s].tool = "get_document" /\ toolCall[s].step = "called"
      BY <1>1 DEF get_document, Serving
    <2>2. toolCall[s] \in DriveCalls /\ CallFits(toolCall[s], Len(docs)) /\ toolCall[s].doc \in 1 .. Len(docs)
          /\ docs[toolCall[s].doc].body \in Seq(Words) /\ Len(docs) \in Nat
      BY <2>1, CallKnown DEF CallFits
    <2> QED
      BY <1>1, <2>1, <2>2 DEF get_document, Answers, Ends, Got, Finished, Still
  <1>2. ASSUME NEW s \in Servers, AppendReads(s) PROVE ReadEnd(s)
    <2>1. toolCall[s] # NoDriveCall /\ toolCall[s].tool = "append_text" /\ toolCall[s].step = "called"
      BY <1>2 DEF AppendReads, Serving
    <2>2. toolCall[s] \in DriveCalls /\ CallFits(toolCall[s], Len(docs)) /\ toolCall[s].doc \in 1 .. Len(docs)
          /\ docs[toolCall[s].doc].body \in Seq(Words) /\ Len(docs) \in Nat
      BY <2>1, CallKnown DEF CallFits
    <2> DEFINE body == docs[toolCall[s].doc].body
               c == [toolCall[s] EXCEPT !.index = _doc_end_index(body), !.read = body, !.step = "read"]
    <2>3. _doc_end_index(body) = Len(body) + 1 /\ Len(body) \in Nat /\ body \in Seq(Words)
      BY <2>2, DocEnd
    <2>4. toolCall' = [toolCall EXCEPT ![s] = c]
      BY <1>2 DEF AppendReads
    <2> HIDE DEF body
    <2>5. /\ c \in DriveCalls /\ c.tool = "append_text" /\ c.step = "read" /\ c.doc = toolCall[s].doc
          /\ c.index = Len(body) + 1 /\ c.read = body /\ c.cred = toolCall[s].cred /\ c.at = toolCall[s].at
      <3>1. toolCall[s].index \in Nat /\ Len(body) + 1 \in Nat
        BY <2>1, <2>3, CallKnown
      <3> QED
        BY <2>1, <2>2, <2>3, <3>1 DEF DriveCalls
    <2> HIDE DEF c
    <2>6. CallFits(c, Len(docs)) /\ c # NoDriveCall /\ c.doc \in 0 .. Len(docs)
      BY <2>2, <2>5 DEF CallFits, NoDriveCall
    <2>7. docs' = docs /\ lived' = lived /\ Still
      BY <1>2 DEF AppendReads, Still
    <2> QED
      BY <2>1, <2>4, <2>5, <2>6, <2>7 DEF ReadEnd
  <1>3. ASSUME NEW s \in Servers, AppendWrites(s) \/ insert_text(s) PROVE Put(s)
    <2> DEFINE c == toolCall[s]
               body == docs[c.doc].body
    <2>1. /\ c # NoDriveCall /\ c.tool \in {"append_text", "insert_text"} /\ c.step # "created"
          /\ c.tool = "append_text" => c.step = "read"
      BY <1>3 DEF AppendWrites, insert_text, Serving
    <2>2. c \in DriveCalls /\ CallFits(c, Len(docs)) /\ c.doc \in 1 .. Len(docs) /\ c.text \in Texts
          /\ body \in Seq(Words) /\ Len(body) \in Nat /\ Len(docs) \in Nat
      BY <2>1, CallKnown DEF CallFits
    <2>3. Still
      BY <1>3 DEF AppendWrites, insert_text, Still
    <2>4. \/ UNCHANGED docs /\ Raises(s, c.doc)
          \/ \E index : /\ Inserts(body, index) /\ Update(c.doc, Inserted(body, index, c.text))
                        /\ Answers(s, c.doc, body) /\ (c.tool = "append_text" => index = c.index)
      BY <1>3 DEF AppendWrites, insert_text, Serving
    <2>5. CASE UNCHANGED docs /\ Raises(s, c.doc)
      <3>1. Finished(s, "error", c.doc, <<>>)
        BY <2>1, <2>2, <2>5 DEF Raises, Ends, Finished
      <3> QED
        BY <2>1, <2>2, <2>3, <2>5, <3>1 DEF Put
    <2>6. CASE \E index : /\ Inserts(body, index) /\ Update(c.doc, Inserted(body, index, c.text))
                          /\ Answers(s, c.doc, body) /\ (c.tool = "append_text" => index = c.index)
      <3>1. PICK index : /\ Inserts(body, index) /\ Update(c.doc, Inserted(body, index, c.text))
                         /\ Answers(s, c.doc, body) /\ (c.tool = "append_text" => index = c.index)
        BY <2>6
      <3> DEFINE new == Inserted(body, index, c.text)
      <3>2. index \in 1 .. Len(body) + 1
        BY <3>1 DEF Inserts
      <3>3. new \in Seq(Words) /\ Len(new) = Len(body) + Len(c.text) /\ Len(c.text) \in Nat
        BY <2>2, <3>2, InsertedType, TextIsSequence
      <3>4. docs' = [docs EXCEPT ![c.doc].body = new]
        BY <3>1 DEF Update
      <3> HIDE DEF new
      <3>5. new = <<>> => body = <<>>
        <4> HIDE DEF body
        <4>1. Len(new) \in Nat /\ (new = <<>> => Len(new) = 0)
          BY <3>3
        <4>2. Len(body) = 0 => body = <<>>
          BY <2>2, EmptySeq
        <4> QED
          BY <2>2, <3>3, <4>1, <4>2
      <3>6. Writes(c.doc, new) /\ Longer(new, body, c.text)
        <4>1. c.text # <<>> => Len(c.text) > 0
          BY <2>2 DEF Texts
        <4>2. Writes(c.doc, new)
          BY <2>2, <3>3, <3>4 DEF Writes
        <4> HIDE DEF body, c
        <4>3. Longer(new, body, c.text)
          BY <2>2, <3>3, <4>1 DEF Longer
        <4> QED
          BY <4>2, <4>3
      <3>7. Len(docs') = Len(docs)
        BY <2>2, <3>4 DEF DriveInv, DriveTypeOK
      <3>8. Finished(s, "ok", c.doc, body)
        BY <2>1, <2>2, <3>1, <3>7 DEF Answers, Ends, Finished
      <3> QED
        BY <2>1, <2>2, <2>3, <3>1, <3>2, <3>3, <3>5, <3>6, <3>8 DEF Put
    <2> QED
      BY <2>4, <2>5, <2>6
  <1>4. ASSUME NEW s \in Servers, replace_text(s) PROVE Swapped(s)
    <2> DEFINE c == toolCall[s]
               body == docs[c.doc].body
    <2>1. c # NoDriveCall /\ c.tool = "replace_text" /\ c.step = "called"
      BY <1>4 DEF replace_text, Serving
    <2>2. c \in DriveCalls /\ CallFits(c, Len(docs)) /\ c.doc \in 1 .. Len(docs) /\ c.by \in Texts
          /\ body \in Seq(Words) /\ Len(docs) \in Nat
      BY <2>1, CallKnown DEF CallFits
    <2> DEFINE new == Replaced(body, c.text, c.by)
    <2>3. new \in Seq(Words)
      BY <2>2, ReplacedType
    <2>4. docs' = [docs EXCEPT ![c.doc].body = new] /\ Answers(s, c.doc, body) /\ Still
      BY <1>4 DEF replace_text, Update, Still
    <2> HIDE DEF new
    <2>5. Writes(c.doc, new)
      BY <2>2, <2>3, <2>4 DEF Writes
    <2>6. Len(docs') = Len(docs)
      BY <2>2, <2>4 DEF DriveInv, DriveTypeOK
    <2>7. Finished(s, "ok", c.doc, body)
      BY <2>1, <2>2, <2>4, <2>6 DEF Answers, Ends, Finished
    <2> QED
      BY <2>1, <2>3, <2>4, <2>5, <2>7 DEF Swapped
  <1>5. ASSUME NEW s \in Servers, DocumentCreated(s) PROVE Made(s)
    <2> DEFINE c == toolCall[s]
    <2>1. c # NoDriveCall /\ c.tool = "create_document" /\ c.step = "called"
      BY <1>5 DEF DocumentCreated, Serving
    <2>2. c \in DriveCalls /\ CallFits(c, Len(docs)) /\ c.text \in Texts /\ Len(docs) \in Nat
      BY <2>1, CallKnown
    <2>3. Adds(c.text) /\ Still
      BY <1>5, <2>2 DEF DocumentCreated, Adds, Still
    <2>4. Len(docs') = Len(docs) + 1
      BY <2>2, <2>3 DEF Adds, DriveInv, DriveTypeOK
    <2>5. CASE c.text = <<>>
      <3>1. Answers(s, Len(docs) + 1, <<>>)
        BY <1>5, <2>5 DEF DocumentCreated
      <3>2. Finished(s, "ok", Len(docs) + 1, <<>>)
        BY <2>1, <2>2, <2>4, <3>1 DEF Answers, Ends, Finished
      <3> QED
        BY <2>1, <2>3, <2>5, <3>2 DEF Made
    <2>6. CASE c.text # <<>>
      <3> DEFINE d == [c EXCEPT !.step = "created", !.doc = Len(docs) + 1]
      <3>1. toolCall' = [toolCall EXCEPT ![s] = d] /\ lived' = lived
        BY <1>5, <2>6 DEF DocumentCreated
      <3>2. /\ d \in DriveCalls /\ d.step = "created" /\ d.doc = Len(docs) + 1 /\ d.tool = "create_document"
            /\ d.text = c.text /\ d.cred = c.cred /\ d.at = c.at
        <4>1. Len(docs) + 1 \in Nat
          BY <2>2
        <4> QED
          BY <2>1, <2>2, <4>1 DEF DriveCalls
      <3> HIDE DEF d
      <3>3. CallFits(d, Len(docs) + 1) /\ d # NoDriveCall
        BY <2>2, <2>6, <3>2 DEF CallFits, NoDriveCall
      <3> QED
        BY <2>1, <2>3, <2>6, <3>1, <3>2, <3>3 DEF Made
    <2> QED
      BY <2>5, <2>6
  <1>6. ASSUME NEW s \in Servers, BodyWritten(s) PROVE Filled(s)
    <2> DEFINE c == toolCall[s]
               body == docs[c.doc].body
    <2>1. c # NoDriveCall /\ c.tool = "create_document" /\ c.step = "created"
      BY <1>6 DEF BodyWritten, Serving
    <2>2. c \in DriveCalls /\ CallFits(c, Len(docs)) /\ c.doc \in 1 .. Len(docs) /\ c.text \in Texts /\ c.text # <<>>
          /\ body \in Seq(Words) /\ Len(body) \in Nat /\ Len(docs) \in Nat
      BY <2>1, CallKnown DEF CallFits
    <2> DEFINE new == Inserted(body, 1, c.text)
    <2>3. 1 \in 1 .. Len(body) + 1
      BY <2>2, SMTT(40)
    <2>4. new \in Seq(Words) /\ Len(new) = Len(body) + Len(c.text) /\ Len(c.text) > 0 /\ Len(c.text) \in Nat
      BY <2>2, <2>3, InsertedType, TextIsSequence
    <2>5. docs' = [docs EXCEPT ![c.doc].body = new] /\ Answers(s, c.doc, body) /\ Still
      BY <1>6 DEF BodyWritten, Update, Still
    <2> HIDE DEF new
    <2>6. new # <<>>
      <3>1. new = <<>> => Len(new) = 0
        OBVIOUS
      <3> HIDE DEF body
      <3> QED
        BY <2>2, <2>4, <3>1
    <2>7. Writes(c.doc, new) /\ Longer(new, body, c.text)
      <3>1. Writes(c.doc, new)
        BY <2>2, <2>4, <2>5 DEF Writes
      <3> HIDE DEF body, c
      <3>2. Longer(new, body, c.text)
        BY <2>2, <2>4 DEF Longer
      <3> QED
        BY <3>1, <3>2
    <2>8. Len(docs') = Len(docs)
      BY <2>2, <2>5 DEF DriveInv, DriveTypeOK
    <2>9. Finished(s, "ok", c.doc, body)
      BY <2>1, <2>2, <2>5, <2>8 DEF Answers, Ends, Finished
    <2> QED
      BY <2>1, <2>4, <2>5, <2>6, <2>7, <2>9 DEF Filled
  <1>7. ASSUME NEW s \in Servers, Fails(s) PROVE Failed(s)
    <2>1. toolCall[s] # NoDriveCall
      BY <1>7 DEF Fails
    <2>2. toolCall[s] \in DriveCalls /\ CallFits(toolCall[s], Len(docs)) /\ toolCall[s].doc \in 0 .. Len(docs)
      BY <2>1, CallKnown
    <2> QED
      BY <1>7, <2>1, <2>2 DEF Fails, Raises, Ends, Failed, Finished, Still
  <1>8. CASE SomeoneEdits
    <2>1. edits' \in 1 .. MaxEdits /\ UNCHANGED <<mode, sharedToken, zone, cached, toolCall, lived, calls, clock>>
      BY <1>8 DEF SomeoneEdits, DriveInv, DriveTypeOK, DriveAssumption
    <2>2. DOMAIN docs = 1 .. Len(docs)
      BY DEF DriveInv, DriveTypeOK
    <2>3. \E d \in 1 .. Len(docs), body \in Seq(Words) : Writes(d, body)
      BY <1>8, <2>2, EditType DEF SomeoneEdits
    <2> QED
      BY <2>1, <2>3 DEF DriveStep, Edited
  <1>9. ASSUME NEW s \in Servers, Restart(s) PROVE Apart
    <2>1. /\ UNCHANGED <<mode, sharedToken, zone, docs, toolCall, lived, calls, edits, clock>>
          /\ cached' = [cached EXCEPT ![s] = NoCache]
      BY <1>9 DEF Restart
    <2>2. NoCache \in [token : 0 .. MaxDriveClock + Lifetime, expiry : Int] /\ NoCache.token = 0
      BY DEF NoCache, DriveAssumption
    <2>3. cached \in [Servers -> [token : 0 .. MaxDriveClock + Lifetime, expiry : Int]]
          /\ clock \in 1 .. MaxDriveClock
      BY DEF DriveInv, DriveTypeOK
    <2>4. CacheInv'
      BY <2>1, <2>2, <2>3 DEF CacheInv, DriveInv
    <2> QED
      BY <2>1, <2>2, <2>3, <2>4 DEF Apart
  <1>10. CASE DriveTick
    <2>1. clock' \in 1 .. MaxDriveClock
          /\ UNCHANGED <<mode, sharedToken, zone, cached, docs, toolCall, lived, calls, edits>>
      BY <1>10 DEF DriveTick, DriveInv, DriveTypeOK, DriveAssumption
    <2> QED
      BY <2>1 DEF DriveStep, Apart, DriveInv, DriveTypeOK, CacheInv
  <1>11. ASSUME NEW s \in Servers, NEW bearer \in BOOLEAN,
                \/ AppendCalled(s, bearer) \/ InsertCalled(s, bearer) \/ ReplaceCalled(s, bearer)
                \/ CreateCalled(s, bearer) \/ ReadCalled(s, bearer)
         PROVE  Asked(s)
    BY <1>11, AskedSo
  <1> QED
    BY <1>1, <1>2, <1>3, <1>4, <1>5, <1>6, <1>7, <1>8, <1>9, <1>10, <1>11 DEF DriveNext, DriveStep

(***************************************************************************)
(* Types.                                                                  *)
(***************************************************************************)
\* A document that is written keeps its text, and the others stay.
LEMMA DocsWritten ==
  ASSUME DriveInv, NEW d, NEW body, Writes(d, body)
  PROVE  /\ docs' \in Seq([body : Seq(Words), text : Texts]) /\ Len(docs') = Len(docs) /\ Len(docs) \in Nat
         /\ DOMAIN docs' = 1 .. Len(docs) /\ DOMAIN docs = 1 .. Len(docs)
         /\ docs'[d].body = body /\ docs'[d].text = docs[d].text
         /\ \A e \in 1 .. Len(docs) : e # d => docs'[e] = docs[e]
  <1>1. docs \in Seq([body : Seq(Words), text : Texts]) /\ Len(docs) \in Nat /\ DOMAIN docs = 1 .. Len(docs)
    BY DEF DriveInv, DriveTypeOK
  <1>2. d \in 1 .. Len(docs) /\ body \in Seq(Words) /\ docs' = [docs EXCEPT ![d].body = body]
    BY DEF Writes
  <1>3. docs[d] \in [body : Seq(Words), text : Texts]
    BY <1>1, <1>2, ElementOfSeq
  <1> DEFINE new == [docs[d] EXCEPT !.body = body]
  <1>4. new \in [body : Seq(Words), text : Texts] /\ new.body = body /\ new.text = docs[d].text
    BY <1>2, <1>3
  <1>5. docs' = [docs EXCEPT ![d] = new]
    BY <1>2
  <1> HIDE DEF new
  <1>6. docs' \in Seq([body : Seq(Words), text : Texts]) /\ Len(docs') = Len(docs)
    <2>1. [docs EXCEPT ![d] = new] \in Seq([body : Seq(Words), text : Texts])
          /\ Len([docs EXCEPT ![d] = new]) = Len(docs)
      BY <1>1, <1>2, <1>4, ExceptSeq
    <2> QED
      BY <2>1, <1>5
  <1> QED
    BY <1>1, <1>2, <1>4, <1>5, <1>6

\* A new document comes after the others.
LEMMA DocsAdded ==
  ASSUME DriveInv, NEW text, Adds(text)
  PROVE  /\ docs' \in Seq([body : Seq(Words), text : Texts]) /\ Len(docs') = Len(docs) + 1 /\ Len(docs) \in Nat
         /\ DOMAIN docs' = 1 .. Len(docs) + 1 /\ DOMAIN docs = 1 .. Len(docs)
         /\ docs'[Len(docs) + 1].text = text
         /\ \A e \in 1 .. Len(docs) : docs'[e] = docs[e]
  <1>1. docs \in Seq([body : Seq(Words), text : Texts]) /\ Len(docs) \in Nat /\ DOMAIN docs = 1 .. Len(docs)
    BY DEF DriveInv, DriveTypeOK
  <1> DEFINE new == [body |-> <<>>, text |-> text]
  <1>2. new \in [body : Seq(Words), text : Texts] /\ new.text = text /\ docs' = Append(docs, new)
    BY DEF Adds
  <1> HIDE DEF new
  <1> QED
    BY <1>1, <1>2, AppendProperties

\* A call that ends leaves the types as they are.
LEMMA FinishedTypes ==
  ASSUME DriveAssumption, DriveInv, NEW s \in Servers, NEW how, NEW on, NEW was, Finished(s, how, on, was), Still,
         docs' \in Seq([body : Seq(Words), text : Texts]), Len(docs') \in Nat, Len(docs) <= Len(docs')
  PROVE  DriveInv'
  <1> DEFINE l == [call |-> toolCall[s], how |-> how, on |-> on, was |-> was]
             L(n) == [call : DriveCalls, how : {"ok", "error"}, on : 0 .. n, was : Seq(Words)]
  <1>1. NoDriveCall \in DriveCalls
    BY DEF NoDriveCall, NoCred, DriveCalls, Texts, DriveAssumption
  <1>2. toolCall \in [Servers -> DriveCalls] /\ lived \subseteq L(Len(docs)) /\ Len(docs) \in Nat
    BY DEF DriveInv, DriveTypeOK
  <1>3. l \in L(Len(docs'))
    BY DEF Finished
  <1>4. L(Len(docs)) \subseteq L(Len(docs'))
    <2>1. 0 .. Len(docs) \subseteq 0 .. Len(docs')
      BY <1>2
    <2> QED
      BY <2>1
  <1>5. lived' = lived \cup {l}
    BY DEF Finished
  <1> HIDE DEF l, L
  <1>6. lived' \subseteq L(Len(docs'))
    BY <1>2, <1>3, <1>4, <1>5
  <1>7. toolCall' \in [Servers -> DriveCalls] /\ \A r \in Servers : toolCall'[r] # NoDriveCall => toolCall'[r] = toolCall[r]
    BY <1>1, <1>2 DEF Finished
  <1>8. \A r \in Servers : toolCall'[r] # NoDriveCall => toolCall'[r].doc \in 0 .. Len(docs')
    BY <1>2, <1>7 DEF DriveInv, DriveTypeOK
  <1>9. Underway'
    <2>1. \A r \in Servers : toolCall'[r] # NoDriveCall => CallFits(toolCall'[r], Len(docs))
      BY <1>7 DEF DriveInv, Underway
    <2>2. \A r \in Servers : toolCall'[r] # NoDriveCall => CallFits(toolCall'[r], Len(docs'))
      BY <2>1, <1>2 DEF CallFits
    <2> QED
      BY <2>2 DEF Underway
  <1>10. DriveTypeOK'
    BY <1>6, <1>7, <1>8 DEF DriveInv, DriveTypeOK, Still, L
  <1>11. CacheInv'
    BY DEF DriveInv, CacheInv, Still
  <1> QED
    BY <1>9, <1>10, <1>11 DEF DriveInv

\* So does a call that goes on.
LEMMA MovedTypes ==
  ASSUME DriveInv, NEW s \in Servers, NEW c \in DriveCalls, toolCall' = [toolCall EXCEPT ![s] = c],
         CallFits(c, Len(docs')), c.doc \in 0 .. Len(docs'), lived' = lived,
         UNCHANGED <<mode, sharedToken, zone, edits, clock>>, calls' \in 0 .. MaxDriveCalls,
         cached' \in [Servers -> [token : 0 .. MaxDriveClock + Lifetime, expiry : Int]], CacheInv',
         docs' \in Seq([body : Seq(Words), text : Texts]), Len(docs') \in Nat, Len(docs) <= Len(docs')
  PROVE  DriveInv'
  <1>1. toolCall \in [Servers -> DriveCalls] /\ Len(docs) \in Nat
        /\ lived \subseteq [call : DriveCalls, how : {"ok", "error"}, on : 0 .. Len(docs), was : Seq(Words)]
    BY DEF DriveInv, DriveTypeOK
  <1>2. lived' \subseteq [call : DriveCalls, how : {"ok", "error"}, on : 0 .. Len(docs'), was : Seq(Words)]
    <2>1. 0 .. Len(docs) \subseteq 0 .. Len(docs')
      BY <1>1
    <2> QED
      BY <1>1, <2>1
  <1>3. toolCall' \in [Servers -> DriveCalls] /\ \A r \in Servers : toolCall'[r] = toolCall[r] \/ toolCall'[r] = c
    BY <1>1
  <1>4. \A r \in Servers : toolCall'[r] # NoDriveCall => toolCall'[r].doc \in 0 .. Len(docs')
    BY <1>1, <1>3 DEF DriveInv, DriveTypeOK
  <1>5. Underway'
    <2>1. \A r \in Servers : toolCall'[r] # NoDriveCall =>
            CallFits(toolCall'[r], Len(docs)) \/ CallFits(toolCall'[r], Len(docs'))
      BY <1>3 DEF DriveInv, Underway
    <2>2. \A r \in Servers : toolCall'[r] # NoDriveCall => CallFits(toolCall'[r], Len(docs'))
      BY <2>1, <1>1 DEF CallFits
    <2> QED
      BY <2>2 DEF Underway
  <1>6. DriveTypeOK'
    BY <1>2, <1>3, <1>4 DEF DriveInv, DriveTypeOK
  <1> QED
    BY <1>5, <1>6 DEF DriveInv

\* The initial states.
LEMMA DriveInvInit ==
  ASSUME DriveAssumption, DriveInit
  PROVE  DriveInv
  <1>1. NoDriveCall \in DriveCalls
    BY DEF NoDriveCall, NoCred, DriveCalls, Texts, DriveAssumption
  <1>2. PICK w \in Words : docs = <<[body |-> <<w>>, text |-> <<>>]>>
    BY DEF DriveInit
  <1>3. docs \in Seq([body : Seq(Words), text : Texts])
    BY <1>2 DEF Texts
  <1>4. NoCache \in [token : 0 .. MaxDriveClock + Lifetime, expiry : Int] /\ NoCache.token = 0
    BY DEF NoCache, DriveAssumption
  <1>5. clock \in 1 .. MaxDriveClock /\ calls \in 0 .. MaxDriveCalls /\ edits \in 0 .. MaxEdits
    BY DEF DriveInit, DriveAssumption
  <1>6. cached = [s \in Servers |-> NoCache] /\ toolCall = [s \in Servers |-> NoDriveCall] /\ lived = {}
        /\ mode \in Modes /\ sharedToken \in BOOLEAN /\ zone \in [Servers -> Zones]
    BY DEF DriveInit
  <1>7. DriveTypeOK
    BY <1>1, <1>3, <1>4, <1>5, <1>6 DEF DriveTypeOK
  <1>8. CacheInv /\ Underway
    BY <1>4, <1>6 DEF CacheInv, Underway
  <1> QED
    BY <1>7, <1>8 DEF DriveInv

\* No step disturbs the types.
LEMMA DriveInvNext ==
  ASSUME DriveAssumption, DriveInv, DriveStep
  PROVE  DriveInv'
  <1>1. docs \in Seq([body : Seq(Words), text : Texts]) /\ Len(docs) \in Nat
    BY DEF DriveInv, DriveTypeOK
  <1>0. docs' = docs => /\ docs' \in Seq([body : Seq(Words), text : Texts]) /\ Len(docs') \in Nat
                        /\ Len(docs) <= Len(docs')
    BY <1>1
  <1>2. ASSUME NEW s \in Servers, Asked(s) PROVE DriveInv'
    <2>1. PICK c : Started(s, c) \/ Refused(c)
      BY <1>2 DEF Asked
    <2>2. CASE Started(s, c)
      <3>1. /\ c \in DriveCalls /\ toolCall' = [toolCall EXCEPT ![s] = c] /\ lived' = lived
            /\ CallFits(c, Len(docs)) /\ c.doc \in 0 .. Len(docs)
        BY <2>2 DEF Started
      <3>2. /\ docs' = docs /\ UNCHANGED <<mode, sharedToken, zone, edits, clock>> /\ calls' \in 0 .. MaxDriveCalls
            /\ CacheInv' /\ cached' \in [Servers -> [token : 0 .. MaxDriveClock + Lifetime, expiry : Int]]
        BY <1>2 DEF Asked
      <3>3. docs' \in Seq([body : Seq(Words), text : Texts]) /\ Len(docs') \in Nat /\ Len(docs) <= Len(docs')
            /\ CallFits(c, Len(docs')) /\ c.doc \in 0 .. Len(docs')
        BY <1>1, <3>1, <3>2
      <3> QED
        BY <3>1, <3>2, <3>3, MovedTypes
    <2>3. CASE Refused(c)
      <3>1. c \in DriveCalls /\ toolCall' = toolCall
            /\ lived' = lived \cup {[call |-> c, how |-> "error", on |-> 0, was |-> <<>>]}
        BY <2>3 DEF Refused
      <3> DEFINE l == [call |-> c, how |-> "error", on |-> 0, was |-> <<>>]
                 L == [call : DriveCalls, how : {"ok", "error"}, on : 0 .. Len(docs), was : Seq(Words)]
      <3>2. lived' \subseteq L
        <4>1. 0 \in 0 .. Len(docs) /\ <<>> \in Seq(Words)
          BY <1>1
        <4>2. l \in L
          BY <3>1, <4>1
        <4>3. lived \subseteq L
          BY DEF DriveInv, DriveTypeOK
        <4> HIDE DEF L
        <4> QED
          BY <3>1, <4>2, <4>3
      <3>3. DriveTypeOK'
        BY <1>2, <3>1, <3>2 DEF Asked, DriveInv, DriveTypeOK
      <3>4. Underway'
        BY <1>2, <3>1 DEF Asked, DriveInv, Underway
      <3> QED
        BY <1>2, <3>3, <3>4 DEF Asked, DriveInv
    <2> QED
      BY <2>1, <2>2, <2>3
  <1>3. ASSUME NEW s \in Servers, Got(s) PROVE DriveInv'
    <2>1. Finished(s, "ok", toolCall[s].doc, docs[toolCall[s].doc].body) /\ Still /\ docs' = docs
      BY <1>3 DEF Got
    <2> QED
      BY <1>0, <2>1, FinishedTypes
  <1>4. ASSUME NEW s \in Servers, ReadEnd(s) PROVE DriveInv'
    <2>1. PICK c \in DriveCalls :
             /\ toolCall' = [toolCall EXCEPT ![s] = c] /\ CallFits(c, Len(docs)) /\ c.doc \in 0 .. Len(docs)
      BY <1>4 DEF ReadEnd
    <2>2. docs' = docs /\ lived' = lived /\ Still
      BY <1>4 DEF ReadEnd
    <2>3. calls' \in 0 .. MaxDriveCalls /\ CacheInv'
          /\ cached' \in [Servers -> [token : 0 .. MaxDriveClock + Lifetime, expiry : Int]]
      BY <2>2 DEF Still, DriveInv, DriveTypeOK, CacheInv
    <2>4. CallFits(c, Len(docs')) /\ c.doc \in 0 .. Len(docs')
      BY <2>1, <2>2
    <2>5. UNCHANGED <<mode, sharedToken, zone, edits, clock>>
      BY <2>2 DEF Still
    <2> QED
      BY <1>0, <2>1, <2>2, <2>3, <2>4, <2>5, MovedTypes
  <1>5. ASSUME NEW s \in Servers, Put(s) PROVE DriveInv'
    <2>1. CASE docs' = docs /\ Finished(s, "error", toolCall[s].doc, <<>>)
      <3>1. Still
        BY <1>5 DEF Put
      <3> QED
        BY <1>0, <2>1, <3>1, FinishedTypes
    <2>2. CASE /\ \E body \in Seq(Words) : Writes(toolCall[s].doc, body)
               /\ Finished(s, "ok", toolCall[s].doc, docs[toolCall[s].doc].body)
      <3>1. docs' \in Seq([body : Seq(Words), text : Texts]) /\ Len(docs') = Len(docs)
        BY <2>2, DocsWritten
      <3>2. Still /\ Len(docs') \in Nat /\ Len(docs) <= Len(docs')
        BY <1>1, <1>5, <3>1 DEF Put
      <3> QED
        BY <2>2, <3>1, <3>2, FinishedTypes
    <2> QED
      BY <1>5, <2>1, <2>2 DEF Put
  <1>6. ASSUME NEW s \in Servers, Swapped(s) \/ Filled(s) PROVE DriveInv'
    <2>1. /\ \E body \in Seq(Words) : Writes(toolCall[s].doc, body)
          /\ Finished(s, "ok", toolCall[s].doc, docs[toolCall[s].doc].body) /\ Still
      BY <1>6 DEF Swapped, Filled
    <2>2. docs' \in Seq([body : Seq(Words), text : Texts]) /\ Len(docs') = Len(docs)
      BY <2>1, DocsWritten
    <2>3. Len(docs') \in Nat /\ Len(docs) <= Len(docs')
      BY <1>1, <2>2
    <2> QED
      BY <2>1, <2>2, <2>3, FinishedTypes
  <1>7. ASSUME NEW s \in Servers, Made(s) PROVE DriveInv'
    <2>1. docs' \in Seq([body : Seq(Words), text : Texts]) /\ Len(docs') = Len(docs) + 1
      BY <1>7, DocsAdded DEF Made
    <2>2. Still
      BY <1>7 DEF Made
    <2>3. CASE Finished(s, "ok", Len(docs) + 1, <<>>)
      <3>1. Len(docs') \in Nat /\ Len(docs) <= Len(docs')
        BY <1>1, <2>1
      <3> QED
        BY <2>1, <2>2, <2>3, <3>1, FinishedTypes
    <2>4. CASE /\ lived' = lived
               /\ \E c \in DriveCalls :
                    /\ toolCall' = [toolCall EXCEPT ![s] = c] /\ CallFits(c, Len(docs) + 1)
                    /\ c.doc = Len(docs) + 1
      <3>1. PICK c \in DriveCalls : /\ toolCall' = [toolCall EXCEPT ![s] = c] /\ CallFits(c, Len(docs) + 1)
                                    /\ c.doc = Len(docs) + 1
        BY <2>4
      <3>2. calls' \in 0 .. MaxDriveCalls /\ CacheInv'
            /\ cached' \in [Servers -> [token : 0 .. MaxDriveClock + Lifetime, expiry : Int]]
        BY <2>2 DEF Still, DriveInv, DriveTypeOK, CacheInv
      <3>3. CallFits(c, Len(docs')) /\ c.doc \in 0 .. Len(docs') /\ Len(docs') \in Nat /\ Len(docs) <= Len(docs')
        BY <1>1, <2>1, <3>1
      <3> QED
        BY <2>1, <2>2, <2>4, <3>1, <3>2, <3>3, MovedTypes DEF Still
    <2> QED
      BY <1>7, <2>3, <2>4 DEF Made
  <1>8. ASSUME NEW s \in Servers, Failed(s) PROVE DriveInv'
    <2>1. Finished(s, "error", toolCall[s].doc, <<>>) /\ Still /\ docs' = docs
      BY <1>8 DEF Failed
    <2> QED
      BY <1>0, <2>1, FinishedTypes
  <1>9. CASE Edited
    <2>1. docs' \in Seq([body : Seq(Words), text : Texts]) /\ Len(docs') = Len(docs)
      BY <1>9, DocsWritten DEF Edited
    <2>2. edits' \in 0 .. MaxEdits
      BY <1>9 DEF Edited, DriveAssumption
    <2> QED
      BY <1>9, <2>1, <2>2 DEF Edited, DriveInv, DriveTypeOK, CacheInv, Underway
  <1>10. CASE Apart
    BY <1>10 DEF Apart, DriveInv, DriveTypeOK, Underway
  <1> QED
    BY <1>2, <1>3, <1>4, <1>5, <1>6, <1>7, <1>8, <1>9, <1>10 DEF DriveStep

(***************************************************************************)
(* What a call that ended, or goes on, says.                               *)
(***************************************************************************)
\* One call that is not for a document's end does not disturb what is said of others.
Appended(l) ==
  l.call.tool = "append_text" /\ l.how = "ok" =>
    LET end == Len(l.was) + 1
    IN  /\ l.was = l.call.read => l.call.index = end
        /\ l.call.index = end \/ Len(l.was) > Len(l.call.read)

LEMMA AppendedNext ==
  ASSUME DriveInv, AppendedAtTheEnd, DriveStep
  PROVE  AppendedAtTheEnd'
  <1>1. \A l \in lived : Appended(l)
    BY DEF AppendedAtTheEnd, Appended
  <1>2. SUFFICES \A l \in lived' : Appended(l)
    BY DEF AppendedAtTheEnd, Appended
  <1>3. SUFFICES ASSUME NEW l \in lived', l \notin lived PROVE Appended(l)
    BY <1>1
  <1>4. ASSUME NEW s \in Servers, Asked(s) PROVE Appended(l)
    <2>1. PICK c : Started(s, c) \/ Refused(c)
      BY <1>4 DEF Asked
    <2>2. l.how = "error"
      BY <1>3, <2>1 DEF Started, Refused
    <2> QED
      BY <2>2 DEF Appended
  <1>5. ASSUME NEW s \in Servers, NEW how, NEW on, NEW was, Finished(s, how, on, was),
               how = "error" \/ toolCall[s].tool # "append_text"
        PROVE  Appended(l)
    <2>1. l = [call |-> toolCall[s], how |-> how, on |-> on, was |-> was]
      BY <1>3, <1>5 DEF Finished
    <2>2. l.how = how /\ l.call = toolCall[s]
      BY <2>1
    <2> QED
      BY <1>5, <2>2 DEF Appended
  <1>6. ASSUME NEW s \in Servers, Put(s) PROVE Appended(l)
    <2>1. CASE Finished(s, "error", toolCall[s].doc, <<>>)
      BY <1>5, <2>1
    <2>2. CASE /\ Finished(s, "ok", toolCall[s].doc, docs[toolCall[s].doc].body)
               /\ toolCall[s].tool = "append_text" => toolCall[s].index \in 1 .. Len(docs[toolCall[s].doc].body) + 1
      <3> DEFINE body == docs[toolCall[s].doc].body
                 c == toolCall[s]
      <3>1. CASE c.tool # "append_text"
        BY <1>5, <2>2, <3>1
      <3>2. CASE c.tool = "append_text"
        <4>1. c # NoDriveCall /\ CallFits(c, Len(docs)) /\ c.step = "read" /\ body \in Seq(Words)
          BY <1>6, <2>2, <3>2 DEF Put, Finished
        <4>2. c.index = Len(c.read) + 1 /\ c.index \in 1 .. Len(body) + 1
          BY <2>2, <3>2, <4>1 DEF CallFits
        <4>3. c.read \in Seq(Words)
          BY <4>1, CallKnown
        <4>4. Len(c.read) \in Nat /\ Len(body) \in Nat
          BY <4>1, <4>3
        <4>5. l = [call |-> c, how |-> "ok", on |-> c.doc, was |-> body]
          BY <1>3, <2>2 DEF Finished
        <4>6. l.call = c /\ l.was = body
          BY <4>5
        <4> HIDE DEF body, c
        <4>7. c.index = Len(body) + 1 \/ Len(body) > Len(c.read)
          BY <4>2, <4>4
        <4>8. body = c.read => c.index = Len(body) + 1
          BY <4>2
        <4> QED
          BY <4>6, <4>7, <4>8 DEF Appended
      <3> QED
        BY <3>1, <3>2
    <2> QED
      BY <1>6, <2>1, <2>2 DEF Put
  <1>7. ASSUME NEW s \in Servers, Got(s) \/ ReadEnd(s) \/ Swapped(s) \/ Made(s) \/ Filled(s) \/ Failed(s)
        PROVE  Appended(l)
    <2>1. CASE Got(s)
      BY <1>5, <2>1 DEF Got
    <2>2. CASE ReadEnd(s)
      BY <1>3, <2>2 DEF ReadEnd
    <2>3. CASE Swapped(s)
      BY <1>5, <2>3 DEF Swapped
    <2>4. CASE Made(s)
      BY <1>3, <1>5, <2>4 DEF Made
    <2>5. CASE Filled(s)
      BY <1>5, <2>5 DEF Filled
    <2>6. CASE Failed(s)
      BY <1>5, <2>6 DEF Failed
    <2> QED
      BY <1>7, <2>1, <2>2, <2>3, <2>4, <2>5, <2>6
  <1> QED
    BY <1>3, <1>4, <1>6, <1>7 DEF DriveStep, Edited, Apart

\* A document without the text it was created for is one whose creation goes on or
\* failed, or one that was edited.
Filling(c, d) == c # NoDriveCall /\ c.tool = "create_document" /\ c.step = "created" /\ c.doc = d
FailedOn(l, d) == l.call.tool = "create_document" /\ l.how = "error" /\ l.on = d
SwappedOn(l, d) == l.call.tool = "replace_text" /\ l.on = d
Excused(d) ==
  \/ \E s \in Servers : Filling(toolCall[s], d)
  \/ \E l \in lived : FailedOn(l, d)
  \/ edits > 0
  \/ \E l \in lived : SwappedOn(l, d)
EmptyInv == \A d \in DOMAIN docs : docs[d].text # <<>> /\ docs[d].body = <<>> => Excused(d)

LEMMA EmptyIs == EmptyOnlyByFailure <=> EmptyInv
  BY DEF EmptyOnlyByFailure, EmptyInv, Excused, Filling, FailedOn, SwappedOn, Serving

LEMMA EmptyIsNext == EmptyOnlyByFailure' <=> EmptyInv'
  BY DEF EmptyOnlyByFailure, EmptyInv, Excused, Filling, FailedOn, SwappedOn, Serving

\* An excuse lasts, unless the call that is the excuse ends with an answer.
LEMMA ExcuseLasts ==
  ASSUME DriveInv, NEW d, Excused(d), edits' = edits, lived \subseteq lived', NEW s \in Servers,
         \A r \in Servers : r # s => toolCall'[r] = toolCall[r],
         Filling(toolCall[s], d) => Filling(toolCall'[s], d) \/ \E l \in lived' : FailedOn(l, d)
  PROVE  Excused(d)'
  <1>1. CASE \E r \in Servers : Filling(toolCall[r], d)
    <2>1. PICK r \in Servers : Filling(toolCall[r], d)
      BY <1>1
    <2>2. CASE r = s
      BY <2>1, <2>2 DEF Excused
    <2>3. CASE r # s
      BY <2>1, <2>3 DEF Excused
    <2> QED
      BY <2>2, <2>3
  <1>2. CASE (\E l \in lived : FailedOn(l, d)) \/ edits > 0 \/ \E l \in lived : SwappedOn(l, d)
    BY <1>2 DEF Excused
  <1> QED
    BY <1>1, <1>2 DEF Excused

LEMMA EmptyNext ==
  ASSUME DriveAssumption, DriveInv, EmptyInv, DriveStep
  PROVE  EmptyInv'
  <1>0. DOMAIN docs = 1 .. Len(docs) /\ Len(docs) \in Nat
    BY DEF DriveInv, DriveTypeOK
  <1>1. SUFFICES ASSUME NEW d \in DOMAIN docs', docs'[d].text # <<>>, docs'[d].body = <<>>
                 PROVE  Excused(d)'
    BY DEF EmptyInv
  <1>2. docs' = docs => Excused(d)
    BY <1>1 DEF EmptyInv
  \* A call that ends and filled no document leaves the excuses.
  <1>3. ASSUME NEW s \in Servers, NEW how, NEW on, NEW was, Finished(s, how, on, was), Excused(d), edits' = edits,
               Filling(toolCall[s], d) => how = "error" /\ on = d
        PROVE  Excused(d)'
    <2> DEFINE l == [call |-> toolCall[s], how |-> how, on |-> on, was |-> was]
    <2>1. l \in lived' /\ lived \subseteq lived' /\ \A r \in Servers : r # s => toolCall'[r] = toolCall[r]
      BY <1>3 DEF Finished, DriveInv, DriveTypeOK
    <2>2. l.call = toolCall[s] /\ l.how = how /\ l.on = on
      OBVIOUS
    <2> HIDE DEF l
    <2>3. Filling(toolCall[s], d) => FailedOn(l, d)
      BY <1>3, <2>2 DEF Filling, FailedOn
    <2> QED
      BY <1>3, <2>1, <2>3, ExcuseLasts
  <1>4. ASSUME NEW s \in Servers, Asked(s) PROVE Excused(d)'
    <2>1. PICK c : Started(s, c) \/ Refused(c)
      BY <1>4 DEF Asked
    <2>2. edits' = edits /\ Excused(d)
      BY <1>2, <1>4 DEF Asked
    <2>3. lived \subseteq lived'
      BY <2>1 DEF Started, Refused
    <2>4. \A r \in Servers : r # s => toolCall'[r] = toolCall[r]
      BY <2>1 DEF Started, Refused, DriveInv, DriveTypeOK
    <2>5. Filling(toolCall[s], d) => Filling(toolCall'[s], d)
      BY <2>1 DEF Started, Refused, Filling
    <2> QED
      BY <2>2, <2>3, <2>4, <2>5, ExcuseLasts
  <1>5. ASSUME NEW s \in Servers, Got(s) PROVE Excused(d)'
    <2>1. Excused(d) /\ edits' = edits /\ ~Filling(toolCall[s], d)
          /\ Finished(s, "ok", toolCall[s].doc, docs[toolCall[s].doc].body)
      BY <1>2, <1>5 DEF Got, Still, Filling
    <2> QED
      BY <2>1, <1>3
  <1>6. ASSUME NEW s \in Servers, ReadEnd(s) PROVE Excused(d)'
    <2>1. Excused(d) /\ edits' = edits /\ lived \subseteq lived' /\ ~Filling(toolCall[s], d)
      BY <1>2, <1>6 DEF ReadEnd, Still, Filling
    <2>2. \A r \in Servers : r # s => toolCall'[r] = toolCall[r]
      BY <1>6 DEF ReadEnd, DriveInv, DriveTypeOK
    <2> QED
      BY <2>1, <2>2, ExcuseLasts
  <1>7. ASSUME NEW s \in Servers, Put(s) PROVE Excused(d)'
    <2>1. edits' = edits /\ ~Filling(toolCall[s], d)
      BY <1>7 DEF Put, Still, Filling
    <2>2. CASE docs' = docs /\ Finished(s, "error", toolCall[s].doc, <<>>)
      BY <1>2, <1>3, <2>1, <2>2
    <2>3. CASE /\ \E body \in Seq(Words) : /\ Writes(toolCall[s].doc, body)
                                           /\ body = <<>> => docs[toolCall[s].doc].body = <<>>
               /\ Finished(s, "ok", toolCall[s].doc, docs[toolCall[s].doc].body)
      <3>1. PICK body \in Seq(Words) : /\ Writes(toolCall[s].doc, body)
                                       /\ body = <<>> => docs[toolCall[s].doc].body = <<>>
        BY <2>3
      <3> DEFINE k == toolCall[s].doc
      <3>2. /\ DOMAIN docs' = DOMAIN docs /\ docs'[k].body = body /\ docs'[k].text = docs[k].text
            /\ \A e \in DOMAIN docs : e # k => docs'[e] = docs[e]
        BY <3>1, DocsWritten, ZenonT(60)
      <3>3. docs[d].text # <<>> /\ docs[d].body = <<>> /\ d \in DOMAIN docs
        BY <1>1, <3>1, <3>2
      <3>4. Excused(d)
        BY <3>3 DEF EmptyInv
      <3> QED
        BY <1>3, <2>1, <2>3, <3>4
    <2> QED
      BY <1>7, <2>2, <2>3 DEF Put
  <1>8. ASSUME NEW s \in Servers, Swapped(s) PROVE Excused(d)'
    <2>1. PICK body \in Seq(Words) : Writes(toolCall[s].doc, body)
      BY <1>8 DEF Swapped
    <2>2. /\ edits' = edits /\ ~Filling(toolCall[s], d) /\ toolCall[s].tool = "replace_text"
          /\ Finished(s, "ok", toolCall[s].doc, docs[toolCall[s].doc].body)
      BY <1>8 DEF Swapped, Still, Filling
    <2> DEFINE k == toolCall[s].doc
    <2>3. DOMAIN docs' = DOMAIN docs /\ \A e \in DOMAIN docs : e # k => docs'[e] = docs[e]
      BY <2>1, DocsWritten
    <2>4. CASE d = k
      <3> DEFINE l == [call |-> toolCall[s], how |-> "ok", on |-> k, was |-> docs[k].body]
      <3>1. l \in lived'
        BY <2>2 DEF Finished
      <3>2. SwappedOn(l, d)
        BY <2>2, <2>4 DEF SwappedOn
      <3> QED
        BY <3>1, <3>2 DEF Excused
    <2>5. CASE d # k
      <3>1. Excused(d)
        BY <1>1, <2>3, <2>5 DEF EmptyInv
      <3> QED
        BY <1>3, <2>2, <3>1
    <2> QED
      BY <2>4, <2>5
  <1>9. ASSUME NEW s \in Servers, Made(s) PROVE Excused(d)'
    <2>1. /\ DOMAIN docs' = 1 .. Len(docs) + 1 /\ docs'[Len(docs) + 1].text = toolCall[s].text
          /\ \A e \in 1 .. Len(docs) : docs'[e] = docs[e]
      BY <1>9, DocsAdded DEF Made
    <2>2. edits' = edits /\ ~Filling(toolCall[s], d)
      BY <1>9 DEF Made, Still, Filling
    <2>3. CASE d = Len(docs) + 1
      <3>1. toolCall[s].text # <<>>
        BY <1>1, <2>1, <2>3
      <3>2. PICK c \in DriveCalls :
              /\ toolCall' = [toolCall EXCEPT ![s] = c] /\ c # NoDriveCall
              /\ c.tool = "create_document" /\ c.step = "created" /\ c.doc = Len(docs) + 1
        BY <1>9, <3>1 DEF Made
      <3>3. toolCall'[s] = c
        BY <3>2 DEF DriveInv, DriveTypeOK
      <3>4. Filling(toolCall'[s], d)
        BY <2>3, <3>2, <3>3 DEF Filling
      <3> QED
        BY <3>4 DEF Excused
    <2>4. CASE d # Len(docs) + 1
      <3>1. d \in 1 .. Len(docs)
        BY <1>0, <2>1, <2>4
      <3>2. Excused(d)
        BY <1>0, <1>1, <2>1, <3>1 DEF EmptyInv
      <3>3. CASE Finished(s, "ok", Len(docs) + 1, <<>>)
        BY <1>3, <2>2, <3>2, <3>3
      <3>4. CASE lived' = lived /\ \E c \in DriveCalls : toolCall' = [toolCall EXCEPT ![s] = c]
        <4>1. \A r \in Servers : r # s => toolCall'[r] = toolCall[r]
          BY <3>4 DEF DriveInv, DriveTypeOK
        <4> QED
          BY <2>2, <3>2, <3>4, <4>1, ExcuseLasts
      <3> QED
        BY <1>9, <3>3, <3>4 DEF Made
    <2> QED
      BY <2>3, <2>4
  <1>10. ASSUME NEW s \in Servers, Filled(s) PROVE Excused(d)'
    <2>1. PICK body \in Seq(Words) : Writes(toolCall[s].doc, body) /\ body # <<>>
      BY <1>10 DEF Filled
    <2>2. edits' = edits /\ Finished(s, "ok", toolCall[s].doc, docs[toolCall[s].doc].body)
      BY <1>10 DEF Filled, Still
    <2> DEFINE k == toolCall[s].doc
    <2>3. /\ DOMAIN docs' = DOMAIN docs /\ docs'[k].body = body
          /\ \A e \in DOMAIN docs : e # k => docs'[e] = docs[e]
      BY <2>1, DocsWritten, ZenonT(60)
    <2>4. d # k
      BY <1>1, <2>1, <2>3
    <2>5. Excused(d)
      BY <1>1, <2>3, <2>4 DEF EmptyInv
    <2>6. ~Filling(toolCall[s], d)
      BY <2>4 DEF Filling
    <2> QED
      BY <1>3, <2>2, <2>5, <2>6
  <1>11. ASSUME NEW s \in Servers, Failed(s) PROVE Excused(d)'
    <2>1. Excused(d) /\ edits' = edits /\ Finished(s, "error", toolCall[s].doc, <<>>)
      BY <1>2, <1>11 DEF Failed, Still
    <2>2. Filling(toolCall[s], d) => toolCall[s].doc = d
      BY DEF Filling
    <2> QED
      BY <1>3, <2>1, <2>2
  <1>12. CASE Edited
    BY <1>12 DEF Edited, Excused, DriveAssumption
  <1>13. CASE Apart
    BY <1>2, <1>13 DEF Apart, Excused
  <1> QED
    BY <1>4, <1>5, <1>6, <1>7, <1>8, <1>9, <1>10, <1>11, <1>12, <1>13 DEF DriveStep

\* What is said of a document that only these calls wrote.
CountsFor(l, d) ==
  /\ l.on = d /\ l.how = "ok" /\ l.call.text # <<>>
  /\ l.call.tool \in {"append_text", "insert_text", "create_document"}
KeptOn(d) ==
  edits = 0 /\ (\A l \in lived : ~SwappedOn(l, d)) =>
    /\ \A l \in lived : CountsFor(l, d) => Len(l.was) < Len(docs[d].body)
    /\ \A l, m \in lived : CountsFor(l, d) /\ CountsFor(m, d) /\ Len(l.was) = Len(m.was) => l = m
KeptInv == \A d \in DOMAIN docs : KeptOn(d)

LEMMA KeptIs == NoWriteIsLost <=> KeptInv
  BY DEF NoWriteIsLost, Wrote, KeptInv, KeptOn, CountsFor, SwappedOn

\* A body has a length.
LEMMA BodyLength ==
  ASSUME NEW D \in Seq([body : Seq(Words), text : Texts]), NEW d \in DOMAIN D
  PROVE  Len(D[d].body) \in Nat
  <1>1. D[d] \in [body : Seq(Words), text : Texts]
    BY ElementOfSeq, LenProperties
  <1>2. D[d].body \in Seq(Words)
    BY <1>1
  <1> QED
    BY <1>2, LenProperties

\* A step that ends no call that wrote to the document, and does not shorten it.
LEMMA KeptStays ==
  ASSUME NEW d, KeptOn(d), edits' = edits, lived \subseteq lived',
         \A l \in lived' : l \in lived \/ ~CountsFor(l, d),
         Len(docs[d].body) \in Nat, Len(docs'[d].body) \in Nat, \A l \in lived : Len(l.was) \in Nat,
         Len(docs[d].body) <= Len(docs'[d].body)
  PROVE  KeptOn(d)'
  <1> SUFFICES ASSUME edits = 0, \A l \in lived' : ~SwappedOn(l, d)
               PROVE  /\ \A l \in lived' : CountsFor(l, d) => Len(l.was) < Len(docs'[d].body)
                      /\ \A l, m \in lived' : CountsFor(l, d) /\ CountsFor(m, d) /\ Len(l.was) = Len(m.was) => l = m
    BY DEF KeptOn
  <1>1. /\ \A l \in lived : CountsFor(l, d) => Len(l.was) < Len(docs[d].body)
        /\ \A l, m \in lived : CountsFor(l, d) /\ CountsFor(m, d) /\ Len(l.was) = Len(m.was) => l = m
    BY DEF KeptOn
  <1>2. ASSUME NEW l \in lived', CountsFor(l, d) PROVE Len(l.was) < Len(docs'[d].body)
    <2>1. l \in lived
      BY <1>2
    <2> QED
      BY <1>1, <1>2, <2>1
  <1> QED
    BY <1>1, <1>2

\* A call that ends having written to the document as it was.
LEMMA KeptGrows ==
  ASSUME NEW d, KeptOn(d), edits' = edits, NEW new, lived' = lived \cup {new}, new.was = docs[d].body,
         Len(docs[d].body) \in Nat, Len(docs'[d].body) \in Nat, \A l \in lived : Len(l.was) \in Nat,
         Len(docs[d].body) < Len(docs'[d].body)
  PROVE  KeptOn(d)'
  <1> SUFFICES ASSUME edits = 0, \A l \in lived' : ~SwappedOn(l, d)
               PROVE  /\ \A l \in lived' : CountsFor(l, d) => Len(l.was) < Len(docs'[d].body)
                      /\ \A l, m \in lived' : CountsFor(l, d) /\ CountsFor(m, d) /\ Len(l.was) = Len(m.was) => l = m
    BY DEF KeptOn
  <1>1. /\ \A l \in lived : CountsFor(l, d) => Len(l.was) < Len(docs[d].body)
        /\ \A l, m \in lived : CountsFor(l, d) /\ CountsFor(m, d) /\ Len(l.was) = Len(m.was) => l = m
    BY DEF KeptOn
  <1>2. Len(new.was) = Len(docs[d].body)
    OBVIOUS
  <1>3. ASSUME NEW l \in lived', CountsFor(l, d) PROVE Len(l.was) < Len(docs'[d].body)
    BY <1>1, <1>2, <1>3
  <1>4. ASSUME NEW l \in lived', NEW m \in lived', CountsFor(l, d), CountsFor(m, d), Len(l.was) = Len(m.was)
        PROVE  l = m
    BY <1>1, <1>2, <1>4
  <1> QED
    BY <1>3, <1>4

LEMMA KeptNext ==
  ASSUME DriveAssumption, DriveInv, KeptInv, DriveStep
  PROVE  KeptInv'
  <1>1. /\ DOMAIN docs = 1 .. Len(docs) /\ Len(docs) \in Nat /\ docs \in Seq([body : Seq(Words), text : Texts])
        /\ \A l \in lived : Len(l.was) \in Nat /\ l.on \in 0 .. Len(docs)
    <2>1. /\ docs \in Seq([body : Seq(Words), text : Texts])
          /\ lived \subseteq [call : DriveCalls, how : {"ok", "error"}, on : 0 .. Len(docs), was : Seq(Words)]
      BY DEF DriveInv, DriveTypeOK
    <2>2. \A l \in lived : l.was \in Seq(Words) /\ l.on \in 0 .. Len(docs)
      BY <2>1
    <2> QED
      BY <2>1, <2>2, LenProperties
  <1>2. \A d \in DOMAIN docs : KeptOn(d) /\ Len(docs[d].body) \in Nat
    BY <1>1, BodyLength DEF KeptInv
  <1>3. SUFFICES ASSUME NEW d \in DOMAIN docs' PROVE KeptOn(d)'
    BY DEF KeptInv
  \* The documents stay, and so does what was written to this one.
  <1>4. ASSUME docs' = docs, edits' = edits, lived \subseteq lived', \A l \in lived' : l \in lived \/ ~CountsFor(l, d)
        PROVE  KeptOn(d)'
    <2>1. d \in DOMAIN docs /\ Len(docs[d].body) \in Nat /\ KeptOn(d) /\ docs'[d].body = docs[d].body
      BY <1>2, <1>3, <1>4
    <2>2. Len(docs[d].body) <= Len(docs'[d].body) /\ Len(docs'[d].body) \in Nat
      BY <2>1
    <2> QED
      BY <1>1, <1>4, <2>1, <2>2, KeptStays
  <1>5. ASSUME NEW s \in Servers, NEW how, NEW on, NEW was, Finished(s, how, on, was)
        PROVE  LET l == [call |-> toolCall[s], how |-> how, on |-> on, was |-> was]
               IN  /\ lived' = lived \cup {l}
                   /\ l.call = toolCall[s] /\ l.how = how /\ l.on = on /\ l.was = was
    BY <1>5 DEF Finished
  <1>6. ASSUME NEW s \in Servers, NEW how, NEW on, NEW was, Finished(s, how, on, was), docs' = docs, edits' = edits,
               how = "error" \/ toolCall[s].tool \notin {"append_text", "insert_text", "create_document"}
        PROVE  KeptOn(d)'
    <2>1. \A l \in lived' : l \in lived \/ ~CountsFor(l, d)
      BY <1>5, <1>6 DEF CountsFor
    <2>2. lived \subseteq lived'
      BY <1>5, <1>6
    <2> QED
      BY <1>4, <1>6, <2>1, <2>2
  \* A text was inserted into a document.
  <1>7. ASSUME NEW s \in Servers, NEW body \in Seq(Words), Writes(toolCall[s].doc, body), edits' = edits,
               Longer(body, docs[toolCall[s].doc].body, toolCall[s].text),
               Finished(s, "ok", toolCall[s].doc, docs[toolCall[s].doc].body)
        PROVE  KeptOn(d)'
    <2> DEFINE k == toolCall[s].doc
               new == [call |-> toolCall[s], how |-> "ok", on |-> k, was |-> docs[k].body]
    <2>1. /\ lived' = lived \cup {new}
          /\ new.call = toolCall[s] /\ new.on = k /\ new.was = docs[k].body
      BY <1>5, <1>7
    <2>2. /\ DOMAIN docs' = DOMAIN docs /\ docs'[k].body = body /\ k \in DOMAIN docs
          /\ docs' \in Seq([body : Seq(Words), text : Texts])
          /\ \A e \in DOMAIN docs : e # k => docs'[e] = docs[e]
      BY <1>1, <1>7, DocsWritten DEF Writes
    <2>3. Len(docs[d].body) \in Nat /\ Len(docs'[d].body) \in Nat /\ KeptOn(d) /\ lived \subseteq lived'
      BY <1>2, <1>3, <2>1, <2>2, BodyLength
    <2> HIDE DEF new
    <2>4. CASE d # k
      <3>1. docs'[d] = docs[d]
        BY <1>3, <2>2, <2>4
      <3>2. \A l \in lived' : l \in lived \/ ~CountsFor(l, d)
        BY <2>1, <2>4 DEF CountsFor
      <3>3. Len(docs[d].body) <= Len(docs'[d].body)
        BY <2>3, <3>1
      <3> QED
        BY <1>1, <1>7, <2>3, <3>2, <3>3, KeptStays
    <2>5. CASE d = k /\ toolCall[s].text = <<>>
      <3>1. \A l \in lived' : l \in lived \/ ~CountsFor(l, d)
        BY <2>1, <2>5 DEF CountsFor
      <3>2. Len(docs[d].body) <= Len(docs'[d].body)
        BY <1>7, <2>2, <2>3, <2>5 DEF Longer
      <3> QED
        BY <1>1, <1>7, <2>3, <3>1, <3>2, KeptStays
    <2>6. CASE d = k /\ toolCall[s].text # <<>>
      <3>1. Len(docs[d].body) < Len(docs'[d].body)
        BY <1>7, <2>2, <2>3, <2>6 DEF Longer
      <3>2. new.was = docs[d].body
        BY <2>1, <2>6
      <3> QED
        BY <1>1, <1>7, <2>1, <2>3, <3>1, <3>2, KeptGrows
    <2> QED
      BY <2>4, <2>5, <2>6
  <1>8. ASSUME NEW s \in Servers, Asked(s) PROVE KeptOn(d)'
    <2>1. PICK c : Started(s, c) \/ Refused(c)
      BY <1>8 DEF Asked
    <2>2. lived \subseteq lived' /\ \A l \in lived' : l \in lived \/ ~CountsFor(l, d)
      BY <2>1 DEF Started, Refused, CountsFor
    <2> QED
      BY <1>4, <1>8, <2>2 DEF Asked
  <1>9. ASSUME NEW s \in Servers, Got(s) \/ Failed(s) PROVE KeptOn(d)'
    BY <1>6, <1>9 DEF Got, Failed, Still
  <1>10. ASSUME NEW s \in Servers, ReadEnd(s) PROVE KeptOn(d)'
    BY <1>4, <1>10 DEF ReadEnd, Still
  <1>11. ASSUME NEW s \in Servers, Put(s) PROVE KeptOn(d)'
    <2>1. edits' = edits
      BY <1>11 DEF Put, Still
    <2>2. CASE docs' = docs /\ Finished(s, "error", toolCall[s].doc, <<>>)
      BY <1>6, <2>1, <2>2
    <2>3. CASE /\ \E body \in Seq(Words) : /\ Writes(toolCall[s].doc, body)
                                           /\ Longer(body, docs[toolCall[s].doc].body, toolCall[s].text)
               /\ Finished(s, "ok", toolCall[s].doc, docs[toolCall[s].doc].body)
      BY <1>7, <2>1, <2>3
    <2> QED
      BY <1>11, <2>2, <2>3 DEF Put
  <1>12. ASSUME NEW s \in Servers, Swapped(s) PROVE KeptOn(d)'
    <2> DEFINE k == toolCall[s].doc
               new == [call |-> toolCall[s], how |-> "ok", on |-> k, was |-> docs[k].body]
    <2>1. PICK body \in Seq(Words) : Writes(k, body)
      BY <1>12 DEF Swapped
    <2>2. /\ edits' = edits /\ toolCall[s].tool = "replace_text"
          /\ Finished(s, "ok", k, docs[k].body)
      BY <1>12 DEF Swapped, Still
    <2>3. lived' = lived \cup {new} /\ new.call = toolCall[s] /\ new.on = k
      BY <1>5, <2>2
    <2>4. /\ DOMAIN docs' = DOMAIN docs /\ docs' \in Seq([body : Seq(Words), text : Texts])
          /\ \A e \in DOMAIN docs : e # k => docs'[e] = docs[e]
      BY <1>1, <2>1, DocsWritten
    <2> HIDE DEF new
    <2>5. CASE d = k
      <3>1. new \in lived' /\ SwappedOn(new, d)
        BY <2>2, <2>3, <2>5 DEF SwappedOn
      <3> QED
        BY <3>1 DEF KeptOn
    <2>6. CASE d # k
      <3>1. docs'[d] = docs[d] /\ KeptOn(d) /\ Len(docs[d].body) \in Nat
        BY <1>2, <1>3, <2>4, <2>6
      <3>2. lived \subseteq lived' /\ \A l \in lived' : l \in lived \/ ~CountsFor(l, d)
        BY <2>3, <2>6 DEF CountsFor
      <3>3. Len(docs[d].body) <= Len(docs'[d].body) /\ Len(docs'[d].body) \in Nat
        BY <3>1
      <3> QED
        BY <1>1, <2>2, <3>1, <3>2, <3>3, KeptStays
    <2> QED
      BY <2>5, <2>6
  <1>13. ASSUME NEW s \in Servers, Made(s) PROVE KeptOn(d)'
    <2>1. /\ DOMAIN docs' = 1 .. Len(docs) + 1
          /\ \A e \in 1 .. Len(docs) : docs'[e] = docs[e]
      BY <1>13, DocsAdded DEF Made
    <2>2. /\ edits' = edits /\ lived \subseteq lived'
          /\ \A l \in lived' : l \in lived \/ ~CountsFor(l, d)
      <3>1. CASE toolCall[s].text = <<>> /\ Finished(s, "ok", Len(docs) + 1, <<>>)
        BY <1>5, <1>13, <3>1 DEF Made, Still, CountsFor
      <3>2. CASE lived' = lived
        BY <1>13, <3>2 DEF Made, Still
      <3> QED
        BY <1>13, <3>1, <3>2 DEF Made
    <2>3. CASE d = Len(docs) + 1
      <3>1. \A l \in lived : ~CountsFor(l, d)
        BY <1>1, <2>3 DEF CountsFor
      <3> QED
        BY <2>2, <3>1 DEF KeptOn
    <2>4. CASE d # Len(docs) + 1
      <3>1. d \in DOMAIN docs
        BY <1>1, <1>3, <2>1, <2>4
      <3>2. docs'[d] = docs[d] /\ KeptOn(d) /\ Len(docs[d].body) \in Nat
        BY <1>1, <1>2, <2>1, <3>1
      <3>3. Len(docs[d].body) <= Len(docs'[d].body) /\ Len(docs'[d].body) \in Nat
        BY <3>2
      <3> QED
        BY <1>1, <2>2, <3>2, <3>3, KeptStays
    <2> QED
      BY <2>3, <2>4
  <1>14. ASSUME NEW s \in Servers, Filled(s) PROVE KeptOn(d)'
    BY <1>7, <1>14 DEF Filled, Still
  <1>15. CASE Edited
    BY <1>15 DEF Edited, KeptOn, DriveAssumption
  <1>16. CASE Apart
    BY <1>4, <1>16 DEF Apart
  <1> QED
    BY <1>8, <1>9, <1>10, <1>11, <1>12, <1>13, <1>14, <1>15, <1>16 DEF DriveStep

\* In secure mode a call runs as its caller, and one that ended ran so.
LEMMA CallersNext ==
  ASSUME DriveInv, CallersActAsThemselves, DriveStep
  PROVE  CallersActAsThemselves'
  <1>1. SUFFICES ASSUME mode' = "secure"
                 PROVE  /\ \A r \in Servers : toolCall'[r] # NoDriveCall => toolCall'[r].cred.as = "caller"
                        /\ \A l \in lived' : l.call.cred.as # "caller" => l.how = "error" /\ l.on = 0
    BY DEF CallersActAsThemselves
  <1>2. mode' = mode
    BY DEF DriveStep, Asked, Got, ReadEnd, Put, Swapped, Made, Filled, Failed, Edited, Apart, Still
  <1>3. /\ mode = "secure"
        /\ \A r \in Servers : toolCall[r] # NoDriveCall => toolCall[r].cred.as = "caller"
        /\ \A l \in lived : l.call.cred.as # "caller" => l.how = "error" /\ l.on = 0
    BY <1>1, <1>2 DEF CallersActAsThemselves
  <1>4. DOMAIN toolCall = Servers
    BY DEF DriveInv, DriveTypeOK
  <1>5. ASSUME NEW s \in Servers, Asked(s)
        PROVE  /\ \A r \in Servers : toolCall'[r] # NoDriveCall => toolCall'[r].cred.as = "caller"
               /\ \A l \in lived' : l.call.cred.as # "caller" => l.how = "error" /\ l.on = 0
    <2>1. PICK c : Started(s, c) \/ Refused(c)
      BY <1>5 DEF Asked
    <2>2. CASE Started(s, c)
      BY <1>3, <1>4, <2>2 DEF Started
    <2>3. CASE Refused(c)
      BY <1>3, <2>3 DEF Refused
    <2> QED
      BY <2>1, <2>2, <2>3
  <1>6. ASSUME NEW s \in Servers, NEW how, NEW on, NEW was, Finished(s, how, on, was)
        PROVE  /\ \A r \in Servers : toolCall'[r] # NoDriveCall => toolCall'[r].cred.as = "caller"
               /\ \A l \in lived' : l.call.cred.as # "caller" => l.how = "error" /\ l.on = 0
    BY <1>3, <1>4, <1>6 DEF Finished
  <1>7. ASSUME NEW s \in Servers, NEW c, toolCall' = [toolCall EXCEPT ![s] = c], c.cred = toolCall[s].cred,
               lived' = lived, toolCall[s] # NoDriveCall
        PROVE  /\ \A r \in Servers : toolCall'[r] # NoDriveCall => toolCall'[r].cred.as = "caller"
               /\ \A l \in lived' : l.call.cred.as # "caller" => l.how = "error" /\ l.on = 0
    BY <1>3, <1>4, <1>7
  <1>8. ASSUME NEW s \in Servers, Got(s) \/ Put(s) \/ Swapped(s) \/ Filled(s) \/ Failed(s)
        PROVE  \E how, on, was : Finished(s, how, on, was)
    BY <1>8 DEF Got, Put, Swapped, Filled, Failed
  <1>9. ASSUME NEW s \in Servers, Made(s) \/ ReadEnd(s)
        PROVE  \/ \E how, on, was : Finished(s, how, on, was)
               \/ /\ \E c : toolCall' = [toolCall EXCEPT ![s] = c] /\ c.cred = toolCall[s].cred
                  /\ lived' = lived /\ toolCall[s] # NoDriveCall
    BY <1>9 DEF Made, ReadEnd
  <1>10. CASE Edited \/ Apart
    BY <1>3, <1>10 DEF Edited, Apart
  <1>11. CASE \E s \in Servers : Asked(s)
    BY <1>5, <1>11
  <1>12. CASE \E s \in Servers : Got(s) \/ Put(s) \/ Swapped(s) \/ Filled(s) \/ Failed(s)
    BY <1>6, <1>8, <1>12
  <1>13. CASE \E s \in Servers : Made(s) \/ ReadEnd(s)
    BY <1>6, <1>7, <1>9, <1>13
  <1> QED
    BY <1>10, <1>11, <1>12, <1>13 DEF DriveStep

\* A call of a server that is not behind UTC started with a token that was alive.
LEMMA AliveNext ==
  ASSUME DriveInv, TokensAreAlive, DriveStep
  PROVE  TokensAreAlive'
  <1>1. zone' = zone /\ DOMAIN toolCall = Servers
    BY DEF DriveStep, Asked, Got, ReadEnd, Put, Swapped, Made, Filled, Failed, Edited, Apart, Still, DriveInv, DriveTypeOK
  <1>2. ASSUME NEW s \in Servers, NEW c, toolCall' = [toolCall EXCEPT ![s] = c],
               c = NoDriveCall \/ (zone[s] >= 0 => c.cred.until > c.at)
        PROVE  TokensAreAlive'
    BY <1>1, <1>2 DEF TokensAreAlive
  <1>3. ASSUME NEW s \in Servers, Asked(s) PROVE TokensAreAlive'
    <2>1. PICK c : Started(s, c) \/ Refused(c)
      BY <1>3 DEF Asked
    <2>2. CASE Started(s, c)
      BY <1>2, <2>2 DEF Started
    <2>3. CASE Refused(c)
      BY <1>1, <2>3 DEF Refused, TokensAreAlive
    <2> QED
      BY <2>1, <2>2, <2>3
  <1>4. ASSUME NEW s \in Servers, Got(s) \/ Put(s) \/ Swapped(s) \/ Filled(s) \/ Failed(s)
        PROVE  TokensAreAlive'
    <2>1. toolCall' = [toolCall EXCEPT ![s] = NoDriveCall]
      BY <1>4 DEF Got, Put, Swapped, Filled, Failed, Finished
    <2> QED
      BY <1>2, <2>1
  <1>5. ASSUME NEW s \in Servers, Made(s) \/ ReadEnd(s) PROVE TokensAreAlive'
    <2>1. \/ toolCall' = [toolCall EXCEPT ![s] = NoDriveCall]
          \/ /\ toolCall[s] # NoDriveCall
             /\ \E c : /\ toolCall' = [toolCall EXCEPT ![s] = c]
                       /\ c.cred = toolCall[s].cred /\ c.at = toolCall[s].at
      BY <1>5 DEF Made, ReadEnd, Finished
    <2>2. toolCall[s] # NoDriveCall /\ zone[s] >= 0 => toolCall[s].cred.until > toolCall[s].at
      BY DEF TokensAreAlive
    <2> QED
      BY <1>2, <2>1, <2>2
  <1>6. CASE Edited \/ Apart
    BY <1>6 DEF Edited, Apart, TokensAreAlive
  <1> QED
    BY <1>3, <1>4, <1>5, <1>6 DEF DriveStep

(***************************************************************************)
(* The theorems.                                                           *)
(***************************************************************************)
DriveHolds == DriveInv /\ AppendedAtTheEnd /\ EmptyInv /\ KeptInv /\ CallersActAsThemselves /\ TokensAreAlive

\* In the initial states nothing was called.
LEMMA DriveHoldsInit ==
  ASSUME DriveAssumption, DriveInit
  PROVE  DriveHolds
  <1>1. DriveInv
    BY DriveInvInit
  <1>2. AppendedAtTheEnd /\ CallersActAsThemselves /\ TokensAreAlive
    BY DEF DriveInit, AppendedAtTheEnd, CallersActAsThemselves, TokensAreAlive
  <1>3. EmptyInv /\ KeptInv
    BY DEF DriveInit, EmptyInv, KeptInv, KeptOn
  <1> QED
    BY <1>1, <1>2, <1>3 DEF DriveHolds

\* A step that leaves everything keeps all of it.
LEMMA DriveHoldsStutters ==
  ASSUME DriveHolds, UNCHANGED driveVars
  PROVE  DriveHolds'
  <1>1. DriveInv'
    BY DEF driveVars, DriveHolds, DriveInv, DriveTypeOK, CacheInv, Underway
  <1>2. AppendedAtTheEnd' /\ CallersActAsThemselves' /\ TokensAreAlive'
    BY DEF driveVars, DriveHolds, AppendedAtTheEnd, CallersActAsThemselves, TokensAreAlive
  <1>3. EmptyInv' /\ KeptInv'
    BY DEF driveVars, DriveHolds, EmptyInv, Excused, KeptInv, KeptOn
  <1> QED
    BY <1>1, <1>2, <1>3 DEF DriveHolds

\* The invariant of the Drive server.
LEMMA DriveAlways ==
  DriveSpec => []DriveHolds
  <1>1. DriveInit => DriveHolds
    BY DriveAssumption, DriveHoldsInit
  <1>2. DriveHolds /\ [DriveNext]_driveVars => DriveHolds'
    <2>1. SUFFICES ASSUME DriveHolds, [DriveNext]_driveVars PROVE DriveHolds'
      OBVIOUS
    <2>2. CASE UNCHANGED driveVars
      BY <2>1, <2>2, DriveHoldsStutters
    <2>3. CASE DriveNext
      <3>1. DriveStep
        BY <2>1, <2>3, DriveAssumption, StepsSaid DEF DriveHolds
      <3>2. DriveInv' /\ AppendedAtTheEnd' /\ EmptyInv' /\ KeptInv' /\ CallersActAsThemselves' /\ TokensAreAlive'
        BY <2>1, <3>1, DriveAssumption, DriveInvNext, AppendedNext, EmptyNext, KeptNext, CallersNext, AliveNext DEF DriveHolds
      <3> QED
        BY <3>2 DEF DriveHolds
    <2> QED
      BY <2>1, <2>2, <2>3
  <1> QED
    BY <1>1, <1>2, PTL DEF DriveSpec

\* Types (DriveTypeOK): whatever is written, inserted, replaced or removed, a document
\* stays a sequence of characters, and calls, credentials and caches keep their shape.
THEOREM DriveTypes ==
  DriveSpec => []DriveTypeOK
  <1>1. DriveHolds => DriveTypeOK
    BY DEF DriveHolds, DriveInv
  <1> QED
    BY <1>1, DriveAlways, PTL

\* create_document, append_text, insert_text (server.py:367-447): for every number of
\* servers, documents and texts.  An appended text went in at the end its own call read
\* (which is the document's end unless it grew in between: it is not said to be the
\* last); while no one else edits or replaces, no text is lost to another call; and a new
\* document lacks its text only while that is underway or after an error was reported.
THEOREM TextsHeld ==
  DriveSpec => []DocumentsHoldTheirText
  <1>1. DriveHolds => DocumentsHoldTheirText
    BY EmptyIs, KeptIs DEF DriveHolds, DocumentsHoldTheirText
  <1> QED
    BY <1>1, DriveAlways, PTL

\* _access_token, _service_account_token (server.py:116-208): a call runs under the
\* credential the mode asks for, while it is valid, for every lifetime of a token and
\* every offset from UTC.
THEOREM CredentialsGiven ==
  DriveSpec => []CredentialsFit
  <1>1. DriveHolds => CredentialsFit
    BY DEF DriveHolds, CredentialsFit
  <1> QED
    BY <1>1, DriveAlways, PTL

(***************************************************************************)
(* The context optimizer.                                                  *)
(***************************************************************************)

(***************************************************************************)
(* Lists.                                                                  *)
(***************************************************************************)
\* What is in a list.
Elems(s) == {s[i] : i \in DOMAIN s}
IsList(s) == s \in Seq(Elems(s))

\* A list is a function on an interval.
LEMMA ListIs ==
  ASSUME NEW s
  PROVE  IsList(s) <=> (/\ Len(s) \in Nat /\ DOMAIN s = 1..Len(s)
                        /\ s = [i \in 1..Len(s) |-> s[i]])
  <1>1. ASSUME IsList(s) PROVE /\ Len(s) \in Nat /\ DOMAIN s = 1..Len(s)
                               /\ s = [i \in 1..Len(s) |-> s[i]]
    BY <1>1, LenProperties DEF IsList
  <1>2. ASSUME Len(s) \in Nat, DOMAIN s = 1..Len(s), s = [i \in 1..Len(s) |-> s[i]]
        PROVE  IsList(s)
    BY <1>2 DEF IsList, Elems
  <1> QED
    BY <1>1, <1>2

\* A function on an interval is a list.
LEMMA FunctionIsList ==
  ASSUME NEW n \in Nat, NEW f, f = [i \in 1..n |-> f[i]]
  PROVE  IsList(f) /\ Len(f) = n /\ DOMAIN f = 1..n
  <1>1. f \in [1..n -> Elems(f)] /\ DOMAIN f = 1..n
    BY DEF Elems
  <1>2. f \in Seq(Elems(f)) /\ Len(f) = n
    BY <1>1
  <1> QED
    BY <1>1, <1>2 DEF IsList

\* One list after another.
LEMMA Joined ==
  ASSUME NEW a, NEW b, IsList(a), IsList(b)
  PROVE  /\ IsList(a \o b) /\ Len(a \o b) = Len(a) + Len(b)
         /\ \A i \in DOMAIN a : i \in DOMAIN (a \o b) /\ (a \o b)[i] = a[i]
         /\ \A i \in DOMAIN b : Len(a) + i \in DOMAIN (a \o b) /\ (a \o b)[Len(a) + i] = b[i]
         /\ \A k \in DOMAIN (a \o b) : \/ k \in DOMAIN a /\ (a \o b)[k] = a[k]
                                       \/ /\ k - Len(a) \in DOMAIN b /\ k > Len(a)
                                          /\ (a \o b)[k] = b[k - Len(a)]
  <1> DEFINE S == Elems(a) \cup Elems(b)
  <1>1. a \in Seq(S) /\ b \in Seq(S)
    <2>1. \A s : IsList(s) /\ Elems(s) \subseteq S => s \in Seq(S)
      BY DEF IsList
    <2> QED
      BY <2>1
  <1>2. /\ a \o b \in Seq(S) /\ Len(a \o b) = Len(a) + Len(b)
        /\ \A i \in 1..Len(a) + Len(b) : (a \o b)[i] = IF i <= Len(a) THEN a[i] ELSE b[i - Len(a)]
    BY <1>1, ConcatProperties
  <1>3. Len(a) \in Nat /\ DOMAIN a = 1..Len(a) /\ Len(b) \in Nat /\ DOMAIN b = 1..Len(b)
    BY ListIs
  <1>4. /\ a \o b \in [1..Len(a \o b) -> S] /\ DOMAIN (a \o b) = 1..Len(a \o b) /\ Len(a \o b) \in Nat
    BY <1>2, LenProperties
  <1>5. IsList(a \o b)
    BY <1>4, ListIs
  <1>6. DOMAIN (a \o b) = 1..(Len(a) + Len(b))
    BY <1>2, <1>4
  <1> HIDE DEF S
  <1>7. /\ \A i \in DOMAIN a : i \in DOMAIN (a \o b) /\ (a \o b)[i] = a[i]
        /\ \A i \in DOMAIN b : Len(a) + i \in DOMAIN (a \o b) /\ (a \o b)[Len(a) + i] = b[i]
    BY <1>2, <1>3, <1>6
  <1>8. \A k \in DOMAIN (a \o b) : \/ k \in DOMAIN a /\ (a \o b)[k] = a[k]
                                   \/ /\ k - Len(a) \in DOMAIN b /\ k > Len(a)
                                      /\ (a \o b)[k] = b[k - Len(a)]
    BY <1>2, <1>3, <1>6
  <1> QED
    BY <1>2, <1>5, <1>7, <1>8

(***************************************************************************)
(* A stable sort: the k-th place is the one that k are not after.          *)
(***************************************************************************)
\* How many are not after x, itself included.
Rank(x, P) == Cardinality({y \in P : Ahead(y, x)})

\* Ahead is a total order of places.
LEMMA AheadIsOrder ==
  \A x, y, z \in Nat \X Nat :
    /\ Ahead(x, x) /\ (Ahead(x, y) \/ Ahead(y, x))
    /\ Ahead(x, y) /\ Ahead(y, x) => x = y
    /\ Ahead(x, y) /\ Ahead(y, z) => Ahead(x, z)
  BY DEF Ahead

\* An interval from 1 is as large as it ends.
LEMMA IntervalSize ==
  ASSUME NEW n \in Nat PROVE IsFiniteSet(1..n) /\ Cardinality(1..n) = n
  <1>1. IsFiniteSet(1..n) /\ Cardinality(1..n) = IF 1 > n THEN 0 ELSE n - 1 + 1
    BY FS_Interval
  <1> QED
    BY <1>1

\* Ranks are the numbers up to the size of a finite set, each once.
LEMMA RankIs ==
  ASSUME NEW P, IsFiniteSet(P), P \subseteq Nat \X Nat
  PROVE  /\ Cardinality(P) \in Nat
         /\ \A x \in P : Rank(x, P) \in 1..Cardinality(P)
         /\ \A x, y \in P : Ahead(x, y) /\ x # y => Rank(x, P) < Rank(y, P)
         /\ \A k \in 1..Cardinality(P) : \E x \in P : Rank(x, P) = k
  <1> DEFINE B(x) == {y \in P : Ahead(y, x)}
             n == Cardinality(P)
  <1>1. n \in Nat
    BY FS_CardinalityType
  <1>2. \A x \in P : IsFiniteSet(B(x)) /\ Cardinality(B(x)) \in Nat /\ Cardinality(B(x)) <= n
    BY FS_Subset, FS_CardinalityType
  <1>3. \A x \in P : Rank(x, P) \in 1..n
    <2>1. \A x \in P : x \in B(x)
      BY AheadIsOrder
    <2>2. \A x \in P : Cardinality(B(x)) # 0
      BY <1>2, <2>1, FS_EmptySet
    <2>3. \A x \in P : Rank(x, P) = Cardinality(B(x))
      BY DEF Rank
    <2> HIDE DEF B, n
    <2> QED
      BY <1>1, <1>2, <2>2, <2>3
  <1>4. \A x, y \in P : Ahead(x, y) /\ x # y => Rank(x, P) < Rank(y, P)
    <2> SUFFICES ASSUME NEW x \in P, NEW y \in P, Ahead(x, y), x # y
                 PROVE  Cardinality(B(x)) < Cardinality(B(y))
      BY DEF Rank
    <2>1. B(x) \subseteq B(y) /\ y \in B(y) /\ y \notin B(x)
      BY AheadIsOrder
    <2>2. Cardinality(B(x)) <= Cardinality(B(y)) /\ Cardinality(B(x)) # Cardinality(B(y))
      BY <1>2, <2>1, FS_Subset
    <2> QED
      BY <1>2, <2>2
  <1>5. \A k \in 1..n : \E x \in P : Rank(x, P) = k
    <2> DEFINE f == [x \in P |-> Rank(x, P)]
    <2>1. f \in [P -> 1..n]
      BY <1>3
    <2>2. ASSUME NEW x \in P, NEW y \in P, x # y PROVE f[x] # f[y]
      <3>1. Ahead(x, y) \/ Ahead(y, x)
        BY AheadIsOrder
      <3>2. Rank(x, P) < Rank(y, P) \/ Rank(y, P) < Rank(x, P)
        BY <1>4, <2>2, <3>1
      <3> QED
        BY <1>3, <3>2
    <2>3. f \in Injection(P, 1..n)
      BY <2>1, <2>2 DEF Injection, IsInjective
    <2>4. IsFiniteSet(1..n) /\ Cardinality(1..n) = n
      BY <1>1, IntervalSize
    <2>5. f \in Surjection(P, 1..n)
      BY <2>3, <2>4, FS_Injection
    <2> QED
      BY <2>5 DEF Surjection
  <1> QED
    BY <1>1, <1>3, <1>4, <1>5

\* The places of an arrangement, in their order.
Order(at, P) ==
  /\ at \in [1..Cardinality(P) -> P]
  /\ \A j, k \in 1..Cardinality(P) : j < k => Ahead(at[j], at[k]) /\ at[j] # at[k]
  /\ \A x \in P : \E k \in 1..Cardinality(P) : at[k] = x

\* An arrangement shows each place once, in their order.
LEMMA ArrangedIs ==
  ASSUME NEW s, NEW P, IsFiniteSet(P), P \subseteq Nat \X Nat
  PROVE  /\ IsList(Arranged(s, P)) /\ Len(Arranged(s, P)) = Cardinality(P) /\ Cardinality(P) \in Nat
         /\ DOMAIN Arranged(s, P) = 1..Cardinality(P)
         /\ \E at : Order(at, P) /\ \A k \in 1..Cardinality(P) : Arranged(s, P)[k] = s[at[k][2]]
  <1> DEFINE n == Cardinality(P)
             A(k) == CHOOSE x \in P : Cardinality({y \in P : Ahead(y, x)}) = k
             at == [k \in 1..n |-> A(k)]
  <1>1. n \in Nat
    BY RankIs
  <1>2. \A k \in 1..n : A(k) \in P /\ Rank(A(k), P) = k
    <2>1. \A k \in 1..n : \E x \in P : Rank(x, P) = k
      BY RankIs
    <2>2. \A k : A(k) = CHOOSE x \in P : Rank(x, P) = k
      BY DEF Rank
    <2> HIDE DEF A
    <2> QED
      BY <2>1, <2>2
  <1> HIDE DEF A
  <1>3. Order(at, P)
    <2>1. at \in [1..n -> P]
      BY <1>2
    <2>2. \A j, k \in 1..n : j < k => Ahead(at[j], at[k]) /\ at[j] # at[k]
      <3> SUFFICES ASSUME NEW j \in 1..n, NEW k \in 1..n, j < k
                   PROVE  Ahead(A(j), A(k)) /\ A(j) # A(k)
        OBVIOUS
      <3>1. A(j) # A(k)
        BY <1>2
      <3>2. Ahead(A(j), A(k)) \/ Ahead(A(k), A(j))
        BY <1>2, AheadIsOrder
      <3>3. ~Ahead(A(k), A(j))
        BY <1>1, <1>2, <3>1, RankIs
      <3> QED
        BY <3>1, <3>2, <3>3
    <2>3. ASSUME NEW x \in P PROVE \E k \in 1..n : at[k] = x
      <3>1. Rank(x, P) \in 1..n
        BY RankIs
      <3>2. A(Rank(x, P)) = x
        <4> DEFINE y == A(Rank(x, P))
        <4>1. y \in P /\ Rank(y, P) = Rank(x, P)
          BY <1>2, <3>1
        <4>2. ASSUME x # y PROVE FALSE
          <5>1. Ahead(x, y) \/ Ahead(y, x)
            BY <4>1, AheadIsOrder
          <5>2. Rank(x, P) < Rank(y, P) \/ Rank(y, P) < Rank(x, P)
            BY <4>1, <4>2, <5>1, RankIs
          <5> QED
            BY <3>1, <4>1, <5>2
        <4> QED
          BY <4>2
      <3> QED
        BY <3>1, <3>2
    <2> QED
      BY <2>1, <2>2, <2>3 DEF Order
  <1>4. Arranged(s, P) = [k \in 1..n |-> s[A(k)[2]]]
    BY DEF Arranged, A
  <1>5. /\ IsList(Arranged(s, P)) /\ Len(Arranged(s, P)) = n
        /\ DOMAIN Arranged(s, P) = 1..n
    BY <1>1, <1>4, FunctionIsList
  <1>6. \A k \in 1..n : Arranged(s, P)[k] = s[at[k][2]]
    BY <1>4
  <1> QED
    BY <1>1, <1>3, <1>5, <1>6

\* Places <<key(i), i>> of the indexes of a list are as many as these.
LEMMA PlacesFinite ==
  ASSUME NEW J, IsFiniteSet(J), J \subseteq Nat, NEW P,
         P \subseteq Nat \X J, \A x, y \in P : x[2] = y[2] => x = y
  PROVE  IsFiniteSet(P) /\ P \subseteq Nat \X Nat
  <1> DEFINE f == [x \in P |-> x[2]]
  <1>1. f \in Injection(P, J)
    BY DEF Injection, IsInjective
  <1> QED
    BY <1>1, FS_Injection

\* What is taken from a list keeps its order.
LEMMA ItemsAtIs ==
  ASSUME NEW s, IsList(s), NEW I
  PROVE  LET t == ItemsAt(s, I) IN
         /\ IsList(t)
         /\ \E ix : /\ \A k \in DOMAIN t : ix[k] \in I \cap DOMAIN s /\ t[k] = s[ix[k]]
                    /\ \A j, k \in DOMAIN t : j < k => ix[j] < ix[k]
                    /\ \A i \in I \cap DOMAIN s : \E k \in DOMAIN t : ix[k] = i
  <1> DEFINE J == I \cap DOMAIN s
             P == {<<i, i>> : i \in J}
             t == ItemsAt(s, I)
  <1>1. DOMAIN s = 1..Len(s) /\ Len(s) \in Nat
    BY ListIs
  <1>2. IsFiniteSet(J) /\ J \subseteq Nat
    BY <1>1, IntervalSize, FS_Subset
  <1>3. IsFiniteSet(P) /\ P \subseteq Nat \X Nat
    BY <1>2, PlacesFinite
  <1>4. t = Arranged(s, P)
    BY DEF ItemsAt
  <1> HIDE DEF P, t, J
  <1>5. PICK at : /\ Order(at, P)
                  /\ \A k \in 1..Cardinality(P) : t[k] = s[at[k][2]]
    BY <1>3, <1>4, ArrangedIs
  <1>6. IsList(t) /\ DOMAIN t = 1..Cardinality(P)
    BY <1>3, <1>4, ArrangedIs
  <1> DEFINE ix == [k \in DOMAIN t |-> at[k][2]]
  <1>7. \A x \in P : x = <<x[2], x[2]>> /\ x[2] \in J /\ x[2] \in Nat
    BY <1>2 DEF P
  <1>8. \A k \in DOMAIN t : at[k] \in P
    BY <1>5, <1>6 DEF Order
  <1>9. \A k \in DOMAIN t : ix[k] \in J /\ t[k] = s[ix[k]]
    BY <1>5, <1>6, <1>7, <1>8
  <1>10. \A j, k \in DOMAIN t : j < k => ix[j] < ix[k]
    <2> SUFFICES ASSUME NEW j \in DOMAIN t, NEW k \in DOMAIN t, j < k PROVE at[j][2] < at[k][2]
      OBVIOUS
    <2>1. Ahead(at[j], at[k]) /\ at[j] # at[k]
      BY <1>5, <1>6 DEF Order
    <2>2. at[j] = <<at[j][2], at[j][2]>> /\ at[k] = <<at[k][2], at[k][2]>>
          /\ at[j][2] \in Nat /\ at[k][2] \in Nat
      BY <1>7, <1>8
    <2>3. at[j][1] = at[j][2] /\ at[k][1] = at[k][2] /\ at[j][2] # at[k][2]
      BY <2>1, <2>2
    <2> QED
      BY <2>1, <2>2, <2>3 DEF Ahead
  <1>11. ASSUME NEW i \in J PROVE \E k \in DOMAIN t : ix[k] = i
    <2>1. <<i, i>> \in P
      BY DEF P
    <2>2. PICK k \in 1..Cardinality(P) : at[k] = <<i, i>>
      BY <1>5, <2>1 DEF Order
    <2> QED
      BY <1>6, <2>2
  <1> QED
    BY <1>6, <1>9, <1>10, <1>11 DEF J, t

(***************************************************************************)
(* Items.                                                                  *)
(***************************************************************************)
\* The record of an item.
Item(id, pos, role, text, size, times, cut, asks, resp, pinned, score) ==
  [id |-> id, pos |-> pos, role |-> role, text |-> text, size |-> size, times |-> times,
   cut |-> cut, calls |-> asks, resp |-> resp, pinned |-> pinned, score |-> score]
AnItem(it) == it = Item(it.id, it.pos, it.role, it.text, it.size, it.times, it.cut,
                        it.calls, it.resp, it.pinned, it.score)

\* The fields of an item.
LEMMA ItemIs ==
  ASSUME NEW id, NEW pos, NEW role, NEW text, NEW size, NEW times, NEW cut, NEW asks, NEW resp,
         NEW pinned, NEW score
  PROVE  LET it == Item(id, pos, role, text, size, times, cut, asks, resp, pinned, score)
         IN  /\ it.id = id /\ it.pos = pos /\ it.role = role /\ it.text = text /\ it.size = size
             /\ it.times = times /\ it.cut = cut /\ it.calls = asks /\ it.resp = resp
             /\ it.pinned = pinned /\ it.score = score /\ AnItem(it)
  BY DEF Item, AnItem

\* What replacing a field of an item gives: the mark of a cut.
LEMMA Item_cut ==
  ASSUME NEW it, AnItem(it), NEW v
  PROVE  [it EXCEPT !.cut = v]
         = Item(it.id, it.pos, it.role, it.text, it.size, it.times, v, it.calls, it.resp, it.pinned, it.score)
  <1>1. ASSUME NEW id, NEW pos, NEW role, NEW text, NEW size, NEW times, NEW cut, NEW asks,
               NEW resp, NEW pinned, NEW score
        PROVE  [Item(id, pos, role, text, size, times, cut, asks, resp, pinned, score) EXCEPT !.cut = v]
               = Item(id, pos, role, text, size, times, v, asks, resp, pinned, score)
    BY DEF Item
  <1> QED
    BY <1>1 DEF AnItem

\* Its pin.
LEMMA Item_pinned ==
  ASSUME NEW it, AnItem(it), NEW v
  PROVE  [it EXCEPT !.pinned = v]
         = Item(it.id, it.pos, it.role, it.text, it.size, it.times, it.cut, it.calls, it.resp, v, it.score)
  <1>1. ASSUME NEW id, NEW pos, NEW role, NEW text, NEW size, NEW times, NEW cut, NEW asks,
               NEW resp, NEW pinned, NEW score
        PROVE  [Item(id, pos, role, text, size, times, cut, asks, resp, pinned, score) EXCEPT !.pinned = v]
               = Item(id, pos, role, text, size, times, cut, asks, resp, v, score)
    BY DEF Item
  <1> QED
    BY <1>1 DEF AnItem

\* Its score.
LEMMA Item_score ==
  ASSUME NEW it, AnItem(it), NEW v
  PROVE  [it EXCEPT !.score = v]
         = Item(it.id, it.pos, it.role, it.text, it.size, it.times, it.cut, it.calls, it.resp, it.pinned, v)
  <1>1. ASSUME NEW id, NEW pos, NEW role, NEW text, NEW size, NEW times, NEW cut, NEW asks,
               NEW resp, NEW pinned, NEW score
        PROVE  [Item(id, pos, role, text, size, times, cut, asks, resp, pinned, score) EXCEPT !.score = v]
               = Item(id, pos, role, text, size, times, cut, asks, resp, pinned, v)
    BY DEF Item
  <1> QED
    BY <1>1 DEF AnItem

\* Its count of repetitions.
LEMMA Item_times ==
  ASSUME NEW it, AnItem(it), NEW v
  PROVE  [it EXCEPT !.times = v]
         = Item(it.id, it.pos, it.role, it.text, it.size, v, it.cut, it.calls, it.resp, it.pinned, it.score)
  <1>1. ASSUME NEW id, NEW pos, NEW role, NEW text, NEW size, NEW times, NEW cut, NEW asks,
               NEW resp, NEW pinned, NEW score
        PROVE  [Item(id, pos, role, text, size, times, cut, asks, resp, pinned, score) EXCEPT !.times = v]
               = Item(id, pos, role, text, size, v, cut, asks, resp, pinned, score)
    BY DEF Item
  <1> QED
    BY <1>1 DEF AnItem

\* Its identity.
LEMMA Item_id ==
  ASSUME NEW it, AnItem(it), NEW v
  PROVE  [it EXCEPT !.id = v]
         = Item(v, it.pos, it.role, it.text, it.size, it.times, it.cut, it.calls, it.resp, it.pinned, it.score)
  <1>1. ASSUME NEW id, NEW pos, NEW role, NEW text, NEW size, NEW times, NEW cut, NEW asks,
               NEW resp, NEW pinned, NEW score
        PROVE  [Item(id, pos, role, text, size, times, cut, asks, resp, pinned, score) EXCEPT !.id = v]
               = Item(v, pos, role, text, size, times, cut, asks, resp, pinned, score)
    BY DEF Item
  <1> QED
    BY <1>1 DEF AnItem

\* Its size.
LEMMA Item_size ==
  ASSUME NEW it, AnItem(it), NEW v
  PROVE  [it EXCEPT !.size = v]
         = Item(it.id, it.pos, it.role, it.text, v, it.times, it.cut, it.calls, it.resp, it.pinned, it.score)
  <1>1. ASSUME NEW id, NEW pos, NEW role, NEW text, NEW size, NEW times, NEW cut, NEW asks,
               NEW resp, NEW pinned, NEW score
        PROVE  [Item(id, pos, role, text, size, times, cut, asks, resp, pinned, score) EXCEPT !.size = v]
               = Item(id, pos, role, text, v, times, cut, asks, resp, pinned, score)
    BY DEF Item
  <1> QED
    BY <1>1 DEF AnItem

\* An item is a version of the message it is stamped with, or a summary.
Stems(it, msgs, a, p) ==
  /\ AnItem(it) /\ it.pinned \in BOOLEAN /\ it.cut \in BOOLEAN
  /\ it.id = <<it.id[1], it.id[2]>> /\ it.id[1] = it.pos /\ it.id[2] \in Nat
  /\ it.id[2] = 0 => ~it.cut
  /\ it.pinned => Plain(it)
  /\ it.size \in Nat /\ it.score \in Nat /\ Len(it.calls) \in Nat
  /\ it.pos \in {NoPos} \cup DOMAIN msgs
  /\ it.pos = NoPos => it.role = "system" /\ p = "summarizing"
  /\ it.pos # NoPos => LET m == ToItem(msgs, it.pos, a)
                       IN  /\ it.role = m.role /\ it.text = m.text
                           /\ it.calls = m.calls /\ it.resp = m.resp
                           /\ m.pinned => it.pinned

\* new is a version of old.
Version(old, new) ==
  /\ AnItem(new) /\ new.pinned \in BOOLEAN /\ new.cut \in BOOLEAN
  /\ new.id = <<new.id[1], new.id[2]>> /\ new.id[1] = old.id[1] /\ new.id[2] \in Nat
  /\ new.id = old.id => new.cut = old.cut
  /\ new.id # old.id => new.id[2] # 0
  /\ new.pos = old.pos /\ new.role = old.role /\ new.text = old.text
  /\ new.calls = old.calls /\ new.resp = old.resp
  /\ old.size \in Nat => new.size \in Nat
  /\ old.score \in Nat => new.score \in Nat
  /\ old.pinned => new.pinned
  /\ new.pinned => old.pinned \/ Plain(old)

\* A version stems from the same message, and calls and answers what it does.
LEMMA VersionStems ==
  ASSUME NEW msgs, NEW a, NEW p, NEW old, NEW new, Stems(old, msgs, a, p), Version(old, new)
  PROVE  /\ Stems(new, msgs, a, p)
         /\ Plain(new) = Plain(old) /\ HasCalls(new) = HasCalls(old) /\ IsResponse(new) = IsResponse(old)
         /\ CallIds(new) = CallIds(old) /\ Answered(new) = Answered(old)
  <1>1. /\ HasCalls(new) = HasCalls(old) /\ IsResponse(new) = IsResponse(old)
        /\ CallIds(new) = CallIds(old) /\ Answered(new) = Answered(old)
    BY DEF Version, HasCalls, IsResponse, CallIds, Answered
  <1>2. Plain(new) = Plain(old)
    BY <1>1 DEF Plain
  <1>3. new.pinned => Plain(new)
    BY <1>2 DEF Stems, Version
  <1>4. new.id[2] = 0 => ~new.cut
    BY DEF Stems, Version
  <1> QED
    BY <1>1, <1>2, <1>3, <1>4 DEF Stems, Version

\* What an item answers and calls is what its message does.
LEMMA SameMessage ==
  ASSUME NEW msgs, NEW a, NEW p, NEW x, NEW y, Stems(x, msgs, a, p), Stems(y, msgs, a, p),
         x.pos = y.pos, x.pos # NoPos
  PROVE  /\ x.role = y.role /\ x.text = y.text /\ x.calls = y.calls /\ x.resp = y.resp
         /\ Plain(x) = Plain(y) /\ HasCalls(x) = HasCalls(y) /\ IsResponse(x) = IsResponse(y)
         /\ CallIds(x) = CallIds(y) /\ Answered(x) = Answered(y)
  <1>1. x.role = y.role /\ x.text = y.text /\ x.calls = y.calls /\ x.resp = y.resp
    BY DEF Stems
  <1> QED
    BY <1>1 DEF Plain, HasCalls, IsResponse, CallIds, Answered

\* What neither calls nor answers, and what does one does not do the other.
LEMMA PlainIs ==
  ASSUME NEW x
  PROVE  /\ Plain(x) => CallIds(x) = {} /\ Answered(x) = {}
         /\ CallIds(x) # {} => HasCalls(x) /\ ~IsResponse(x)
         /\ Answered(x) # {} => IsResponse(x) /\ ~HasCalls(x) /\ Answered(x) = {x.resp}
         /\ ~Plain(x) => x.role \in {"assistant", "tool"}
  BY DEF Plain, HasCalls, IsResponse, CallIds, Answered

\* The lists that layers hand on: at most one version of a call and of an answer.
ListOK(s, msgs, a, p) ==
  /\ IsList(s)
  /\ \A i \in DOMAIN s : Stems(s[i], msgs, a, p)
  /\ \A i, j \in DOMAIN s : ~Plain(s[i]) /\ ~Plain(s[j]) /\ s[i].pos = s[j].pos => i = j

\* In the order of the messages.
InOrderOf(s) == \A i, j \in DOMAIN s : i < j /\ s[i].pos # NoPos /\ s[j].pos # NoPos => s[i].pos <= s[j].pos

\* A selection of versions, in their order.
LEMMA ItemsAtOK ==
  ASSUME NEW msgs, NEW a, NEW p, NEW s, NEW I, ListOK(s, msgs, a, p)
  PROVE  /\ ListOK(ItemsAt(s, I), msgs, a, p)
         /\ InOrderOf(s) => InOrderOf(ItemsAt(s, I))
  <1> DEFINE t == ItemsAt(s, I)
  <1>1. PICK ix : /\ \A k \in DOMAIN t : ix[k] \in I \cap DOMAIN s /\ t[k] = s[ix[k]]
                  /\ \A j, k \in DOMAIN t : j < k => ix[j] < ix[k]
    BY ItemsAtIs DEF ListOK
  <1>2. IsList(t) /\ DOMAIN t = 1..Len(t) /\ Len(t) \in Nat
    BY ItemsAtIs, ListIs DEF ListOK
  <1>3. DOMAIN s = 1..Len(s) /\ Len(s) \in Nat
    BY ListIs DEF ListOK
  <1> HIDE DEF t
  <1>4. \A j, k \in DOMAIN t : ix[j] = ix[k] => j = k
    <2> SUFFICES ASSUME NEW j \in DOMAIN t, NEW k \in DOMAIN t, ix[j] = ix[k], j # k PROVE FALSE
      OBVIOUS
    <2>1. ix[j] < ix[k] \/ ix[k] < ix[j]
      BY <1>1, <1>2
    <2>2. ix[j] \in Nat
      BY <1>1, <1>3
    <2> QED
      BY <2>1, <2>2
  <1>5. ListOK(t, msgs, a, p)
    BY <1>1, <1>2, <1>4 DEF ListOK
  <1>6. InOrderOf(s) => InOrderOf(t)
    BY <1>1, <1>2 DEF InOrderOf
  <1> QED
    BY <1>5, <1>6 DEF t

\* A layer that replaces each item by a version of it.
LEMMA VersionsOK ==
  ASSUME NEW msgs, NEW a, NEW p, NEW s, NEW t, ListOK(s, msgs, a, p),
         t = [i \in DOMAIN s |-> t[i]], \A i \in DOMAIN s : Version(s[i], t[i])
  PROVE  ListOK(t, msgs, a, p) /\ (InOrderOf(s) => InOrderOf(t))
  <1>1. DOMAIN s = 1..Len(s) /\ Len(s) \in Nat
    BY ListIs DEF ListOK
  <1>2. IsList(t) /\ DOMAIN t = DOMAIN s
    BY <1>1, FunctionIsList
  <1>3. \A i \in DOMAIN t : Stems(t[i], msgs, a, p) /\ Plain(t[i]) = Plain(s[i]) /\ t[i].pos = s[i].pos
    BY <1>2, VersionStems DEF ListOK, Version
  <1>4. ListOK(t, msgs, a, p)
    BY <1>2, <1>3 DEF ListOK
  <1> QED
    BY <1>2, <1>3, <1>4 DEF InOrderOf

\* Two lists with no version of one call or answer in both.
LEMMA JoinedOK ==
  ASSUME NEW msgs, NEW a, NEW p, NEW s, NEW t, ListOK(s, msgs, a, p), ListOK(t, msgs, a, p),
         \A i \in DOMAIN s, j \in DOMAIN t : ~Plain(s[i]) /\ ~Plain(t[j]) => s[i].pos # t[j].pos
  PROVE  ListOK(s \o t, msgs, a, p)
  <1> DEFINE st == s \o t
  <1>1. IsList(s) /\ IsList(t)
    BY DEF ListOK
  <1>2. /\ IsList(st)
        /\ \A k \in DOMAIN st : \/ k \in DOMAIN s /\ st[k] = s[k]
                                \/ k - Len(s) \in DOMAIN t /\ st[k] = t[k - Len(s)]
    BY <1>1, Joined
  <1>3. Len(s) \in Nat /\ DOMAIN st = 1..Len(st) /\ Len(st) \in Nat
    BY <1>1, <1>2, ListIs
  <1> HIDE DEF st
  <1>4. \A k \in DOMAIN st : Stems(st[k], msgs, a, p)
    BY <1>2 DEF ListOK
  <1>5. ASSUME NEW i \in DOMAIN st, NEW j \in DOMAIN st,
               ~Plain(st[i]), ~Plain(st[j]), st[i].pos = st[j].pos
        PROVE  i = j
    <2>1. CASE i \in DOMAIN s /\ st[i] = s[i] /\ j \in DOMAIN s /\ st[j] = s[j]
      BY <1>5, <2>1 DEF ListOK
    <2>2. CASE /\ i - Len(s) \in DOMAIN t /\ st[i] = t[i - Len(s)]
               /\ j - Len(s) \in DOMAIN t /\ st[j] = t[j - Len(s)]
      <3>1. i - Len(s) = j - Len(s)
        BY <1>5, <2>2 DEF ListOK
      <3> QED
        BY <1>3, <3>1
    <2>3. CASE i \in DOMAIN s /\ st[i] = s[i] /\ j - Len(s) \in DOMAIN t /\ st[j] = t[j - Len(s)]
      BY <1>5, <2>3
    <2>4. CASE j \in DOMAIN s /\ st[j] = s[j] /\ i - Len(s) \in DOMAIN t /\ st[i] = t[i - Len(s)]
      BY <1>5, <2>4
    <2> QED
      BY <1>2, <2>1, <2>2, <2>3, <2>4
  <1>6. ListOK(st, msgs, a, p)
    BY <1>2, <1>4, <1>5 DEF ListOK
  <1> QED
    BY <1>6 DEF st

\* A set of numbers has a least one.
LEMMA MinIsNat ==
  ASSUME NEW T, T \subseteq Nat, T # {} PROVE Min(T) \in T
  <1>1. PICK n \in T : \A k \in T : ~(k < n)
    BY LeastSize
  <1>2. \A k \in T : n <= k
    BY <1>1
  <1> QED
    BY <1>2 DEF Min

\* Where an item was stamped, or a number.
LEMMA PositionIs ==
  ASSUME NEW msgs, NEW a, NEW p, NEW it, NEW s, NEW n \in Nat, IsList(s),
         Stems(it, msgs, a, p), DOMAIN msgs \subseteq Nat
  PROVE  /\ Position(it, s, n) \in Nat
         /\ it.pos # NoPos => Position(it, s, n) = it.pos
  <1>1. CASE it.pos # NoPos
    BY <1>1 DEF Position, Stems
  <1>2. CASE it.pos = NoPos
    <2> DEFINE T == {Len(s) + n + 1} \cup {i \in DOMAIN s : s[i].id = it.id}
    <2>1. T \subseteq Nat /\ T # {}
      BY ListIs
    <2>2. Min(T) \in Nat
      BY <2>1, MinIsNat
    <2> QED
      BY <1>2, <2>2 DEF Position
  <1> QED
    BY <1>1, <1>2

\* The repair of a layer's result: it holds everything the layer returned and
\* everything pinned that came in, in the order of the messages, and no second
\* version of a call or of an answer.
LEMMA RepairOK ==
  ASSUME NEW msgs, NEW a, NEW p, NEW before, NEW after,
         ListOK(before, msgs, a, p), ListOK(after, msgs, a, p), DOMAIN msgs \subseteq Nat,
         NEW r, r = Repair(before, after)
  PROVE  /\ ListOK(r, msgs, a, p) /\ InOrderOf(r)
         /\ \A i \in DOMAIN after : \E k \in DOMAIN r : r[k] = after[i]
         /\ \A i \in DOMAIN before : before[i].pinned =>
              \E k \in DOMAIN r : r[k].id = before[i].id
  <1> DEFINE L == ItemsAt(before, Lost(before, after))
             kept == after \o L
             H == ItemsAt(before, Halves(before, kept))
             all == kept \o H
             P == {<<Position(all[i], before, Len(all)), i>> : i \in DOMAIN all}
  <1>1. IsList(before) /\ IsList(after)
    BY DEF ListOK
  <1>2. ListOK(L, msgs, a, p) /\ \A k \in DOMAIN L : Plain(L[k])
    <2>1. ListOK(L, msgs, a, p)
      BY ItemsAtOK
    <2>2. \A k \in DOMAIN L : \E i \in Lost(before, after) : L[k] = before[i]
      <3>1. \E ix : \A k \in DOMAIN L : ix[k] \in Lost(before, after) \cap DOMAIN before /\ L[k] = before[ix[k]]
        BY <1>1, ItemsAtIs
      <3> QED
        BY <3>1
    <2>3. \A i \in Lost(before, after) : Plain(before[i])
      BY DEF Lost, ListOK, Stems
    <2> HIDE DEF L
    <2> QED
      BY <2>1, <2>2, <2>3
  <1>3. ListOK(kept, msgs, a, p)
    <2> HIDE DEF L
    <2> QED
      BY <1>2, JoinedOK
  <1> HIDE DEF kept
  <1>4. /\ ListOK(H, msgs, a, p)
        /\ \A k \in DOMAIN H : \E i \in Halves(before, kept) : H[k] = before[i]
    <2>1. ListOK(H, msgs, a, p)
      BY ItemsAtOK
    <2>2. \E ix : \A k \in DOMAIN H : ix[k] \in Halves(before, kept) \cap DOMAIN before /\ H[k] = before[ix[k]]
      BY <1>1, ItemsAtIs
    <2> HIDE DEF H
    <2> QED
      BY <2>1, <2>2
  <1>5. ASSUME NEW i \in Halves(before, kept), NEW k \in DOMAIN kept,
               ~Plain(before[i]), ~Plain(kept[k]), before[i].pos = kept[k].pos
        PROVE  FALSE
    <2>1. /\ i \in DOMAIN before
          /\ \/ Answered(before[i]) \cap (AllCalls(kept) \ AllAnswered(kept)) # {}
             \/ CallIds(before[i]) \cap (AllAnswered(kept) \ AllCalls(kept)) # {}
      BY DEF Halves
    <2>2. Stems(before[i], msgs, a, p) /\ Stems(kept[k], msgs, a, p)
      BY <1>3, <2>1 DEF ListOK
    <2>3. before[i].pos # NoPos
      BY <1>5, <2>2, PlainIs DEF Stems
    <2>4. CallIds(before[i]) = CallIds(kept[k]) /\ Answered(before[i]) = Answered(kept[k])
      BY <1>5, <2>2, <2>3, SameMessage
    <2>5. CallIds(kept[k]) \subseteq AllCalls(kept) /\ Answered(kept[k]) \subseteq AllAnswered(kept)
      BY DEF AllCalls, AllAnswered
    <2> QED
      BY <2>1, <2>4, <2>5
  <1>6. ListOK(all, msgs, a, p)
    <2> HIDE DEF H
    <2>1. \A k \in DOMAIN kept, j \in DOMAIN H : ~Plain(kept[k]) /\ ~Plain(H[j]) => kept[k].pos # H[j].pos
      BY <1>4, <1>5
    <2> QED
      BY <1>3, <1>4, <2>1, JoinedOK
  <1>7. /\ \A i \in DOMAIN after : \E k \in DOMAIN all : all[k] = after[i]
        /\ \A i \in DOMAIN before : before[i].pinned => \E k \in DOMAIN all : all[k].id = before[i].id
    <2>1. IsList(L) /\ IsList(kept) /\ IsList(H)
      BY <1>2, <1>3, <1>4 DEF ListOK
    <2>2. \A k \in DOMAIN kept : \E m \in DOMAIN all : all[m] = kept[k]
      <3> HIDE DEF H
      <3> QED
        BY <2>1, Joined
    <2>3. /\ \A i \in DOMAIN after : \E k \in DOMAIN kept : kept[k] = after[i]
          /\ \A i \in DOMAIN L : \E k \in DOMAIN kept : kept[k] = L[i]
      <3> HIDE DEF L
      <3> QED
        BY <1>1, <2>1, Joined DEF kept
    <2>4. \A i \in Lost(before, after) : \E k \in DOMAIN L : L[k] = before[i]
      <3>1. Lost(before, after) \subseteq DOMAIN before
        BY DEF Lost
      <3>2. \E ix : /\ \A k \in DOMAIN L : L[k] = before[ix[k]]
                    /\ \A i \in Lost(before, after) \cap DOMAIN before : \E k \in DOMAIN L : ix[k] = i
        BY <1>1, ItemsAtIs
      <3> HIDE DEF L
      <3> QED
        BY <3>1, <3>2
    <2>5. \A i \in DOMAIN before : before[i].pinned /\ i \notin Lost(before, after) =>
            \E k \in DOMAIN after : after[k].id = before[i].id
      BY DEF Lost, ObjectIds
    <2> HIDE DEF L, all
    <2> QED
      BY <2>2, <2>3, <2>4, <2>5
  <1>8. r = Arranged(all, P)
    BY DEF Repair, kept
  <1> HIDE DEF all
  <1>9. IsList(all) /\ DOMAIN all = 1..Len(all) /\ Len(all) \in Nat
    BY <1>6, ListIs DEF ListOK
  <1>10. \A i \in DOMAIN all : /\ Position(all[i], before, Len(all)) \in Nat
                               /\ all[i].pos # NoPos => Position(all[i], before, Len(all)) = all[i].pos
    BY <1>1, <1>6, <1>9, PositionIs DEF ListOK
  <1>11. \A x \in P : /\ x[2] \in DOMAIN all /\ x[1] = Position(all[x[2]], before, Len(all))
                      /\ x = <<x[1], x[2]>>
    OBVIOUS
  <1>12. IsFiniteSet(P) /\ P \subseteq Nat \X Nat
    <2>1. IsFiniteSet(DOMAIN all) /\ DOMAIN all \subseteq Nat
      BY <1>9, IntervalSize
    <2>2. P \subseteq Nat \X DOMAIN all
      BY <1>10
    <2>3. \A x, y \in P : x[2] = y[2] => x = y
      OBVIOUS
    <2> HIDE DEF P
    <2> QED
      BY <2>1, <2>2, <2>3, PlacesFinite
  <1>13. \A i \in DOMAIN all : <<Position(all[i], before, Len(all)), i>> \in P
    OBVIOUS
  <1> HIDE DEF P
  <1>14. PICK at : /\ Order(at, P)
                   /\ \A k \in 1..Cardinality(P) : r[k] = all[at[k][2]]
    BY <1>8, <1>12, ArrangedIs
  <1>15. IsList(r) /\ DOMAIN r = 1..Cardinality(P) /\ Cardinality(P) \in Nat
    BY <1>8, <1>12, ArrangedIs
  <1>16. \A k \in DOMAIN r : at[k] \in P /\ r[k] = all[at[k][2]] /\ at[k][2] \in DOMAIN all
    BY <1>11, <1>14, <1>15 DEF Order
  <1>17. \A j, k \in DOMAIN r : at[j][2] = at[k][2] => j = k
    <2> SUFFICES ASSUME NEW j \in DOMAIN r, NEW k \in DOMAIN r, at[j][2] = at[k][2], j # k PROVE FALSE
      OBVIOUS
    <2>1. at[j] = at[k]
      BY <1>11, <1>16
    <2>2. j < k \/ k < j
      BY <1>15
    <2> QED
      BY <1>14, <1>15, <2>1, <2>2 DEF Order
  <1>18. ListOK(r, msgs, a, p)
    BY <1>6, <1>15, <1>16, <1>17 DEF ListOK
  <1>19. InOrderOf(r)
    <2> SUFFICES ASSUME NEW j \in DOMAIN r, NEW k \in DOMAIN r, j < k,
                        r[j].pos # NoPos, r[k].pos # NoPos
                 PROVE  r[j].pos <= r[k].pos
      BY DEF InOrderOf
    <2>1. Ahead(at[j], at[k])
      BY <1>14, <1>15 DEF Order
    <2>2. at[j][1] = r[j].pos /\ at[k][1] = r[k].pos /\ r[j].pos \in Nat /\ r[k].pos \in Nat
      BY <1>10, <1>11, <1>16
    <2> QED
      BY <2>1, <2>2 DEF Ahead
  <1>20. \A i \in DOMAIN all : \E k \in DOMAIN r : r[k] = all[i]
    <2> SUFFICES ASSUME NEW i \in DOMAIN all PROVE \E k \in DOMAIN r : r[k] = all[i]
      OBVIOUS
    <2>1. <<Position(all[i], before, Len(all)), i>> \in P
      BY <1>13
    <2>2. PICK k \in DOMAIN r : at[k] = <<Position(all[i], before, Len(all)), i>>
      BY <1>14, <1>15, <2>1 DEF Order
    <2> QED
      BY <1>16, <2>1, <2>2
  <1>21. /\ \A i \in DOMAIN after : \E k \in DOMAIN r : r[k] = after[i]
         /\ \A i \in DOMAIN before : before[i].pinned => \E k \in DOMAIN r : r[k].id = before[i].id
    BY <1>7, <1>20
  <1> QED
    BY <1>18, <1>19, <1>21

(***************************************************************************)
(* Rounds of calls and answers.                                            *)
(***************************************************************************)
\* The same content.
Same(x, y) == x.role = y.role /\ x.text = y.text /\ x.calls = y.calls /\ x.resp = y.resp

\* Items with the same content call and answer the same.
LEMMA SameIs ==
  ASSUME NEW x, NEW y, Same(x, y)
  PROVE  /\ Plain(x) = Plain(y) /\ HasCalls(x) = HasCalls(y) /\ IsResponse(x) = IsResponse(y)
         /\ CallIds(x) = CallIds(y) /\ Answered(x) = Answered(y)
         /\ Fingerprint(x) = Fingerprint(y)
  BY DEF Same, Plain, HasCalls, IsResponse, CallIds, Answered, Fingerprint

\* Each round of s has one with the same calls and the same answer in t.
Told(s, t) == \A p \in CallPairs(s) : \E q \in CallPairs(t) :
                /\ Fingerprint(t[q[1]]) = Fingerprint(s[p[1]])
                /\ t[q[2]].text = s[p[2]].text
\* What calls or answers in s is in t.
Held(s, t) == \A i \in DOMAIN s : ~Plain(s[i]) => \E k \in DOMAIN t : Same(t[k], s[i])

\* What a pair of a call and its answer is.
LEMMA PairIs ==
  ASSUME NEW s, NEW i, NEW j
  PROVE  /\ <<i, j>> \in CallPairs(s) <=> (/\ i \in DOMAIN s /\ j \in DOMAIN s
                                           /\ Answered(s[j]) \cap CallIds(s[i]) # {})
         /\ \A p \in CallPairs(s) : p = <<p[1], p[2]>> /\ p[1] \in DOMAIN s /\ p[2] \in DOMAIN s
                                    /\ Answered(s[p[2]]) \cap CallIds(s[p[1]]) # {}
  BY DEF CallPairs

\* A list that holds the calls and the answers tells the rounds.
LEMMA HeldTold ==
  ASSUME NEW s, NEW t, Held(s, t) PROVE Told(s, t)
  <1> SUFFICES ASSUME NEW p \in CallPairs(s)
               PROVE  \E q \in CallPairs(t) : /\ Fingerprint(t[q[1]]) = Fingerprint(s[p[1]])
                                              /\ t[q[2]].text = s[p[2]].text
    BY DEF Told
  <1>1. /\ p[1] \in DOMAIN s /\ p[2] \in DOMAIN s
        /\ Answered(s[p[2]]) \cap CallIds(s[p[1]]) # {}
    BY PairIs
  <1>2. ~Plain(s[p[1]]) /\ ~Plain(s[p[2]])
    BY <1>1, PlainIs
  <1>3. PICK i \in DOMAIN t : Same(t[i], s[p[1]])
    BY <1>1, <1>2 DEF Held
  <1>4. PICK j \in DOMAIN t : Same(t[j], s[p[2]])
    BY <1>1, <1>2 DEF Held
  <1>5. <<i, j>> \in CallPairs(t)
    BY <1>1, <1>3, <1>4, SameIs, PairIs
  <1>6. Fingerprint(t[i]) = Fingerprint(s[p[1]]) /\ t[j].text = s[p[2]].text
    BY <1>3, <1>4, SameIs DEF Same
  <1> QED
    BY <1>5, <1>6

\* Told of what tells.
LEMMA ToldOn ==
  ASSUME NEW s, NEW t, NEW u, Told(s, t), Told(t, u) PROVE Told(s, u)
  <1> SUFFICES ASSUME NEW p \in CallPairs(s)
               PROVE  \E q \in CallPairs(u) : /\ Fingerprint(u[q[1]]) = Fingerprint(s[p[1]])
                                              /\ u[q[2]].text = s[p[2]].text
    BY DEF Told
  <1>1. PICK q \in CallPairs(t) : Fingerprint(t[q[1]]) = Fingerprint(s[p[1]]) /\ t[q[2]].text = s[p[2]].text
    BY DEF Told
  <1>2. PICK r \in CallPairs(u) : Fingerprint(u[r[1]]) = Fingerprint(t[q[1]]) /\ u[r[2]].text = t[q[2]].text
    BY DEF Told
  <1> QED
    BY <1>1, <1>2

\* An item calls and answers what its message does.
LEMMA AsSaid ==
  ASSUME NEW msgs, NEW a, NEW p, NEW x, Stems(x, msgs, a, p), ~Plain(x)
  PROVE  /\ x.pos \in DOMAIN msgs /\ x.pos # NoPos
         /\ Same(x, to_items(msgs, a)[x.pos])
         /\ DOMAIN to_items(msgs, a) = DOMAIN msgs
  <1>1. x.pos # NoPos /\ x.pos \in DOMAIN msgs
    BY PlainIs DEF Stems
  <1>2. to_items(msgs, a)[x.pos] = ToItem(msgs, x.pos, a) /\ DOMAIN to_items(msgs, a) = DOMAIN msgs
    BY <1>1 DEF to_items
  <1> QED
    BY <1>1, <1>2 DEF Stems, Same

\* In a list of a conversation in rounds, a call id stands for one item that calls and
\* one that answers it.
LEMMA OnePerId ==
  ASSUME NEW msgs, NEW a, NEW p, NEW s, ListOK(s, msgs, a, p), InRounds(to_items(msgs, a)),
         NEW i \in DOMAIN s, NEW j \in DOMAIN s
  PROVE  /\ CallIds(s[i]) \cap CallIds(s[j]) # {} => i = j
         /\ Answered(s[i]) \cap Answered(s[j]) # {} => i = j
  <1> DEFINE S == to_items(msgs, a)
  <1>1. Stems(s[i], msgs, a, p) /\ Stems(s[j], msgs, a, p)
    BY DEF ListOK
  <1>2. ASSUME ~Plain(s[i]), ~Plain(s[j]), s[i].pos = s[j].pos PROVE i = j
    BY <1>2 DEF ListOK
  <1>3. ASSUME ~Plain(s[i]), ~Plain(s[j])
        PROVE  /\ s[i].pos \in DOMAIN S /\ s[j].pos \in DOMAIN S
               /\ CallIds(s[i]) = CallIds(S[s[i].pos]) /\ CallIds(s[j]) = CallIds(S[s[j].pos])
               /\ Answered(s[i]) = Answered(S[s[i].pos]) /\ Answered(s[j]) = Answered(S[s[j].pos])
    BY <1>1, <1>3, AsSaid, SameIs
  <1>4. \A m, n \in DOMAIN S : m # n => CallIds(S[m]) \cap CallIds(S[n]) = {} /\ Answered(S[m]) \cap Answered(S[n]) = {}
    BY DEF InRounds
  <1> HIDE DEF S
  <1>5. CASE CallIds(s[i]) \cap CallIds(s[j]) # {} \/ Answered(s[i]) \cap Answered(s[j]) # {}
    <2>1. ~Plain(s[i]) /\ ~Plain(s[j])
      BY <1>5, PlainIs
    <2> QED
      BY <1>2, <1>3, <1>4, <1>5, <2>1
  <1> QED
    BY <1>5

(***************************************************************************)
(* What each layer returns.                                                *)
(***************************************************************************)
\* Replacing the content of an item makes a version of it.
LEMMA CopyIs ==
  ASSUME NEW msgs, NEW a, NEW p, NEW it, NEW size, Stems(it, msgs, a, p)
  PROVE  LET new == with_content(it, size)
         IN  /\ new.id = <<it.id[1], it.id[2] + 1>> /\ new.pos = it.pos /\ new.role = it.role
             /\ new.text = it.text /\ new.size = size /\ new.times = it.times /\ new.cut = it.cut
             /\ new.calls = it.calls /\ new.resp = it.resp /\ new.pinned = it.pinned
             /\ new.score = it.score /\ AnItem(new)
  <1> DEFINE v == <<it.id[1], it.id[2] + 1>>
  <1>1. AnItem(it)
    BY DEF Stems
  <1>2. with_content(it, size) = [it EXCEPT !.id = v, !.size = size]
    BY DEF with_content
  <1> HIDE DEF v
  <1> DEFINE moved == [it EXCEPT !.id = v]
  <1>4. moved = Item(v, it.pos, it.role, it.text, it.size, it.times, it.cut,
                     it.calls, it.resp, it.pinned, it.score)
    BY <1>1, Item_id
  <1>5. with_content(it, size) = [moved EXCEPT !.size = size]
    BY <1>2
  <1> HIDE DEF moved
  <1>6. /\ moved.id = v /\ moved.pos = it.pos /\ moved.role = it.role /\ moved.text = it.text
        /\ moved.times = it.times /\ moved.cut = it.cut /\ moved.calls = it.calls
        /\ moved.resp = it.resp /\ moved.pinned = it.pinned /\ moved.score = it.score /\ AnItem(moved)
    BY <1>4, ItemIs
  <1>3. with_content(it, size) = Item(v, it.pos, it.role, it.text, size, it.times, it.cut,
                                      it.calls, it.resp, it.pinned, it.score)
    BY <1>5, <1>6, Item_size
  <1> QED
    BY <1>3, ItemIs DEF v

\* An item is a version of itself.
LEMMA SameIsVersion ==
  ASSUME NEW msgs, NEW a, NEW p, NEW it, Stems(it, msgs, a, p) PROVE Version(it, it)
  BY DEF Stems, Version

\* What differs from an item in a newer id and in nothing that counts.
LEMMA NewerIsVersion ==
  ASSUME NEW msgs, NEW a, NEW p, NEW it, NEW new, Stems(it, msgs, a, p), AnItem(new),
         new.id = <<it.id[1], it.id[2] + 1>>, new.cut \in BOOLEAN,
         new.pos = it.pos, new.role = it.role, new.text = it.text,
         new.calls = it.calls, new.resp = it.resp, new.pinned = it.pinned,
         new.size \in Nat, new.score = it.score
  PROVE  Version(it, new)
  <1>1. it.id[2] \in Nat /\ it.id = <<it.id[1], it.id[2]>> /\ it.pinned \in BOOLEAN
    BY DEF Stems
  <1>2. /\ new.id = <<new.id[1], new.id[2]>> /\ new.id[1] = it.id[1] /\ new.id[2] = it.id[2] + 1
        /\ new.id # it.id /\ new.id[2] # 0 /\ new.id[2] \in Nat
    BY <1>1
  <1> QED
    BY <1>1, <1>2 DEF Version

\* What differs from an item in being pinned.
LEMMA PinnedIsVersion ==
  ASSUME NEW msgs, NEW a, NEW p, NEW it, NEW new, NEW pin, Stems(it, msgs, a, p), AnItem(new),
         new.id = it.id, new.cut = it.cut,
         new.pos = it.pos, new.role = it.role, new.text = it.text,
         new.calls = it.calls, new.resp = it.resp, new.pinned = pin,
         new.size = it.size, new.score \in Nat,
         pin \in BOOLEAN, it.pinned => pin, pin => it.pinned \/ Plain(it)
  PROVE  Version(it, new)
  <1>1. it.id[2] \in Nat /\ it.id = <<it.id[1], it.id[2]>> /\ it.cut \in BOOLEAN
    BY DEF Stems
  <1>2. /\ new.id = <<new.id[1], new.id[2]>> /\ new.id[1] = it.id[1] /\ new.id[2] \in Nat
        /\ new.cut \in BOOLEAN
    BY <1>1
  <1>3. new.pinned \in BOOLEAN /\ (it.pinned => new.pinned) /\ (new.pinned => it.pinned \/ Plain(it))
    BY Zenon
  <1> QED
    BY <1>2, <1>3 DEF Version

\* A trimmed item is a version.
LEMMA TrimmedIs ==
  ASSUME NEW msgs, NEW a, NEW p, NEW it, Stems(it, msgs, a, p)
  PROVE  Version(it, Trimmed(it))
  <1> DEFINE new == with_content(it, MAX_CHARS + 1)
             cut == [new EXCEPT !.cut = TRUE]
  <1>1. /\ new.id = <<it.id[1], it.id[2] + 1>> /\ new.pos = it.pos /\ new.role = it.role
        /\ new.text = it.text /\ new.calls = it.calls /\ new.resp = it.resp
        /\ new.pinned = it.pinned /\ new.score = it.score /\ new.size = MAX_CHARS + 1 /\ AnItem(new)
    BY CopyIs
  <1>5. MAX_CHARS + 1 \in Nat
    BY OptimizerAssumption
  <1> HIDE DEF new
  <1>2. /\ cut.id = new.id /\ cut.pos = new.pos /\ cut.role = new.role /\ cut.text = new.text
        /\ cut.calls = new.calls /\ cut.resp = new.resp /\ cut.pinned = new.pinned
        /\ cut.score = new.score /\ cut.size = new.size /\ cut.cut = TRUE /\ AnItem(cut)
    <2>1. cut = Item(new.id, new.pos, new.role, new.text, new.size, new.times, TRUE,
                     new.calls, new.resp, new.pinned, new.score)
      BY <1>1, Item_cut
    <2> DEFINE yes == TRUE
    <2> HIDE DEF cut, yes
    <2>2. cut = Item(new.id, new.pos, new.role, new.text, new.size, new.times, yes,
                     new.calls, new.resp, new.pinned, new.score)
      BY <2>1 DEF yes
    <2>3. /\ cut.id = new.id /\ cut.pos = new.pos /\ cut.role = new.role /\ cut.text = new.text
          /\ cut.calls = new.calls /\ cut.resp = new.resp /\ cut.pinned = new.pinned
          /\ cut.score = new.score /\ cut.size = new.size /\ cut.cut = yes /\ AnItem(cut)
      BY <2>2, ItemIs
    <2> QED
      BY <2>3 DEF yes
  <1> HIDE DEF cut
  <1>3. Version(it, cut)
    BY <1>1, <1>2, <1>5, NewerIsVersion
  <1>4. Trimmed(it) = it \/ Trimmed(it) = cut
    BY DEF Trimmed, cut, new
  <1> QED
    BY <1>3, <1>4, SameIsVersion

\* Versions hold what calls or answers.
LEMMA VersionsHeld ==
  ASSUME NEW msgs, NEW a, NEW p, NEW s, NEW t, ListOK(s, msgs, a, p),
         t = [i \in DOMAIN s |-> t[i]], \A i \in DOMAIN s : Version(s[i], t[i])
  PROVE  Held(s, t)
  <1>1. DOMAIN t = DOMAIN s
    OBVIOUS
  <1> QED
    BY <1>1 DEF Held, Version, Same

\* OversizedContentCompression and ToolResultCompression: a list of versions.
LEMMA OversizedOK ==
  ASSUME NEW msgs, NEW a, NEW p, NEW s, ListOK(s, msgs, a, p)
  PROVE  /\ ListOK(Oversized(s), msgs, a, p) /\ Held(s, Oversized(s))
         /\ ListOK(ToolResults(s), msgs, a, p) /\ Held(s, ToolResults(s))
  <1>1. \A i \in DOMAIN s : Version(s[i], Trimmed(s[i])) /\ Version(s[i], s[i])
    BY TrimmedIs, SameIsVersion DEF ListOK
  <1>2. /\ Oversized(s) = [i \in DOMAIN s |-> Oversized(s)[i]]
        /\ \A i \in DOMAIN s : Oversized(s)[i] = Trimmed(s[i])
    BY DEF Oversized
  <1>3. /\ ToolResults(s) = [i \in DOMAIN s |-> ToolResults(s)[i]]
        /\ \A i \in DOMAIN s : ToolResults(s)[i] \in {Trimmed(s[i]), s[i]}
    BY DEF ToolResults
  <1>4. /\ \A i \in DOMAIN s : Version(s[i], Oversized(s)[i])
        /\ \A i \in DOMAIN s : Version(s[i], ToolResults(s)[i])
    BY <1>1, <1>2, <1>3
  <1> QED
    BY <1>2, <1>3, <1>4, VersionsOK, VersionsHeld

\* A selection that keeps calls and answers.
LEMMA SelectionHeld ==
  ASSUME NEW s, NEW I, IsList(s), \A i \in DOMAIN s : ~Plain(s[i]) => i \in I
  PROVE  Held(s, ItemsAt(s, I))
  <1> DEFINE t == ItemsAt(s, I)
  <1>1. PICK ix : /\ \A k \in DOMAIN t : t[k] = s[ix[k]]
                  /\ \A i \in I \cap DOMAIN s : \E k \in DOMAIN t : ix[k] = i
    BY ItemsAtIs
  <1> HIDE DEF t
  <1>2. \A i \in DOMAIN s : ~Plain(s[i]) => \E k \in DOMAIN t : t[k] = s[i]
    BY <1>1
  <1>3. Held(s, t)
    BY <1>2 DEF Held, Same
  <1> QED
    BY <1>3 DEF t

\* Held in what is held.
LEMMA HeldOn ==
  ASSUME NEW s, NEW t, NEW u, Held(s, t), Held(t, u) PROVE Held(s, u)
  <1> SUFFICES ASSUME NEW i \in DOMAIN s, ~Plain(s[i]) PROVE \E k \in DOMAIN u : Same(u[k], s[i])
    BY DEF Held
  <1>1. PICK j \in DOMAIN t : Same(t[j], s[i])
    BY DEF Held
  <1>2. PICK k \in DOMAIN u : Same(u[k], t[j])
    BY <1>1, SameIs DEF Held
  <1> QED
    BY <1>1, <1>2 DEF Same

\* MessageDedup: calls and answers stay.
LEMMA DedupedOK ==
  ASSUME NEW msgs, NEW a, NEW p, NEW s, ListOK(s, msgs, a, p)
  PROVE  ListOK(Deduped(s), msgs, a, p) /\ Held(s, Deduped(s))
  <1> DEFINE same(i, j) == /\ Plain(s[i]) /\ Plain(s[j])
                           /\ s[i].role = s[j].role /\ Content(s[i]) = Content(s[j])
             first(i) == \A j \in 1..(i - 1) : ~same(i, j)
             pin(i) == s[i].pinned \/ \E j \in DOMAIN s : same(i, j) /\ first(i) /\ s[j].pinned
             marked == [i \in DOMAIN s |-> [s[i] EXCEPT !.pinned =
                          @ \/ \E j \in DOMAIN s : same(i, j) /\ first(i) /\ s[j].pinned]]
             I == {i \in DOMAIN s : first(i)}
  <1>1. Deduped(s) = ItemsAt(marked, I)
    BY DEF Deduped
  <1>2. ASSUME NEW i \in DOMAIN s PROVE marked[i] = [s[i] EXCEPT !.pinned = pin(i)]
    BY DEF Stems, ListOK
  <1>3. \A i \in DOMAIN s : /\ pin(i) \in BOOLEAN /\ (s[i].pinned => pin(i))
                            /\ (pin(i) => s[i].pinned \/ Plain(s[i]))
    BY DEF Stems, ListOK
  <1>4. marked = [i \in DOMAIN s |-> marked[i]]
    OBVIOUS
  <1>5. \A i \in DOMAIN s : ~Plain(s[i]) => i \in I
    OBVIOUS
  <1> HIDE DEF pin, marked, I
  <1>6. \A i \in DOMAIN s : Version(s[i], marked[i])
    <2> SUFFICES ASSUME NEW i \in DOMAIN s PROVE Version(s[i], [s[i] EXCEPT !.pinned = pin(i)])
      BY <1>2
    <2> DEFINE new == [s[i] EXCEPT !.pinned = pin(i)]
    <2>1. Stems(s[i], msgs, a, p)
      BY DEF ListOK
    <2>2. new = Item(s[i].id, s[i].pos, s[i].role, s[i].text, s[i].size, s[i].times, s[i].cut,
                     s[i].calls, s[i].resp, pin(i), s[i].score)
      BY <2>1, Item_pinned DEF Stems
    <2> HIDE DEF new
    <2>3. /\ new.id = s[i].id /\ new.pos = s[i].pos /\ new.role = s[i].role /\ new.text = s[i].text
          /\ new.cut = s[i].cut /\ new.calls = s[i].calls /\ new.resp = s[i].resp
          /\ new.size = s[i].size /\ new.score = s[i].score /\ new.pinned = pin(i) /\ AnItem(new)
      BY <2>2, ItemIs
    <2>4. /\ pin(i) \in BOOLEAN /\ (s[i].pinned => pin(i))
          /\ (pin(i) => s[i].pinned \/ Plain(s[i]))
      BY <1>3
    <2> HIDE DEF pin
    <2> DEFINE it == s[i]  q == pin(i)
    <2>6. /\ Stems(it, msgs, a, p) /\ AnItem(new) /\ new.id = it.id /\ new.cut = it.cut
          /\ new.pos = it.pos /\ new.role = it.role /\ new.text = it.text
          /\ new.calls = it.calls /\ new.resp = it.resp /\ new.pinned = q
          /\ new.size = it.size /\ new.score \in Nat
      BY <2>1, <2>3 DEF Stems
    <2>7. q \in BOOLEAN /\ (it.pinned => q) /\ (q => it.pinned \/ Plain(it))
      BY <2>4
    <2> HIDE DEF it, q
    <2>8. Version(it, new)
      BY <2>6, <2>7, PinnedIsVersion
    <2>5. Version(s[i], new)
      BY <2>8 DEF it
    <2> QED
      BY <2>5 DEF new
  <1>7. ListOK(marked, msgs, a, p) /\ Held(s, marked)
    BY <1>4, <1>6, VersionsOK, VersionsHeld
  <1>8. \A i \in DOMAIN marked : ~Plain(marked[i]) => i \in I
    BY <1>4, <1>5, <1>6, VersionStems DEF ListOK
  <1>9. Held(marked, ItemsAt(marked, I))
    BY <1>7, <1>8, SelectionHeld DEF ListOK
  <1> QED
    BY <1>1, <1>7, <1>9, ItemsAtOK, HeldOn

\* NearDuplicateClusterer: calls and answers stay.
LEMMA AnchorsOK ==
  ASSUME NEW msgs, NEW a, NEW p, NEW s, ListOK(s, msgs, a, p)
  PROVE  ListOK(ItemsAt(s, Anchors(s)), msgs, a, p) /\ Held(s, ItemsAt(s, Anchors(s)))
  <1> DEFINE plain(i) == s[i].role \in {"user", "assistant"} /\ Plain(s[i])
             rest == {i \in DOMAIN s : ~plain(i) \/ s[i].pinned}
  <1>1. rest \subseteq Anchors(s)
    BY Zenon DEF Anchors
  <1>2. \A i \in DOMAIN s : ~Plain(s[i]) => i \in rest
    OBVIOUS
  <1> HIDE DEF rest
  <1> DEFINE keep == Anchors(s)
  <1>3. \A i \in DOMAIN s : ~Plain(s[i]) => i \in keep
    BY <1>1, <1>2
  <1> HIDE DEF keep
  <1>4. ListOK(ItemsAt(s, keep), msgs, a, p)
    BY ItemsAtOK
  <1>5. Held(s, ItemsAt(s, keep))
    BY <1>3, SelectionHeld DEF ListOK
  <1> QED
    BY <1>4, <1>5 DEF keep

\* PromptSummarizer: what is pinned, the summary and the latest.
LEMMA FoldedOK ==
  ASSUME NEW msgs, NEW a, NEW p, NEW s, ListOK(s, msgs, a, p), p = "summarizing"
  PROVE  ListOK(Folded(s), msgs, a, p)
  <1> DEFINE A == ItemsAt(s, DOMAIN s \ Free(s))
             B == <<Summary>>
             C == ItemsAt(s, Recent(s, KeepRecent))
  <1>1. ListOK(A, msgs, a, p) /\ ListOK(C, msgs, a, p)
    BY ItemsAtOK
  <1>2. \A k \in DOMAIN A : Plain(A[k])
    <2>1. \E ix : \A k \in DOMAIN A : ix[k] \in (DOMAIN s \ Free(s)) \cap DOMAIN s /\ A[k] = s[ix[k]]
      BY ItemsAtIs DEF ListOK
    <2>2. \A i \in DOMAIN s \ Free(s) : Plain(s[i])
      BY DEF Free, ListOK, Stems
    <2> HIDE DEF A
    <2> QED
      BY <2>1, <2>2
  <1>3. Plain(Summary) /\ Stems(Summary, msgs, a, p)
    <2>1. Plain(Summary)
      BY DEF Summary, Plain, HasCalls, IsResponse
    <2> DEFINE u == Summary
    <2> HIDE DEF u
    <2>3. /\ u.pos = NoPos /\ u.role = "system" /\ AnItem(u)
          /\ u.id = <<NoPos, 0>> /\ u.cut = FALSE /\ u.pinned = TRUE
      BY DEF u, Summary, AnItem, Item
    <2>4. u.id[1] = NoPos /\ u.id[2] = 0 /\ u.id = <<u.id[1], u.id[2]>>
      BY <2>3
    <2>5. Plain(u)
      BY <2>1 DEF u
    <2>6. u.pinned \in BOOLEAN /\ u.cut \in BOOLEAN /\ ~u.cut
      BY <2>3
    <2>8. u.size \in Nat /\ u.score \in Nat /\ Len(u.calls) \in Nat
      <3>1. u.size = 1 /\ u.score = 0 /\ u.calls = <<>>
        BY DEF u, Summary
      <3> QED
        BY <3>1
    <2>7. Stems(u, msgs, a, p)
      BY <2>3, <2>4, <2>5, <2>6, <2>8 DEF Stems, NoPos
    <2> QED
      BY <2>1, <2>7 DEF u
  <1>4. ListOK(B, msgs, a, p) /\ \A k \in DOMAIN B : Plain(B[k])
    <2>1. DOMAIN B = {1} /\ B[1] = Summary /\ Len(B) = 1 /\ B = [i \in 1..1 |-> B[i]]
      OBVIOUS
    <2>2. IsList(B)
      BY <2>1, FunctionIsList
    <2> HIDE DEF B
    <2> QED
      BY <1>3, <2>1, <2>2 DEF ListOK
  <1> HIDE DEF A, B, C
  <1>5. ListOK(A \o B, msgs, a, p)
    BY <1>1, <1>2, <1>4, JoinedOK
  <1>6. \A k \in DOMAIN (A \o B) : Plain((A \o B)[k])
    BY <1>1, <1>2, <1>4, Joined DEF ListOK
  <1>7. ListOK((A \o B) \o C, msgs, a, p)
    BY <1>1, <1>5, <1>6, JoinedOK
  <1> QED
    BY <1>7 DEF Folded, A, B, C

(***************************************************************************)
(* Repeated calls.                                                         *)
(***************************************************************************)
\* Twins have the same twins.
LEMMA TwinsAgree ==
  ASSUME NEW s, NEW p \in CallPairs(s), NEW q \in Twins(s, p)
  PROVE  Twins(s, q) = Twins(s, p) /\ q \in CallPairs(s) /\ p \in Twins(s, p)
  BY DEF Twins

\* Of the pairs with one call and one answer, one is the latest.
LEMMA LatestIs ==
  ASSUME NEW s, IsList(s), NEW p \in CallPairs(s)
  PROVE  \E q \in Twins(s, p) : Latest(s, q)
  <1> DEFINE P == Twins(s, p)
  <1>1. DOMAIN s = 1..Len(s) /\ Len(s) \in Nat
    BY ListIs
  <1>2. IsFiniteSet(DOMAIN s) /\ DOMAIN s \subseteq Nat
    BY <1>1, IntervalSize
  <1>3. P \subseteq (DOMAIN s) \X (DOMAIN s)
    BY DEF Twins, CallPairs
  <1>4. IsFiniteSet(P) /\ P \subseteq Nat \X Nat /\ p \in P
    <2>1. IsFiniteSet((DOMAIN s) \X (DOMAIN s))
      BY <1>2, FS_Product
    <2>2. p \in P
      BY DEF Twins
    <2> HIDE DEF P
    <2> QED
      BY <1>2, <1>3, <2>1, <2>2, FS_Subset
  <1> HIDE DEF P
  <1>5. Cardinality(P) \in Nat /\ Cardinality(P) # 0
    BY <1>4, FS_EmptySet, FS_CardinalityType
  <1>6. Cardinality(P) \in 1..Cardinality(P)
    BY <1>5
  <1>7. PICK q \in P : Rank(q, P) = Cardinality(P)
    BY <1>4, <1>6, RankIs
  <1>8. \A r \in P : Rank(r, P) \in 1..Cardinality(P)
    BY <1>4, RankIs
  <1>9. \A r \in P : r = q \/ Later(q, r)
    <2> SUFFICES ASSUME NEW r \in P, r # q PROVE Later(q, r)
      OBVIOUS
    <2>1. q \in Nat \X Nat /\ r \in Nat \X Nat
      BY <1>4
    <2>2. ~Ahead(q, r)
      <3>1. Ahead(q, r) => Rank(q, P) < Rank(r, P)
        BY <1>4, RankIs
      <3> QED
        BY <1>5, <1>7, <1>8, <3>1
    <2> QED
      BY <2>1, <2>2 DEF Ahead, Later
  <1>10. Twins(s, q) = P
    BY TwinsAgree DEF P
  <1> QED
    BY <1>9, <1>10 DEF Latest, P

\* An item that is replaced by one that counts its repetitions.
LEMMA CountedIs ==
  ASSUME NEW msgs, NEW a, NEW p, NEW it, NEW n, Stems(it, msgs, a, p)
  PROVE  Version(it, [with_content(it, it.size) EXCEPT !.times = n])
  <1> DEFINE new == with_content(it, it.size)
             counted == [new EXCEPT !.times = n]
  <1>1. /\ new.id = <<it.id[1], it.id[2] + 1>> /\ new.pos = it.pos /\ new.role = it.role
        /\ new.text = it.text /\ new.cut = it.cut /\ new.calls = it.calls /\ new.resp = it.resp
        /\ new.pinned = it.pinned /\ new.size = it.size /\ new.score = it.score /\ AnItem(new)
    BY CopyIs
  <1> HIDE DEF new
  <1>2. counted = Item(new.id, new.pos, new.role, new.text, new.size, n, new.cut,
                       new.calls, new.resp, new.pinned, new.score)
    BY <1>1, Item_times
  <1> HIDE DEF counted
  <1>3. /\ counted.id = new.id /\ counted.pos = new.pos /\ counted.role = new.role
        /\ counted.text = new.text /\ counted.calls = new.calls /\ counted.resp = new.resp
        /\ counted.pinned = new.pinned /\ counted.cut = new.cut /\ AnItem(counted)
        /\ counted.size = new.size /\ counted.score = new.score
    BY <1>2, ItemIs
  <1>4. Version(it, counted)
    BY <1>1, <1>3, NewerIsVersion DEF Stems
  <1> QED
    BY <1>4 DEF counted, new

\* The merger's list: versions of the items, and of what neither calls nor answers
\* the items themselves.
LEMMA MergedIs ==
  ASSUME NEW msgs, NEW a, NEW p, NEW s, ListOK(s, msgs, a, p)
  PROVE  LET t == MergedInPlace(s) IN
         /\ t = [i \in DOMAIN s |-> t[i]]
         /\ \A i \in DOMAIN s : Version(s[i], t[i]) /\ (Plain(s[i]) => t[i] = s[i])
  <1> DEFINE count(i) == IF \E q \in CallPairs(s) : q[2] = i /\ Latest(s, q)
                         THEN Cardinality(Twins(s, CHOOSE q \in CallPairs(s) : q[2] = i)) ELSE 1
             t == MergedInPlace(s)
  <1>1. t = [i \in DOMAIN s |-> IF count(i) < 2 THEN s[i]
                                 ELSE [with_content(s[i], s[i].size) EXCEPT !.times = count(i)]]
    BY DEF MergedInPlace
  <1>2. \A i \in DOMAIN s : Plain(s[i]) => count(i) = 1
    <2> SUFFICES ASSUME NEW i \in DOMAIN s, Plain(s[i]), NEW q \in CallPairs(s), q[2] = i
                 PROVE  FALSE
      OBVIOUS
    <2>1. Answered(s[q[2]]) # {}
      BY PairIs
    <2>2. Answered(s[i]) # {}
      BY <2>1
    <2> QED
      BY <2>2, PlainIs
  <1> HIDE DEF count, t
  <1>3. \A i \in DOMAIN s : Version(s[i], t[i])
    <2> SUFFICES ASSUME NEW i \in DOMAIN s PROVE Version(s[i], t[i])
      OBVIOUS
    <2>1. Stems(s[i], msgs, a, p)
      BY DEF ListOK
    <2>2. Version(s[i], s[i]) /\ Version(s[i], [with_content(s[i], s[i].size) EXCEPT !.times = count(i)])
      BY <2>1, SameIsVersion, CountedIs
    <2> QED
      BY <1>1, <2>2
  <1>4. \A i \in DOMAIN s : Plain(s[i]) => t[i] = s[i]
    BY <1>1, <1>2
  <1>5. t = [i \in DOMAIN s |-> t[i]]
    BY <1>1
  <1> QED
    BY <1>3, <1>4, <1>5 DEF t

\* Where messages make one call each, merging repeated calls leaves of each round one
\* with its calls and its answer.
LEMMA MergedOK ==
  ASSUME NEW msgs, NEW a, NEW p, NEW s, ListOK(s, msgs, a, p)
  PROVE  LET t == MergedInPlace(s)
             after == ItemsAt(t, DOMAIN t \ Repeats(s))
         IN  /\ ListOK(t, msgs, a, p) /\ ListOK(after, msgs, a, p)
             /\ InRounds(to_items(msgs, a)) /\ OneCallAtATime(to_items(msgs, a)) => Told(s, after)
  <1> DEFINE t == MergedInPlace(s)
             I == DOMAIN t \ Repeats(s)
             after == ItemsAt(t, I)
             S == to_items(msgs, a)
  <1>1. /\ t = [i \in DOMAIN s |-> t[i]] /\ DOMAIN t = DOMAIN s
        /\ \A i \in DOMAIN s : Version(s[i], t[i])
    BY MergedIs
  <1> HIDE DEF t
  <1>2. ListOK(t, msgs, a, p)
    BY <1>1, VersionsOK
  <1>3. ListOK(after, msgs, a, p)
    BY <1>2, ItemsAtOK
  <1>4. \A i \in I : \E k \in DOMAIN after : Same(after[k], s[i])
    <2>1. \E ix : /\ \A k \in DOMAIN after : after[k] = t[ix[k]]
                  /\ \A i \in I \cap DOMAIN t : \E k \in DOMAIN after : ix[k] = i
      <3>1. IsList(t)
        BY <1>2 DEF ListOK
      <3> HIDE DEF I
      <3> QED
        BY <3>1, ItemsAtIs
    <2>2. \A i \in I : \E k \in DOMAIN after : after[k] = t[i]
      <3> HIDE DEF after
      <3> QED
        BY <2>1
    <2>3. \A i \in I : Same(t[i], s[i])
      BY <1>1 DEF Version, Same
    <2> HIDE DEF after, I
    <2> QED
      BY <2>2, <2>3
  <1> HIDE DEF after
  <1>5. ASSUME InRounds(S), OneCallAtATime(S) PROVE Told(s, after)
    <2>1. ASSUME NEW i \in DOMAIN s, NEW c \in CallIds(s[i]), NEW d \in CallIds(s[i]) PROVE c = d
      <3>1. Stems(s[i], msgs, a, p) /\ ~Plain(s[i])
        BY <2>1, PlainIs DEF ListOK
      <3>2. s[i].pos \in DOMAIN S /\ CallIds(s[i]) = CallIds(S[s[i].pos])
        BY <3>1, AsSaid, SameIs
      <3> HIDE DEF S
      <3> QED
        BY <1>5, <3>2 DEF OneCallAtATime
    <2>2. ASSUME NEW q \in CallPairs(s), NEW r \in CallPairs(s), q[1] = r[1] \/ q[2] = r[2]
          PROVE  q = r
      <3>1. /\ q = <<q[1], q[2]>> /\ q[1] \in DOMAIN s /\ q[2] \in DOMAIN s
            /\ r = <<r[1], r[2]>> /\ r[1] \in DOMAIN s /\ r[2] \in DOMAIN s
        BY PairIs
      <3>2. PICK c : c \in Answered(s[q[2]]) /\ c \in CallIds(s[q[1]])
        BY PairIs
      <3>3. PICK d : d \in Answered(s[r[2]]) /\ d \in CallIds(s[r[1]])
        BY PairIs
      <3>4. CASE q[1] = r[1]
        <4>1. c = d
          BY <2>1, <3>1, <3>2, <3>3, <3>4
        <4>2. Answered(s[q[2]]) \cap Answered(s[r[2]]) # {}
          BY <3>2, <3>3, <4>1
        <4>3. q[2] = r[2]
          BY <1>5, <3>1, <4>2, OnePerId
        <4> QED
          BY <3>1, <3>4, <4>3
      <3>5. CASE q[2] = r[2]
        <4>1. c = d
          BY <3>2, <3>3, <3>5 DEF Answered
        <4>2. CallIds(s[q[1]]) \cap CallIds(s[r[1]]) # {}
          BY <3>2, <3>3, <4>1
        <4>3. q[1] = r[1]
          BY <1>5, <3>1, <4>2, OnePerId
        <4> QED
          BY <3>1, <3>5, <4>3
      <3> QED
        BY <2>2, <3>4, <3>5
    <2>3. ASSUME NEW q \in CallPairs(s), Latest(s, q), NEW i \in {q[1], q[2]} PROVE i \in I
      <3>1. i \in DOMAIN t
        <4>1. q[1] \in DOMAIN s /\ q[2] \in DOMAIN s
          BY <2>3, PairIs
        <4> QED
          BY <1>1, <2>3, <4>1
      <3>2. ASSUME NEW r \in CallPairs(s), ~Latest(s, r), i \in {r[1], r[2]} PROVE FALSE
        <4>1. /\ CallIds(s[q[1]]) # {} /\ Answered(s[q[2]]) # {}
              /\ CallIds(s[r[1]]) # {} /\ Answered(s[r[2]]) # {}
          BY PairIs, ZenonT(60)
        <4>2. /\ ~IsResponse(s[q[1]]) /\ IsResponse(s[q[2]])
              /\ ~IsResponse(s[r[1]]) /\ IsResponse(s[r[2]])
          BY <4>1, PlainIs
        <4>3. q[1] = r[1] \/ q[2] = r[2]
          BY <2>3, <3>2, <4>2
        <4>4. q = r
          BY <2>2, <4>3
        <4> QED
          BY <2>3, <3>2, <4>4
      <3>3. i \notin Repeats(s)
        BY <3>2 DEF Repeats
      <3> QED
        BY <3>1, <3>3
    <2> HIDE DEF I
    <2> SUFFICES ASSUME NEW r \in CallPairs(s)
                 PROVE  \E q \in CallPairs(after) :
                          /\ Fingerprint(after[q[1]]) = Fingerprint(s[r[1]])
                          /\ after[q[2]].text = s[r[2]].text
      BY DEF Told
    <2>4. PICK q \in Twins(s, r) : Latest(s, q)
      BY LatestIs DEF ListOK
    <2>5. /\ q \in CallPairs(s) /\ Fingerprint(s[q[1]]) = Fingerprint(s[r[1]])
          /\ s[q[2]].text = s[r[2]].text
      BY DEF Twins, Content
    <2>6. q[1] \in I /\ q[2] \in I
      BY <2>3, <2>4, <2>5
    <2>7. PICK j \in DOMAIN after : Same(after[j], s[q[1]])
      BY <1>4, <2>6
    <2>8. PICK k \in DOMAIN after : Same(after[k], s[q[2]])
      BY <1>4, <2>6
    <2>9. <<j, k>> \in CallPairs(after)
      BY <2>5, <2>7, <2>8, SameIs, PairIs
    <2>10. Fingerprint(after[j]) = Fingerprint(s[q[1]]) /\ after[k].text = s[q[2]].text
      BY <2>7, <2>8, SameIs DEF Same
    <2> QED
      BY <2>5, <2>9, <2>10
  <1> QED
    BY <1>2, <1>3, <1>5 DEF t, after, I

(***************************************************************************)
(* What a step does.                                                       *)
(***************************************************************************)
\* What is pinned as a message is there as it came.
PinnedIn(s, msgs, a) ==
  \A i \in DOMAIN msgs : ToItem(msgs, i, a).pinned => \E k \in DOMAIN s : s[k].id = <<i, 0>>

\* A selection holds what is selected and nothing else.
LEMMA Taken ==
  ASSUME NEW s, IsList(s), NEW I
  PROVE  LET t == ItemsAt(s, I) IN
         /\ \A k \in DOMAIN t : \E i \in I \cap DOMAIN s : t[k] = s[i]
         /\ \A i \in I \cap DOMAIN s : \E k \in DOMAIN t : t[k] = s[i]
  <1> DEFINE t == ItemsAt(s, I)
  <1>1. \E ix : /\ \A k \in DOMAIN t : ix[k] \in I \cap DOMAIN s /\ t[k] = s[ix[k]]
                /\ \A i \in I \cap DOMAIN s : \E k \in DOMAIN t : ix[k] = i
    BY ItemsAtIs
  <1> HIDE DEF t
  <1>2. /\ \A k \in DOMAIN t : \E i \in I \cap DOMAIN s : t[k] = s[i]
        /\ \A i \in I \cap DOMAIN s : \E k \in DOMAIN t : t[k] = s[i]
    BY <1>1
  <1> QED
    BY <1>2 DEF t

\* The repair of a layer loses nothing that is pinned as a message.
LEMMA LayerOK ==
  ASSUME NEW msgs, NEW a, NEW p, NEW before, NEW after,
         ListOK(before, msgs, a, p), ListOK(after, msgs, a, p), DOMAIN msgs \subseteq Nat \ {0},
         PinnedIn(before, msgs, a)
  PROVE  LET r == Repair(before, after) IN
         /\ ListOK(r, msgs, a, p) /\ InOrderOf(r) /\ PinnedIn(r, msgs, a) /\ Held(after, r)
  <1> DEFINE r == Repair(before, after)
  <1>1. /\ ListOK(r, msgs, a, p) /\ InOrderOf(r)
        /\ \A i \in DOMAIN after : \E k \in DOMAIN r : r[k] = after[i]
        /\ \A i \in DOMAIN before : before[i].pinned => \E k \in DOMAIN r : r[k].id = before[i].id
    <2>1. DOMAIN msgs \subseteq Nat /\ r = Repair(before, after)
      OBVIOUS
    <2> HIDE DEF r
    <2> QED
      BY <2>1, RepairOK
  <1> HIDE DEF r
  <1>2. PinnedIn(r, msgs, a)
    <2> SUFFICES ASSUME NEW i \in DOMAIN msgs, ToItem(msgs, i, a).pinned
                 PROVE  \E k \in DOMAIN r : r[k].id = <<i, 0>>
      BY DEF PinnedIn
    <2>1. PICK k \in DOMAIN before : before[k].id = <<i, 0>>
      BY DEF PinnedIn
    <2>2. Stems(before[k], msgs, a, p)
      BY DEF ListOK
    <2>3. before[k].pos = i /\ i # NoPos
      BY <2>1, <2>2 DEF Stems, NoPos
    <2>4. before[k].pinned
      BY <2>2, <2>3 DEF Stems
    <2> QED
      BY <1>1, <2>1, <2>4
  <1>3. Held(after, r)
    BY <1>1 DEF Held, Same
  <1> QED
    BY <1>1, <1>2, <1>3 DEF r

\* Where no stamped position is lost, calls and answers stay.
LEMMA PositionsKept ==
  ASSUME NEW msgs, NEW a, NEW p, NEW s, NEW t, ListOK(s, msgs, a, p), ListOK(t, msgs, a, p),
         Positions(s) \subseteq Positions(t)
  PROVE  Held(s, t)
  <1> SUFFICES ASSUME NEW i \in DOMAIN s, ~Plain(s[i]) PROVE \E k \in DOMAIN t : Same(t[k], s[i])
    BY DEF Held
  <1>1. Stems(s[i], msgs, a, p)
    BY DEF ListOK
  <1>2. s[i].pos # NoPos
    BY <1>1, AsSaid
  <1>3. PICK k \in DOMAIN t : t[k].pos = s[i].pos
    BY <1>2 DEF Positions
  <1>4. Stems(t[k], msgs, a, p)
    BY DEF ListOK
  <1> QED
    BY <1>1, <1>2, <1>3, <1>4, SameMessage DEF Same

\* A score makes a version with the same id.
LEMMA ScoredIs ==
  ASSUME NEW msgs, NEW a, NEW p, NEW it, NEW v \in Nat, NEW new, Stems(it, msgs, a, p),
         new = Item(it.id, it.pos, it.role, it.text, it.size, it.times, it.cut,
                    it.calls, it.resp, it.pinned, v)
  PROVE  Version(it, new) /\ new.id = it.id
  <1>2. /\ new.id = it.id /\ new.pos = it.pos /\ new.role = it.role /\ new.text = it.text
        /\ new.cut = it.cut /\ new.calls = it.calls /\ new.resp = it.resp
        /\ new.pinned = it.pinned /\ new.size = it.size /\ new.score = v /\ AnItem(new)
    BY ItemIs
  <1>3. it.pinned \in BOOLEAN
    BY DEF Stems
  <1>4. Version(it, new)
    BY <1>2, <1>3, PinnedIsVersion
  <1> QED
    BY <1>2, <1>4

\* Versions with their ids: nothing pinned is lost.
LEMMA RankedOK ==
  ASSUME NEW msgs, NEW a, NEW p, NEW s, NEW t, ListOK(s, msgs, a, p), PinnedIn(s, msgs, a),
         t = [i \in DOMAIN s |-> t[i]],
         \A i \in DOMAIN s : Version(s[i], t[i]) /\ t[i].id = s[i].id
  PROVE  ListOK(t, msgs, a, p) /\ PinnedIn(t, msgs, a) /\ Held(s, t)
  <1>1. DOMAIN t = DOMAIN s
    OBVIOUS
  <1>2. PinnedIn(t, msgs, a)
    BY <1>1 DEF PinnedIn
  <1>3. ListOK(t, msgs, a, p) /\ Held(s, t)
    BY VersionsOK, VersionsHeld
  <1> QED
    BY <1>2, <1>3

\* In a list of versions, as in the conversation, an item makes one call.
LEMMA OneCall ==
  ASSUME NEW msgs, NEW a, NEW p, NEW s, ListOK(s, msgs, a, p), OneCallAtATime(to_items(msgs, a)),
         NEW i \in DOMAIN s, NEW c \in CallIds(s[i]), NEW d \in CallIds(s[i])
  PROVE  c = d
  <1> DEFINE S == to_items(msgs, a)
  <1>1. Stems(s[i], msgs, a, p) /\ ~Plain(s[i])
    BY PlainIs DEF ListOK
  <1>2. s[i].pos \in DOMAIN S /\ CallIds(s[i]) = CallIds(S[s[i].pos])
    BY <1>1, AsSaid, SameIs
  <1> HIDE DEF S
  <1>3. OneCallAtATime(S)
    BY DEF S
  <1> QED
    BY <1>2, <1>3 DEF OneCallAtATime

\* The last cleanup leaves whole rounds, all that neither calls nor answers, and where
\* messages make one call each every round.
LEMMA CleanedOK ==
  ASSUME NEW msgs, NEW a, NEW p, NEW s, ListOK(s, msgs, a, p)
  PROVE  LET t == Cleaned(s) IN
         /\ ListOK(t, msgs, a, p) /\ (InOrderOf(s) => InOrderOf(t))
         /\ AllCalls(t) \subseteq AllAnswered(t) /\ AllAnswered(t) \subseteq AllCalls(t)
         /\ \A i \in DOMAIN s : Plain(s[i]) => \E k \in DOMAIN t : t[k] = s[i]
         /\ OneCallAtATime(to_items(msgs, a)) => Told(s, t)
  <1> DEFINE I == {i \in DOMAIN s : CallIds(s[i]) \subseteq AllAnswered(s)}
             u == ItemsAt(s, I)
             J == {i \in DOMAIN u : Answered(u[i]) \subseteq AllCalls(u)}
             t == ItemsAt(u, J)
  <1>1. t = Cleaned(s)
    BY DEF Cleaned
  <1>2. ListOK(u, msgs, a, p) /\ (InOrderOf(s) => InOrderOf(u))
    BY ItemsAtOK
  <1>3. /\ \A k \in DOMAIN u : \E i \in I \cap DOMAIN s : u[k] = s[i]
        /\ \A i \in I \cap DOMAIN s : \E k \in DOMAIN u : u[k] = s[i]
    <2>1. IsList(s)
      BY DEF ListOK
    <2> HIDE DEF I
    <2> QED
      BY <2>1, Taken
  <1> HIDE DEF u
  <1>4. ListOK(t, msgs, a, p) /\ (InOrderOf(u) => InOrderOf(t))
    BY <1>2, ItemsAtOK
  <1>5. /\ \A k \in DOMAIN t : \E i \in J \cap DOMAIN u : t[k] = u[i]
        /\ \A i \in J \cap DOMAIN u : \E k \in DOMAIN t : t[k] = u[i]
    <2>1. IsList(u)
      BY <1>2 DEF ListOK
    <2> HIDE DEF J
    <2> QED
      BY <2>1, Taken
  <1> HIDE DEF t
  <1>6. ASSUME NEW i \in DOMAIN s, CallIds(s[i]) \subseteq AllAnswered(s),
               Answered(s[i]) \subseteq AllCalls(u)
        PROVE  \E k \in DOMAIN t : t[k] = s[i]
    <2>1. PICK k \in DOMAIN u : u[k] = s[i]
      BY <1>3, <1>6
    <2>2. k \in J
      BY <1>6, <2>1
    <2> HIDE DEF I, J
    <2> QED
      BY <1>5, <2>1, <2>2
  <1>7. ASSUME NEW i \in DOMAIN s, CallIds(s[i]) \subseteq AllAnswered(s)
        PROVE  CallIds(s[i]) \subseteq AllCalls(u)
    BY <1>3, <1>7 DEF AllCalls
  <1>8. ASSUME NEW k \in DOMAIN t
        PROVE  /\ Answered(t[k]) \subseteq AllCalls(u)
               /\ \E i \in DOMAIN s : t[k] = s[i] /\ CallIds(s[i]) \subseteq AllAnswered(s)
    BY <1>3, <1>5
  <1> HIDE DEF I, J
  <1>9. ASSUME NEW c, NEW k \in DOMAIN t, c \in CallIds(t[k])
        PROVE  \E j \in DOMAIN t : c \in Answered(t[j])
    <2>1. PICK i \in DOMAIN s : t[k] = s[i] /\ CallIds(s[i]) \subseteq AllAnswered(s)
      BY <1>8
    <2>2. PICK j \in DOMAIN s : c \in Answered(s[j])
      BY <1>9, <2>1 DEF AllAnswered
    <2>3. c \in AllCalls(u)
      BY <1>7, <1>9, <2>1
    <2>4. Answered(s[j]) = {s[j].resp} /\ CallIds(s[j]) = {}
      BY <2>2, PlainIs
    <2>5. Answered(s[j]) \subseteq AllCalls(u)
      BY <2>2, <2>3, <2>4
    <2>6. \E m \in DOMAIN t : t[m] = s[j]
      BY <1>6, <2>4, <2>5
    <2> QED
      BY <2>2, <2>6
  <1>10. ASSUME NEW c, NEW k \in DOMAIN t, c \in Answered(t[k])
         PROVE  \E j \in DOMAIN t : c \in CallIds(t[j])
    <2>1. PICK m \in DOMAIN u : c \in CallIds(u[m])
      BY <1>8, <1>10 DEF AllCalls
    <2>2. PICK i \in DOMAIN s : u[m] = s[i] /\ CallIds(s[i]) \subseteq AllAnswered(s)
      BY <1>3 DEF I
    <2>3. Answered(s[i]) = {}
      BY <2>1, <2>2, PlainIs
    <2>4. \E j \in DOMAIN t : t[j] = s[i]
      BY <1>6, <2>2, <2>3
    <2> QED
      BY <2>1, <2>2, <2>4
  <1>11. \A i \in DOMAIN s : Plain(s[i]) => \E k \in DOMAIN t : t[k] = s[i]
    BY <1>6, PlainIs
  <1>12. ASSUME OneCallAtATime(to_items(msgs, a)) PROVE Told(s, t)
    <2> SUFFICES ASSUME NEW q \in CallPairs(s)
                 PROVE  \E r \in CallPairs(t) : /\ Fingerprint(t[r[1]]) = Fingerprint(s[q[1]])
                                                /\ t[r[2]].text = s[q[2]].text
      BY DEF Told
    <2>1. q[1] \in DOMAIN s /\ q[2] \in DOMAIN s
      BY PairIs
    <2>2. PICK c : c \in Answered(s[q[2]]) /\ c \in CallIds(s[q[1]])
      BY PairIs
    <2>3. Answered(s[q[1]]) = {} /\ Answered(s[q[2]]) = {s[q[2]].resp} /\ CallIds(s[q[2]]) = {}
      BY <2>2, PlainIs
    <2>4. \A d \in CallIds(s[q[1]]) : d = c
      BY <1>12, <2>1, <2>2, OneCall
    <2>5. c \in AllAnswered(s)
      BY <2>1, <2>2 DEF AllAnswered
    <2>6. CallIds(s[q[1]]) \subseteq AllAnswered(s)
      BY <2>4, <2>5
    <2>7. c \in AllCalls(u)
      BY <1>7, <2>1, <2>2, <2>6
    <2>8. Answered(s[q[2]]) \subseteq AllCalls(u)
      BY <2>2, <2>3, <2>7
    <2>9. PICK j \in DOMAIN t : t[j] = s[q[1]]
      BY <1>6, <2>1, <2>3, <2>6
    <2>10. PICK k \in DOMAIN t : t[k] = s[q[2]]
      BY <1>6, <2>1, <2>3, <2>8
    <2>11. <<j, k>> \in CallPairs(t)
      BY <2>2, <2>9, <2>10, PairIs
    <2> QED
      BY <2>9, <2>10, <2>11
  <1>13. AllCalls(t) \subseteq AllAnswered(t) /\ AllAnswered(t) \subseteq AllCalls(t)
    BY <1>9, <1>10 DEF AllCalls, AllAnswered
  <1> QED
    BY <1>1, <1>2, <1>4, <1>11, <1>12, <1>13

(***************************************************************************)
(* The invariant of the pipeline.                                          *)
(***************************************************************************)
\* The layers of the presets.
LayerNames == {"tool_results", "oversized", "dedup", "repeated", "near", "summarize", "rank",
               "budget", "window"}

\* Between two layers: versions of the messages in their order, at most one of what calls
\* or answers; what is pinned is there as it came; while nothing was pruned every round is
\* told; and what is sent has whole rounds.
OptInv ==
  /\ chat \in Chats /\ adapter \in Adapters /\ preset \in Presets
  /\ outcome \in {"running", "optimized", "skipped"}
  /\ layersDue \in Seq(LayerNames) /\ Len(layersDue) <= 7
  /\ \A k \in 1..Len(layersDue) : layersDue[k] = "summarize" => preset = "summarizing"
  /\ pruned \subseteq DOMAIN chat
  /\ ListOK(ctxItems, chat, adapter, preset)
  /\ InOrderOf(ctxItems)
  /\ PinnedIn(ctxItems, chat, adapter)
  /\ (pruned = {} /\ OneCallAtATime(to_items(chat, adapter)) => Told(to_items(chat, adapter), ctxItems))
  /\ (Optimized => AllCalls(ctxItems) \subseteq AllAnswered(ctxItems)
                  /\ AllAnswered(ctxItems) \subseteq AllCalls(ctxItems))

\* The conversation is a list, in rounds.
LEMMA ChatIs ==
  ASSUME OptInv
  PROVE  /\ DOMAIN chat = 1..Len(chat) /\ Len(chat) \in Nat
         /\ DOMAIN chat \subseteq Nat \ {0} /\ InRounds(to_items(chat, adapter))
  <1>1. DOMAIN chat = 1..Len(chat) /\ Len(chat) \in Nat /\ InRounds(to_items(chat, adapter))
    BY ChatAssumption DEF OptInv
  <1> QED
    BY <1>1

\* A message as an item.
LEMMA ToItemIs ==
  ASSUME NEW msgs, NEW a, NEW p, NEW i \in DOMAIN msgs, DOMAIN msgs \subseteq Nat \ {0},
         msgs[i].size \in Nat, Len(msgs[i].calls) \in Nat
  PROVE  /\ ToItem(msgs, i, a).id = <<i, 0>> /\ ToItem(msgs, i, a).pos = i
         /\ Stems(ToItem(msgs, i, a), msgs, a, p)
  <1> DEFINE m == msgs[i]
             r == Role(m.role, a)
             pin == r = "system" \/ (r = "user" /\ PinnedUser(msgs, i, a))
             it == ToItem(msgs, i, a)
  <1>1. it = Item(<<i, 0>>, i, r, m.text, m.size, 1, FALSE, IF m.role = r THEN m.calls ELSE <<>>,
                  IF r = "tool" THEN m.resp ELSE NoCall, pin, 0)
    BY DEF ToItem, Item
  <1>2. pin \in BOOLEAN /\ (pin => r \in {"system", "user"})
    BY DEF PinnedUser
  <1> HIDE DEF it, pin, r
  <1>3. /\ it.id = <<i, 0>> /\ it.pos = i /\ it.role = r /\ it.cut = FALSE /\ it.pinned = pin
        /\ it.size = m.size /\ it.score = 0 /\ it.calls = IF m.role = r THEN m.calls ELSE <<>>
        /\ AnItem(it)
    BY <1>1 DEF Item, AnItem
  <1>7. it.size \in Nat /\ it.score \in Nat /\ Len(it.calls) \in Nat
    <2>1. Len(<<>>) = 0
      OBVIOUS
    <2> QED
      BY <1>3, <2>1
  <1>4. it.pinned => Plain(it)
    BY <1>2, <1>3 DEF Plain, HasCalls, IsResponse
  <1>5. /\ it.id[1] = i /\ it.id[2] = 0 /\ it.id = <<it.id[1], it.id[2]>>
        /\ it.pinned \in BOOLEAN /\ it.cut \in BOOLEAN /\ ~it.cut /\ i # NoPos
    <2>1. it.id[1] = i /\ it.id[2] = 0 /\ it.id = <<it.id[1], it.id[2]>>
      BY <1>3
    <2>3. it.cut \in BOOLEAN /\ ~it.cut
      BY <1>3
    <2>4. i # NoPos
      BY DEF NoPos
    <2>2. it.pinned \in BOOLEAN
      BY <1>2, <1>3, Zenon
    <2> QED
      BY <2>1, <2>2, <2>3, <2>4
  <1>6. Stems(it, msgs, a, p)
    BY <1>3, <1>4, <1>5, <1>7 DEF Stems, it
  <1> QED
    BY <1>3, <1>6 DEF it

\* The adapters' items are such a list.
LEMMA ToItemsOK ==
  ASSUME NEW msgs, NEW a, NEW p, DOMAIN msgs = 1..Len(msgs), Len(msgs) \in Nat,
         \A i \in DOMAIN msgs : msgs[i].size \in Nat /\ Len(msgs[i].calls) \in Nat
  PROVE  LET s == to_items(msgs, a)
         IN  ListOK(s, msgs, a, p) /\ InOrderOf(s) /\ PinnedIn(s, msgs, a)
  <1> DEFINE s == to_items(msgs, a)
  <1>1. /\ DOMAIN s = 1..Len(msgs) /\ s = [i \in 1..Len(msgs) |-> s[i]]
        /\ \A i \in DOMAIN s : s[i] = ToItem(msgs, i, a)
    BY DEF to_items
  <1>2. DOMAIN msgs \subseteq Nat \ {0}
    OBVIOUS
  <1> HIDE DEF s
  <1>3. ASSUME NEW i \in DOMAIN s
        PROVE  s[i].id = <<i, 0>> /\ s[i].pos = i /\ Stems(s[i], msgs, a, p)
    <2>1. i \in DOMAIN msgs /\ s[i] = ToItem(msgs, i, a)
      BY <1>1
    <2>2. /\ ToItem(msgs, i, a).id = <<i, 0>> /\ ToItem(msgs, i, a).pos = i
          /\ Stems(ToItem(msgs, i, a), msgs, a, p)
      BY <1>2, <2>1, ToItemIs
    <2> QED
      BY <2>1, <2>2
  <1>4. IsList(s)
    BY <1>1, FunctionIsList
  <1>5. ListOK(s, msgs, a, p)
    BY <1>3, <1>4 DEF ListOK
  <1>6. InOrderOf(s)
    BY <1>1, <1>3 DEF InOrderOf
  <1>7. PinnedIn(s, msgs, a)
    BY <1>1, <1>3 DEF PinnedIn
  <1> QED
    BY <1>5, <1>6, <1>7 DEF s

\* The invariant holds of what the adapter hands over.
LEMMA OptInit == OptimizerInit => OptInv
  <1> SUFFICES ASSUME OptimizerInit PROVE OptInv
    OBVIOUS
  <1> DEFINE S == to_items(chat, adapter)
  <1>1. /\ chat \in Chats /\ adapter \in Adapters /\ preset \in Presets
        /\ ctxItems = S /\ layersDue = Layers(preset) /\ pruned = {} /\ outcome = "running"
    BY DEF OptimizerInit
  <1>2. /\ DOMAIN chat = 1..Len(chat) /\ Len(chat) \in Nat
        /\ \A i \in DOMAIN chat : chat[i].size \in Nat /\ Len(chat[i].calls) \in Nat
    BY <1>1, ChatAssumption
  <1>3. ListOK(S, chat, adapter, preset) /\ InOrderOf(S) /\ PinnedIn(S, chat, adapter)
    BY <1>2, ToItemsOK
  <1> HIDE DEF S
  <1>4. Told(S, S)
    BY HeldTold DEF Held, Same
  <1>5. /\ layersDue \in Seq(LayerNames) /\ Len(layersDue) <= 7
        /\ \A k \in 1..Len(layersDue) : layersDue[k] = "summarize" => preset = "summarizing"
    <2>1. preset \in {"minimal", "balanced", "aggressive", "summarizing"}
      BY <1>1, OptimizerAssumption
    <2>2. CASE preset = "minimal"
      <3>1. layersDue = <<"tool_results", "dedup", "window">>
        BY <1>1, <2>2 DEF Layers
      <3>2. layersDue \in Seq(LayerNames)
        BY <3>1 DEF LayerNames
      <3>3. Len(layersDue) = 3
        BY <3>1
      <3>4. \A k \in 1..3 : layersDue[k] = "summarize" => preset = "summarizing"
        BY <2>2, <3>1
      <3> QED
        BY <3>2, <3>3, <3>4
    <2>3. CASE preset = "balanced"
      <3>1. layersDue = <<"oversized", "dedup", "repeated", "tool_results", "rank", "budget">>
        BY <1>1, <2>3 DEF Layers
      <3>2. layersDue \in Seq(LayerNames)
        BY <3>1 DEF LayerNames
      <3>3. Len(layersDue) = 6
        BY <3>1
      <3>4. \A k \in 1..6 : layersDue[k] = "summarize" => preset = "summarizing"
        BY <2>3, <3>1
      <3> QED
        BY <3>2, <3>3, <3>4
    <2>4. CASE preset = "aggressive"
      <3>1. layersDue = <<"dedup", "repeated", "tool_results", "near", "rank", "budget">>
        BY <1>1, <2>4 DEF Layers
      <3>2. layersDue \in Seq(LayerNames)
        BY <3>1 DEF LayerNames
      <3>3. Len(layersDue) = 6
        BY <3>1
      <3>4. \A k \in 1..6 : layersDue[k] = "summarize" => preset = "summarizing"
        BY <2>4, <3>1
      <3> QED
        BY <3>2, <3>3, <3>4
    <2>5. CASE preset = "summarizing"
      <3>1. layersDue = <<"dedup", "repeated", "tool_results", "near", "summarize", "rank", "budget">>
        BY <1>1, <2>5 DEF Layers
      <3>2. layersDue \in Seq(LayerNames)
        BY <3>1 DEF LayerNames
      <3>3. Len(layersDue) = 7
        BY <3>1
      <3>4. \A k \in 1..7 : layersDue[k] = "summarize" => preset = "summarizing"
        BY <2>5, <3>1
      <3> QED
        BY <3>2, <3>3, <3>4
    <2> QED
      BY <2>1, <2>2, <2>3, <2>4, <2>5
  <1>6. ~Optimized
    BY <1>1 DEF Optimized
  <1>7. pruned \subseteq DOMAIN chat
    BY <1>1
  <1> QED
    BY <1>1, <1>3, <1>4, <1>5, <1>6, <1>7 DEF OptInv, S

\* A layer: what it is given and what it returns are lists of versions, nothing pinned is
\* missing from what it is given, and while nothing is pruned it tells every round.
LEMMA LayerStep ==
  ASSUME OptInv, NEW name, NEW before, NEW after, Layer(name, before, after),
         ListOK(before, chat, adapter, preset), ListOK(after, chat, adapter, preset),
         PinnedIn(before, chat, adapter),
         pruned \subseteq pruned', pruned' \subseteq DOMAIN chat,
         \/ Told(ctxItems, after)
         \/ pruned' = {} /\ OneCallAtATime(to_items(chat, adapter)) => Told(ctxItems, ctxItems')
  PROVE  OptInv'
  <1> DEFINE S == to_items(chat, adapter)
  <1>1. /\ outcome = "running" /\ layersDue # <<>> /\ ctxItems' = Repair(before, after)
        /\ layersDue' = Tail(layersDue) /\ chat' = chat /\ adapter' = adapter /\ preset' = preset
        /\ outcome' = outcome
    BY DEF Layer
  <1>2. DOMAIN chat \subseteq Nat \ {0}
    BY ChatIs
  <1>3. /\ ListOK(ctxItems', chat, adapter, preset) /\ InOrderOf(ctxItems')
        /\ PinnedIn(ctxItems', chat, adapter) /\ Held(after, ctxItems')
    BY <1>1, <1>2, LayerOK
  <1>4. pruned' = {} /\ OneCallAtATime(S) => Told(S, ctxItems')
    <2>1. Told(after, ctxItems')
      BY <1>3, HeldTold
    <2>2. pruned' = {} /\ OneCallAtATime(S) => Told(ctxItems, ctxItems')
      BY <2>1, ToldOn
    <2>3. pruned' = {} => pruned = {}
      OBVIOUS
    <2>4. pruned = {} /\ OneCallAtATime(S) => Told(S, ctxItems)
      BY DEF OptInv
    <2> HIDE DEF S
    <2> QED
      BY <2>2, <2>3, <2>4, ToldOn
  <1>5. /\ layersDue' \in Seq(LayerNames) /\ Len(layersDue') <= 7
        /\ \A k \in 1..Len(layersDue') : layersDue'[k] = "summarize" => preset = "summarizing"
    <2>1. /\ layersDue \in Seq(LayerNames) /\ Len(layersDue) <= 7
          /\ \A k \in 1..Len(layersDue) : layersDue[k] = "summarize" => preset = "summarizing"
      BY DEF OptInv
    <2>2. /\ layersDue' \in Seq(LayerNames) /\ Len(layersDue') = Len(layersDue) - 1
          /\ \A k \in 1..Len(layersDue') : layersDue'[k] = layersDue[k + 1]
      BY <1>1, <2>1, HeadTailProperties
    <2>3. Len(layersDue) \in Nat
      BY <2>1
    <2> QED
      BY <2>1, <2>2, <2>3
  <1>6. ~Optimized'
    BY <1>1 DEF Optimized
  <1> QED
    BY <1>1, <1>3, <1>4, <1>5, <1>6 DEF OptInv

\* A layer that selects: what is missing from its result is told in pruned.
LEMMA PruningStep ==
  ASSUME OptInv, NEW name, NEW after, Pruning(name, after), ListOK(after, chat, adapter, preset)
  PROVE  OptInv'
  <1>1. /\ Layer(name, ctxItems, after)
        /\ pruned' = pruned \cup (Positions(ctxItems) \ Positions(ctxItems'))
    BY DEF Pruning
  <1>2. ListOK(ctxItems, chat, adapter, preset) /\ PinnedIn(ctxItems, chat, adapter)
    BY DEF OptInv
  <1>3. Positions(ctxItems) \subseteq DOMAIN chat
    BY <1>2 DEF Positions, ListOK, Stems
  <1>4. ListOK(ctxItems', chat, adapter, preset)
    <2>1. ctxItems' = Repair(ctxItems, after)
      BY <1>1 DEF Layer
    <2>2. DOMAIN chat \subseteq Nat \ {0}
      BY ChatIs
    <2> QED
      BY <1>2, <2>1, <2>2, LayerOK
  <1>5. pruned' = {} => Told(ctxItems, ctxItems')
    <2>1. pruned' = {} => Positions(ctxItems) \subseteq Positions(ctxItems')
      BY <1>1
    <2> QED
      BY <1>2, <1>4, <2>1, PositionsKept, HeldTold
  <1>6. pruned \subseteq pruned' /\ pruned' \subseteq DOMAIN chat
    BY <1>1, <1>3 DEF OptInv
  <1> QED
    BY <1>1, <1>2, <1>5, <1>6, LayerStep

\* Every layer, the cleanup and a failure keep the invariant.
LEMMA OptStep == OptInv /\ [OptimizerNext]_optimizerVars => OptInv'
  <1> SUFFICES ASSUME OptInv, [OptimizerNext]_optimizerVars PROVE OptInv'
    OBVIOUS
  <1> DEFINE S == to_items(chat, adapter)
  <1>1. /\ ListOK(ctxItems, chat, adapter, preset) /\ PinnedIn(ctxItems, chat, adapter)
        /\ pruned \subseteq DOMAIN chat
    BY DEF OptInv
  <1>2. ASSUME NEW name, NEW after, Layer(name, ctxItems, after), UNCHANGED pruned,
               ListOK(after, chat, adapter, preset), Held(ctxItems, after)
        PROVE  OptInv'
    <2>1. Told(ctxItems, after)
      BY <1>2, HeldTold
    <2>2. pruned \subseteq pruned' /\ pruned' \subseteq DOMAIN chat
      BY <1>1, <1>2
    <2> QED
      BY <1>1, <1>2, <2>1, <2>2, LayerStep
  <1>3. CASE OversizedContentCompression
    BY <1>1, <1>2, <1>3, OversizedOK DEF OversizedContentCompression
  <1>4. CASE ToolResultCompression
    BY <1>1, <1>2, <1>4, OversizedOK DEF ToolResultCompression
  <1>5. CASE MessageDedup
    BY <1>1, <1>2, <1>5, DedupedOK DEF MessageDedup
  <1>6. CASE RepeatedToolCallMerger
    <2> DEFINE t == MergedInPlace(ctxItems)
               after == ItemsAt(t, DOMAIN t \ Repeats(ctxItems))
    <2>1. Layer("repeated", t, after) /\ pruned' = pruned
      BY <1>6 DEF RepeatedToolCallMerger
    <2>2. /\ ListOK(t, chat, adapter, preset) /\ ListOK(after, chat, adapter, preset)
          /\ (InRounds(S) /\ OneCallAtATime(S) => Told(ctxItems, after))
      BY <1>1, MergedOK
    <2>3. DOMAIN t = DOMAIN ctxItems /\ \A i \in DOMAIN ctxItems : Plain(ctxItems[i]) => t[i] = ctxItems[i]
      BY <1>1, MergedIs
    <2> HIDE DEF t, after
    <2>4. PinnedIn(t, chat, adapter)
      <3> SUFFICES ASSUME NEW i \in DOMAIN chat, ToItem(chat, i, adapter).pinned
                   PROVE  \E k \in DOMAIN t : t[k].id = <<i, 0>>
        BY DEF PinnedIn
      <3>1. PICK k \in DOMAIN ctxItems : ctxItems[k].id = <<i, 0>>
        BY <1>1 DEF PinnedIn
      <3>2. Stems(ctxItems[k], chat, adapter, preset)
        BY <1>1 DEF ListOK
      <3>3. ctxItems[k].pos = i /\ i # NoPos
        BY <3>1, <3>2, ChatIs DEF Stems, NoPos
      <3>4. Plain(ctxItems[k])
        BY <3>2, <3>3 DEF Stems
      <3> QED
        BY <2>3, <3>1, <3>4
    <2>5. InRounds(S)
      BY ChatIs
    <2>6. pruned \subseteq pruned' /\ pruned' \subseteq DOMAIN chat
      BY <1>1, <2>1
    <2>7. CASE OneCallAtATime(S)
      <3>1. Told(ctxItems, after)
        BY <2>2, <2>5, <2>7
      <3> QED
        BY <2>1, <2>2, <2>4, <2>6, <3>1, LayerStep
    <2>8. CASE ~OneCallAtATime(S)
      BY <2>1, <2>2, <2>4, <2>6, <2>8, LayerStep
    <2> QED
      BY <2>7, <2>8
  <1>7. CASE NearDuplicateClusterer
    BY <1>1, <1>2, <1>7, AnchorsOK DEF NearDuplicateClusterer
  <1>8. CASE PromptSummarizer
    <2>1. ASSUME Folds(ctxItems), Pruning("summarize", Folded(ctxItems)) PROVE OptInv'
      <3>1. layersDue # <<>> /\ Head(layersDue) = "summarize"
        BY <2>1 DEF Pruning, Layer
      <3>2. layersDue \in Seq(LayerNames) /\ Len(layersDue) \in Nat
        BY DEF OptInv
      <3>3. Head(layersDue) = layersDue[1] /\ 1 \in 1..Len(layersDue)
        BY <3>1, <3>2
      <3>4. preset = "summarizing"
        BY <3>1, <3>3 DEF OptInv
      <3>5. ListOK(Folded(ctxItems), chat, adapter, preset)
        BY <1>1, <3>4, FoldedOK
      <3> QED
        BY <2>1, <3>5, PruningStep
    <2>2. ASSUME Pruning("summarize", ctxItems) PROVE OptInv'
      BY <1>1, <2>2, PruningStep
    <2> QED
      BY <1>8, <2>1, <2>2 DEF PromptSummarizer
  <1>9. CASE CompositeRanker
    <2>1. PICK f \in [DOMAIN ctxItems -> Scores] :
            LET ranked == [i \in DOMAIN ctxItems |-> [ctxItems[i] EXCEPT !.score = f[i]]]
            IN  Layer("rank", ranked, ranked)
      BY <1>9 DEF CompositeRanker
    <2> DEFINE ranked == [i \in DOMAIN ctxItems |-> [ctxItems[i] EXCEPT !.score = f[i]]]
    <2>2. Layer("rank", ranked, ranked) /\ pruned' = pruned
      BY <1>9, <2>1 DEF CompositeRanker
    <2>6. ranked = [i \in DOMAIN ctxItems |-> ranked[i]]
      OBVIOUS
    <2>7. \A i \in DOMAIN ctxItems : Version(ctxItems[i], ranked[i]) /\ ranked[i].id = ctxItems[i].id
      <3> SUFFICES ASSUME NEW i \in DOMAIN ctxItems
                   PROVE  Version(ctxItems[i], ranked[i]) /\ ranked[i].id = ctxItems[i].id
        OBVIOUS
      <3> DEFINE it == ctxItems[i]  v == f[i]
      <3>1. Stems(it, chat, adapter, preset)
        BY <1>1 DEF ListOK
      <3>2. ranked[i] = [it EXCEPT !.score = v]
        OBVIOUS
      <3>5. v \in Nat
        BY <2>1, OptimizerAssumption
      <3> HIDE DEF ranked, it, v
      <3>4. ranked[i] = Item(it.id, it.pos, it.role, it.text, it.size, it.times, it.cut,
                             it.calls, it.resp, it.pinned, v)
        BY <3>1, <3>2, Item_score DEF Stems
      <3>3. Version(it, ranked[i]) /\ ranked[i].id = it.id
        BY <3>1, <3>4, <3>5, ScoredIs
      <3> QED
        BY <3>3 DEF it
    <2> HIDE DEF ranked
    <2>3. ListOK(ranked, chat, adapter, preset) /\ PinnedIn(ranked, chat, adapter) /\ Held(ctxItems, ranked)
      BY <1>1, <2>6, <2>7, RankedOK
    <2>4. Told(ctxItems, ranked)
      BY <2>3, HeldTold
    <2>5. pruned \subseteq pruned' /\ pruned' \subseteq DOMAIN chat
      BY <1>1, <2>2
    <2> QED
      BY <2>2, <2>3, <2>4, <2>5, LayerStep
  <1>10. CASE TokenBudgetSelector
    <2>1. \E I : WithinBudget(ctxItems, MaxTokens) = ItemsAt(ctxItems, I)
      BY DEF WithinBudget
    <2>2. ListOK(WithinBudget(ctxItems, MaxTokens), chat, adapter, preset)
      BY <1>1, <2>1, ItemsAtOK
    <2> QED
      BY <1>10, <2>2, PruningStep, SMTT(40) DEF TokenBudgetSelector
  <1>11. CASE SlidingWindowSelector
    <2>1. \E I : InWindow(ctxItems) = ItemsAt(ctxItems, I)
      BY DEF InWindow
    <2>2. ListOK(InWindow(ctxItems), chat, adapter, preset)
      BY <1>1, <2>1, ItemsAtOK
    <2> QED
      BY <1>11, <2>2, PruningStep DEF SlidingWindowSelector
  <1>12. CASE FinalCleanup
    <2>1. /\ ctxItems' = Cleaned(ctxItems) /\ outcome' = "optimized"
          /\ UNCHANGED <<chat, adapter, preset, layersDue, pruned>>
      BY <1>12 DEF FinalCleanup
    <2> DEFINE t == Cleaned(ctxItems)
    <2>2. /\ ListOK(t, chat, adapter, preset) /\ (InOrderOf(ctxItems) => InOrderOf(t))
          /\ AllCalls(t) \subseteq AllAnswered(t) /\ AllAnswered(t) \subseteq AllCalls(t)
          /\ \A i \in DOMAIN ctxItems : Plain(ctxItems[i]) => \E k \in DOMAIN t : t[k] = ctxItems[i]
          /\ (OneCallAtATime(S) => Told(ctxItems, t))
      BY <1>1, CleanedOK
    <2> HIDE DEF t, S
    <2>3. PinnedIn(t, chat, adapter)
      <3> SUFFICES ASSUME NEW i \in DOMAIN chat, ToItem(chat, i, adapter).pinned
                   PROVE  \E k \in DOMAIN t : t[k].id = <<i, 0>>
        BY DEF PinnedIn
      <3>1. PICK k \in DOMAIN ctxItems : ctxItems[k].id = <<i, 0>>
        BY <1>1 DEF PinnedIn
      <3>2. Stems(ctxItems[k], chat, adapter, preset)
        BY <1>1 DEF ListOK
      <3>3. ctxItems[k].pos = i /\ i # NoPos
        BY <3>1, <3>2, ChatIs DEF Stems, NoPos
      <3>4. Plain(ctxItems[k])
        BY <3>2, <3>3 DEF Stems
      <3> QED
        BY <2>2, <3>1, <3>4
    <2>4. pruned = {} /\ OneCallAtATime(S) => Told(S, t)
      <3>1. pruned = {} /\ OneCallAtATime(S) => Told(S, ctxItems)
        BY DEF OptInv, S
      <3> QED
        BY <2>2, <3>1, ToldOn
    <2>5. ctxItems' = t
      BY <2>1 DEF t
    <2> QED
      BY <2>1, <2>2, <2>3, <2>4, <2>5 DEF OptInv, S
  <1>13. CASE OptimizerRaises
    BY <1>13 DEF OptimizerRaises, OptInv, Optimized
  <1>14. CASE UNCHANGED optimizerVars
    BY <1>14 DEF optimizerVars, OptInv, Optimized
  <1> QED
    BY <1>3, <1>4, <1>5, <1>6, <1>7, <1>8, <1>9, <1>10, <1>11, <1>12, <1>13, <1>14
       DEF OptimizerNext

\* Every item stems from a message, whatever layers ran.
THEOREM OptimizerTypes == OptimizerSpec => []OptimizerTypeOK
  <1>1. OptInv => OptimizerTypeOK
    BY DEF OptInv, OptimizerTypeOK, ListOK, Stems
  <1> QED
    BY <1>1, OptInit, OptStep, PTL DEF OptimizerSpec

\* In what goes out each call has its answer after it and each answer its call before it.
LEMMA RoundsInOrder ==
  ASSUME OptInv, NEW i \in DOMAIN ctxItems, NEW j \in DOMAIN ctxItems,
         Answered(ctxItems[j]) \cap CallIds(ctxItems[i]) # {}
  PROVE  /\ i < j
         /\ preset # "summarizing" => \A k \in (i + 1)..j : IsResponse(ctxItems[k])
  <1> DEFINE S == to_items(chat, adapter)
             pi == ctxItems[i].pos
             pj == ctxItems[j].pos
  <1>1. /\ \A k \in DOMAIN ctxItems : Stems(ctxItems[k], chat, adapter, preset)
        /\ ~Plain(ctxItems[i]) /\ ~Plain(ctxItems[j])
        /\ \A k \in DOMAIN ctxItems : ~Plain(ctxItems[k]) /\ ctxItems[k].pos = pi => k = i
    BY PlainIs DEF OptInv, ListOK
  <1>2. /\ pi \in DOMAIN S /\ pj \in DOMAIN S /\ pi # NoPos /\ pj # NoPos
        /\ CallIds(ctxItems[i]) = CallIds(S[pi]) /\ Answered(ctxItems[j]) = Answered(S[pj])
    BY <1>1, AsSaid, SameIs
  <1>3. DOMAIN S = DOMAIN chat /\ DOMAIN chat \subseteq Nat
    BY ChatIs DEF to_items
  <1>4. InRounds(S)
    BY ChatIs
  <1>5. pi < pj /\ \A k \in (pi + 1)..pj : IsResponse(S[k])
    <2> HIDE DEF S, pi, pj
    <2> QED
      BY <1>2, <1>4 DEF InRounds
  <1>6. DOMAIN ctxItems = 1..Len(ctxItems) /\ Len(ctxItems) \in Nat /\ InOrderOf(ctxItems)
    BY ListIs DEF OptInv, ListOK
  <1>7. i < j
    <2>1. ~(j < i)
      BY <1>2, <1>3, <1>5, <1>6 DEF InOrderOf
    <2>2. i # j
      BY <1>2, <1>3, <1>5
    <2> QED
      BY <1>6, <2>1, <2>2
  <1>8. ASSUME preset # "summarizing", NEW k \in (i + 1)..j PROVE IsResponse(ctxItems[k])
    <2> DEFINE pk == ctxItems[k].pos
    <2>1. k \in DOMAIN ctxItems /\ i < k /\ k <= j
      BY <1>6
    <2>2. Stems(ctxItems[k], chat, adapter, preset)
      BY <1>1, <2>1
    <2>3. pk # NoPos /\ pk \in DOMAIN S
      BY <1>3, <1>8, <2>2 DEF Stems
    <2>4. pi <= pk /\ pk <= pj
      <3>1. pi <= pk
        BY <1>2, <1>6, <2>1, <2>3 DEF InOrderOf
      <3>2. CASE k = j
        BY <1>2, <1>3, <3>1, <3>2
      <3>3. CASE k < j
        BY <1>2, <1>6, <2>1, <2>3, <3>1, <3>3 DEF InOrderOf
      <3> QED
        BY <1>6, <2>1, <3>2, <3>3
    <2>5. pk # pi
      <3>1. ASSUME pk = pi PROVE FALSE
        <4>1. Stems(ctxItems[i], chat, adapter, preset)
          BY <1>1
        <4>2. Plain(ctxItems[k]) = Plain(ctxItems[i])
          BY <1>2, <2>2, <3>1, <4>1, SameMessage
        <4>3. k = i
          BY <1>1, <2>1, <3>1, <4>2
        <4> QED
          BY <1>6, <2>1, <4>3
      <3> QED
        BY <3>1
    <2>6. pk \in (pi + 1)..pj
      BY <1>2, <1>3, <2>3, <2>4, <2>5
    <2>7. IsResponse(S[pk])
      BY <1>5, <2>6
    <2>8. S[pk].role = ctxItems[k].role
      BY <1>3, <2>2, <2>3 DEF Stems, to_items
    <2> QED
      BY <2>7, <2>8 DEF IsResponse
  <1> QED
    BY <1>7, <1>8

\* No sequence of layers tears a round of calls and answers apart, or loses one that
\* nothing was meant to leave out, and what is pinned goes out whole (pipeline.py:248-357).
THEOREM ConversationWhole == OptimizerSpec => []ConversationStaysWhole
  <1>1. OptInv => PairsAreWhole
    <2> SUFFICES ASSUME OptInv, Optimized, NEW i \in DOMAIN ctxItems
                 PROVE  /\ \A c \in CallIds(ctxItems[i]) :
                              \E j \in (i + 1)..Len(ctxItems) : c \in Answered(ctxItems[j])
                        /\ \A c \in Answered(ctxItems[i]) : \E j \in 1..(i - 1) : c \in CallIds(ctxItems[j])
      BY DEF PairsAreWhole
    <2>1. AllCalls(ctxItems) \subseteq AllAnswered(ctxItems) /\ AllAnswered(ctxItems) \subseteq AllCalls(ctxItems)
      BY DEF OptInv
    <2>2. DOMAIN ctxItems = 1..Len(ctxItems) /\ Len(ctxItems) \in Nat
      BY ListIs DEF OptInv, ListOK
    <2>3. ASSUME NEW c \in CallIds(ctxItems[i])
          PROVE  \E j \in (i + 1)..Len(ctxItems) : c \in Answered(ctxItems[j])
      <3>1. PICK j \in DOMAIN ctxItems : c \in Answered(ctxItems[j])
        BY <2>1 DEF AllCalls, AllAnswered
      <3>2. i < j
        BY <3>1, RoundsInOrder
      <3> QED
        BY <2>2, <3>1, <3>2
    <2>4. ASSUME NEW c \in Answered(ctxItems[i])
          PROVE  \E j \in 1..(i - 1) : c \in CallIds(ctxItems[j])
      <3>1. PICK j \in DOMAIN ctxItems : c \in CallIds(ctxItems[j])
        BY <2>1 DEF AllCalls, AllAnswered
      <3>2. j < i
        BY <3>1, RoundsInOrder
      <3> QED
        BY <2>2, <3>1, <3>2
    <2> QED
      BY <2>3, <2>4
  <1>2. OptInv => NoSummaryNoGap
    BY RoundsInOrder DEF NoSummaryNoGap, AnswersFollowTheirCall
  <1>3. OptInv => SingleCallsKept
    <2> SUFFICES ASSUME OptInv, OneCallAtATime(to_items(chat, adapter)), pruned = {}
                 PROVE  \A p \in CallPairs(to_items(chat, adapter)) : Represented(to_items(chat, adapter), p)
      BY DEF SingleCallsKept, RepresentativeKept
    <2>1. Told(to_items(chat, adapter), ctxItems)
      BY DEF OptInv
    <2> QED
      BY <2>1 DEF Told, Represented
  <1>4. OptInv => PinnedGoOutWhole
    <2> DEFINE s == to_items(chat, adapter)
    <2> SUFFICES ASSUME OptInv, NEW i \in DOMAIN s, s[i].pinned
                 PROVE  \E k \in DOMAIN ctxItems : ctxItems[k].pos = i /\ ~ctxItems[k].cut
      BY DEF PinnedGoOutWhole
    <2>1. i \in DOMAIN chat /\ ToItem(chat, i, adapter).pinned
      BY DEF to_items
    <2>2. PICK k \in DOMAIN ctxItems : ctxItems[k].id = <<i, 0>>
      BY <2>1 DEF OptInv, PinnedIn
    <2>3. Stems(ctxItems[k], chat, adapter, preset)
      BY DEF OptInv, ListOK
    <2> QED
      BY <2>2, <2>3 DEF Stems
  <1>5. OptInv => ConversationStaysWhole
    BY <1>1, <1>2, <1>3, <1>4 DEF ConversationStaysWhole
  <1> QED
    BY <1>5, OptInit, OptStep, PTL DEF OptimizerSpec

(***************************************************************************)
(* Sums of tokens.                                                         *)
(***************************************************************************)
\* Of a nonempty set of finite sets one is the smallest.
LEMMA SmallestSet ==
  ASSUME NEW B, B # {}, \A x \in B : IsFiniteSet(x)
  PROVE  \E x \in B : \A y \in B : ~(Cardinality(y) < Cardinality(x))
  <1> DEFINE T == {Cardinality(x) : x \in B}
  <1>1. T \subseteq Nat /\ T # {}
    BY FS_CardinalityType
  <1>2. PICK n \in T : \A k \in T : ~(k < n)
    <2> HIDE DEF T
    <2> QED
      BY <1>1, LeastSize
  <1> QED
    BY <1>2

\* A set without one of its members is smaller.
LEMMA SmallerWithout ==
  ASSUME NEW S, IsFiniteSet(S), NEW x \in S
  PROVE  /\ IsFiniteSet(S \ {x}) /\ Cardinality(S) \in Nat
         /\ Cardinality(S \ {x}) = Cardinality(S) - 1 /\ Cardinality(S \ {x}) \in Nat
         /\ Cardinality(S \ {x}) < Cardinality(S)
  <1>1. IsFiniteSet(S \ {x}) /\ Cardinality(S \ {x}) = Cardinality(S) - 1
    BY FS_RemoveElement
  <1>2. Cardinality(S) \in Nat /\ Cardinality(S \ {x}) \in Nat
    BY <1>1, FS_CardinalityType
  <1> QED
    BY <1>1, <1>2

\* The member that a sum takes first.
Some(S) == CHOOSE x \in S : TRUE

\* The function that MapThenSumSet takes its result from, on the subsets of I
\* that D holds.
SumsUp(fn, s, D) ==
  fn = [J \in D |-> IF J = {} THEN 0 ELSE count_item_tokens(s[Some(J)]) + fn[J \ {Some(J)}]]

\* MapThenSumSet takes its result from this function.
LEMMA TokensAdd ==
  ASSUME NEW s, NEW I
  PROVE  TokensAt(s, I) = (CHOOSE fn : SumsUp(fn, s, SUBSET I))[I]
  BY DEF TokensAt, MapThenSumSet, MapThenFoldSet, SumsUp, Some

\* It exists: it is built up by the size of the sets.
LEMMA AddsExists ==
  ASSUME NEW s, NEW I, IsFiniteSet(I)
  PROVE  \E fn : SumsUp(fn, s, SUBSET I)
  <1> DEFINE D(n) == {J \in SUBSET I : Cardinality(J) <= n}
             Bad == {n \in Nat : ~\E fn : SumsUp(fn, s, D(n))}
  <1>1. \A J \in SUBSET I : IsFiniteSet(J) /\ Cardinality(J) \in Nat
    BY FS_Subset, FS_CardinalityType
  <1>2. ASSUME Bad # {} PROVE FALSE
    <2>1. PICK n \in Bad : \A k \in Bad : ~(k < n)
      <3>1. Bad \subseteq Nat
        OBVIOUS
      <3> HIDE DEF Bad
      <3> QED
        BY <1>2, <3>1, LeastSize
    <2>2. n \in Nat /\ ~\E fn : SumsUp(fn, s, D(n))
      BY <2>1
    <2>3. CASE n = 0
      <3> DEFINE f == [J \in D(0) |-> 0]
      <3>1. \A J \in D(0) : J = {}
        BY <1>1, FS_EmptySet
      <3>2. f = [J \in D(0) |-> IF J = {} THEN 0
                                ELSE count_item_tokens(s[Some(J)]) + f[J \ {Some(J)}]]
        BY <3>1
      <3>3. SumsUp(f, s, D(0))
        BY <3>2 DEF SumsUp
      <3> QED
        BY <2>2, <2>3, <3>3
    <2>4. CASE n # 0
      <3>1. n - 1 \in Nat /\ n - 1 < n
        BY <2>2, <2>4
      <3>2. PICK g : SumsUp(g, s, D(n - 1))
        BY <2>1, <3>1
      <3> DEFINE E(J, fn) == IF J = {} THEN 0
                             ELSE count_item_tokens(s[Some(J)]) + fn[J \ {Some(J)}]
                 h == [J \in D(n) |-> E(J, g)]
      <3>3. \A J \in D(n - 1) : g[J] = E(J, g)
        BY <3>2 DEF SumsUp
      <3>4. ASSUME NEW J \in D(n), J # {}
            PROVE  J \ {Some(J)} \in D(n - 1) /\ J \ {Some(J)} \in D(n)
        <4>1. Some(J) \in J
          BY <3>4 DEF Some
        <4>2. Cardinality(J \ {Some(J)}) = Cardinality(J) - 1 /\ Cardinality(J) \in Nat
          BY <1>1, <4>1, SmallerWithout
        <4> QED
          BY <2>2, <3>1, <4>2
      <3>5. \A J \in D(n) : E(J, g) = E(J, h)
        <4> SUFFICES ASSUME NEW J \in D(n), J # {}
                     PROVE  g[J \ {Some(J)}] = h[J \ {Some(J)}]
          OBVIOUS
        <4> DEFINE K == J \ {Some(J)}
        <4>1. K \in D(n - 1) /\ K \in D(n)
          BY <3>4
        <4>2. h[K] = E(K, g)
          BY <4>1
        <4>3. g[K] = E(K, g)
          BY <3>3, <4>1
        <4> QED
          BY <4>2, <4>3
      <3>6. h = [J \in D(n) |-> E(J, h)]
        BY <3>5
      <3>7. SumsUp(h, s, D(n))
        BY <3>6 DEF SumsUp
      <3> QED
        BY <2>2, <3>7
    <2> QED
      BY <2>3, <2>4
  <1>3. Cardinality(I) \in Nat /\ D(Cardinality(I)) = SUBSET I
    BY <1>1, FS_Subset
  <1>4. Cardinality(I) \notin Bad
    BY <1>2
  <1> QED
    BY <1>3, <1>4

\* Functions that add up the same items agree.
LEMMA AddsAgree ==
  ASSUME NEW s, NEW I, NEW J, IsFiniteSet(I), IsFiniteSet(J), NEW f, NEW g,
         SumsUp(f, s, SUBSET I), SumsUp(g, s, SUBSET J), NEW K, K \subseteq I, K \subseteq J
  PROVE  f[K] = g[K]
  <1> DEFINE Bad == {L \in SUBSET K : f[L] # g[L]}
  <1>1. SUFFICES ASSUME Bad # {} PROVE FALSE
    OBVIOUS
  <1>2. \A L \in Bad : IsFiniteSet(L)
    BY FS_Subset
  <1>3. PICK L \in Bad : \A M \in Bad : ~(Cardinality(M) < Cardinality(L))
    <2> HIDE DEF Bad
    <2> QED
      BY <1>1, <1>2, SmallestSet
  <1>4. L \subseteq I /\ L \subseteq J /\ f[L] # g[L]
    BY <1>3
  <1>5. /\ f[L] = IF L = {} THEN 0 ELSE count_item_tokens(s[Some(L)]) + f[L \ {Some(L)}]
        /\ g[L] = IF L = {} THEN 0 ELSE count_item_tokens(s[Some(L)]) + g[L \ {Some(L)}]
    BY <1>4 DEF SumsUp
  <1>6. L # {}
    BY <1>4, <1>5
  <1>7. Some(L) \in L
    BY <1>6 DEF Some
  <1>8. Cardinality(L \ {Some(L)}) < Cardinality(L)
    BY <1>2, <1>3, <1>7, SmallerWithout
  <1>9. f[L \ {Some(L)}] = g[L \ {Some(L)}]
    BY <1>3, <1>8
  <1> QED
    BY <1>4, <1>5, <1>6, <1>9

\* One item and the rest.
LEMMA TokensOfSome ==
  ASSUME NEW s, NEW I, IsFiniteSet(I)
  PROVE  TokensAt(s, I) = IF I = {} THEN 0
                          ELSE count_item_tokens(s[Some(I)]) + TokensAt(s, I \ {Some(I)})
  <1> DEFINE F(J) == CHOOSE fn : SumsUp(fn, s, SUBSET J)
             K == I \ {Some(I)}
  <1>1. \A J : IsFiniteSet(J) => SumsUp(F(J), s, SUBSET J) /\ TokensAt(s, J) = F(J)[J]
    <2> SUFFICES ASSUME NEW J, IsFiniteSet(J)
                 PROVE  SumsUp(F(J), s, SUBSET J) /\ TokensAt(s, J) = F(J)[J]
      OBVIOUS
    <2>1. \E fn : SumsUp(fn, s, SUBSET J)
      BY AddsExists
    <2> QED
      BY <2>1, TokensAdd
  <1> HIDE DEF F
  <1>2. F(I)[I] = IF I = {} THEN 0 ELSE count_item_tokens(s[Some(I)]) + F(I)[I \ {Some(I)}]
    BY <1>1 DEF SumsUp
  <1>3. IsFiniteSet(K) /\ K \subseteq I /\ K \subseteq K
    BY FS_Subset
  <1>4. F(I)[K] = F(K)[K]
    <2> HIDE DEF K
    <2>1. SumsUp(F(I), s, SUBSET I) /\ SumsUp(F(K), s, SUBSET K)
      BY <1>1, <1>3
    <2> QED
      BY <1>3, <2>1, AddsAgree
  <1> QED
    BY <1>1, <1>2, <1>3, <1>4

\* The items at I have sizes that are counted.
Counted(s, I) == IsFiniteSet(I) /\ \A i \in I : count_item_tokens(s[i]) \in Nat

\* Their sum is a number.
LEMMA TokensType ==
  ASSUME NEW s, NEW I, Counted(s, I)
  PROVE  TokensAt(s, I) \in Nat
  <1> DEFINE Bad == {J \in SUBSET I : TokensAt(s, J) \notin Nat}
  <1>1. SUFFICES ASSUME Bad # {} PROVE FALSE
    OBVIOUS
  <1>2. \A J \in Bad : IsFiniteSet(J)
    BY FS_Subset DEF Counted
  <1>3. PICK J \in Bad : \A M \in Bad : ~(Cardinality(M) < Cardinality(J))
    <2> HIDE DEF Bad
    <2> QED
      BY <1>1, <1>2, SmallestSet
  <1>4. J \subseteq I /\ TokensAt(s, J) \notin Nat /\ IsFiniteSet(J)
    BY <1>2, <1>3
  <1>5. J # {} /\ TokensAt(s, J) = count_item_tokens(s[Some(J)]) + TokensAt(s, J \ {Some(J)})
    BY <1>4, TokensOfSome
  <1>6. Some(J) \in J
    BY <1>5 DEF Some
  <1>7. Cardinality(J \ {Some(J)}) < Cardinality(J)
    BY <1>4, <1>6, SmallerWithout
  <1>8. TokensAt(s, J \ {Some(J)}) \in Nat
    BY <1>3, <1>4, <1>7
  <1> QED
    BY <1>4, <1>5, <1>6, <1>8 DEF Counted

\* It does not matter which item is counted first.
LEMMA TokensWith ==
  ASSUME NEW s, NEW I, Counted(s, I), NEW i \in I
  PROVE  /\ TokensAt(s, I) = count_item_tokens(s[i]) + TokensAt(s, I \ {i})
         /\ Counted(s, I \ {i})
  <1> DEFINE C(j) == count_item_tokens(s[j])
             Bad == {J \in SUBSET I : \E j \in J : TokensAt(s, J) # C(j) + TokensAt(s, J \ {j})}
  <1>1. \A J \in SUBSET I : Counted(s, J)
    BY FS_Subset DEF Counted
  <1>2. \A J \in SUBSET I : IsFiniteSet(J) /\ TokensAt(s, J) \in Nat
    BY <1>1, TokensType DEF Counted
  <1>3. ASSUME Bad # {} PROVE FALSE
    <2>1. \A J \in Bad : IsFiniteSet(J)
      BY <1>2
    <2>2. PICK J \in Bad : \A M \in Bad : ~(Cardinality(M) < Cardinality(J))
      <3> HIDE DEF Bad
      <3> QED
        BY <1>3, <2>1, SmallestSet
    <2>3. PICK j \in J : TokensAt(s, J) # C(j) + TokensAt(s, J \ {j})
      BY <2>2
    <2> DEFINE k == Some(J)
    <2>4. k \in J /\ J \subseteq I /\ IsFiniteSet(J)
      BY <1>2, <2>2 DEF Some
    <2>5. TokensAt(s, J) = C(k) + TokensAt(s, J \ {k})
      BY <2>4, TokensOfSome
    <2> HIDE DEF k
    <2>6. j # k
      BY <2>3, <2>5
    <2>7. TokensAt(s, J \ {k}) = C(j) + TokensAt(s, (J \ {k}) \ {j})
      <3>1. Cardinality(J \ {k}) < Cardinality(J)
        BY <2>4, SmallerWithout
      <3>2. J \ {k} \notin Bad
        BY <2>2, <3>1
      <3> QED
        BY <2>4, <2>6, <3>2
    <2>8. TokensAt(s, J \ {j}) = C(k) + TokensAt(s, (J \ {j}) \ {k})
      <3>1. Cardinality(J \ {j}) < Cardinality(J)
        BY <2>4, SmallerWithout
      <3>2. J \ {j} \notin Bad
        BY <2>2, <3>1
      <3> QED
        BY <2>4, <2>6, <3>2
    <2>9. (J \ {k}) \ {j} = (J \ {j}) \ {k}
      OBVIOUS
    <2>10. C(j) \in Nat /\ C(k) \in Nat /\ TokensAt(s, (J \ {j}) \ {k}) \in Nat
      BY <1>2, <2>4 DEF Counted
    <2> DEFINE rest == TokensAt(s, (J \ {j}) \ {k})
    <2>11. TokensAt(s, J \ {k}) = C(j) + rest /\ TokensAt(s, J \ {j}) = C(k) + rest
      BY <2>7, <2>8, <2>9
    <2>12. rest \in Nat /\ C(j) \in Nat /\ C(k) \in Nat
      BY <2>10
    <2> HIDE DEF C, rest
    <2>13. TokensAt(s, J) = C(k) + (C(j) + rest) /\ TokensAt(s, J) # C(j) + (C(k) + rest)
      BY <2>3, <2>5, <2>11
    <2> QED
      BY <2>12, <2>13
  <1>4. I \notin Bad
    BY <1>3
  <1> QED
    BY <1>1, <1>4

\* Sizes do not add up to less for more items: counted where each item of t is one of s's,
\* no two the same, t's are within s's.
LEMMA TokensWithin ==
  ASSUME NEW s, NEW t, NEW J, NEW I, Counted(s, I), IsFiniteSet(J), NEW f,
         \A j \in J : f[j] \in I /\ t[j] = s[f[j]],
         \A j, k \in J : f[j] = f[k] => j = k
  PROVE  Counted(t, J) /\ TokensAt(t, J) <= TokensAt(s, I) /\ TokensAt(s, I) \in Nat
  <1> DEFINE Img(K) == {f[k] : k \in K}
             Bad == {K \in SUBSET J : ~\A A \in SUBSET I : Img(K) \subseteq A => TokensAt(t, K) <= TokensAt(s, A)}
  <1>1. \A A \in SUBSET I : Counted(s, A) /\ TokensAt(s, A) \in Nat
    <2>1. \A A \in SUBSET I : Counted(s, A)
      BY FS_Subset DEF Counted
    <2> QED
      BY <2>1, TokensType
  <1>2. \A K \in SUBSET J : IsFiniteSet(K) /\ Counted(t, K)
    BY FS_Subset DEF Counted
  <1>3. ASSUME Bad # {} PROVE FALSE
    <2>1. \A K \in Bad : IsFiniteSet(K)
      BY <1>2
    <2>2. PICK K \in Bad : \A M \in Bad : ~(Cardinality(M) < Cardinality(K))
      <3> HIDE DEF Bad
      <3> QED
        BY <1>3, <2>1, SmallestSet
    <2>3. PICK A \in SUBSET I : Img(K) \subseteq A /\ ~(TokensAt(t, K) <= TokensAt(s, A))
      BY <2>2
    <2>4. K \subseteq J /\ IsFiniteSet(K) /\ Counted(t, K) /\ Counted(s, A)
      BY <1>1, <1>2, <2>2
    <2>5. CASE K = {}
      <3>1. TokensAt(t, K) = 0
        BY <2>4, <2>5, TokensOfSome
      <3>2. TokensAt(s, A) \in Nat
        BY <1>1
      <3> QED
        BY <2>3, <3>1, <3>2
    <2>6. CASE K # {}
      <3>1. PICK k \in K : TRUE
        BY <2>6
      <3> DEFINE i == f[k]
      <3>2. i \in A /\ t[k] = s[i]
        BY <2>3, <2>4
      <3> HIDE DEF i
      <3>3. TokensAt(t, K) = count_item_tokens(t[k]) + TokensAt(t, K \ {k})
        BY <2>4, TokensWith
      <3>4. TokensAt(s, A) = count_item_tokens(s[i]) + TokensAt(s, A \ {i})
        BY <2>4, <3>2, TokensWith
      <3>5. TokensAt(t, K \ {k}) <= TokensAt(s, A \ {i})
        <4>1. K \ {k} \notin Bad
          BY <2>2, <2>4, SmallerWithout
        <4>2. Img(K \ {k}) \subseteq A \ {i}
          BY <2>3, <2>4 DEF i
        <4>3. K \ {k} \in SUBSET J /\ A \ {i} \in SUBSET I
          BY <2>4
        <4> HIDE DEF Img
        <4> QED
          BY <4>1, <4>2, <4>3
      <3>6. /\ count_item_tokens(s[i]) \in Nat /\ TokensAt(s, A \ {i}) \in Nat
            /\ TokensAt(t, K \ {k}) \in Nat
        <4>1. A \ {i} \in SUBSET I /\ i \in I
          BY <3>2
        <4>2. Counted(t, K \ {k})
          BY <1>2, <2>4
        <4> QED
          BY <1>1, <4>1, <4>2, TokensType DEF Counted
      <3> DEFINE c == count_item_tokens(s[i])
                 u == TokensAt(t, K \ {k})
                 v == TokensAt(s, A \ {i})
      <3>7. TokensAt(t, K) = c + u /\ TokensAt(s, A) = c + v /\ u <= v
            /\ c \in Nat /\ u \in Nat /\ v \in Nat
        BY <3>2, <3>3, <3>4, <3>5, <3>6
      <3> HIDE DEF c, u, v
      <3> QED
        BY <2>3, <3>7
    <2> QED
      BY <2>5, <2>6
  <1>4. J \notin Bad /\ Img(J) \subseteq I /\ J \subseteq J /\ I \subseteq I
    BY <1>3
  <1> QED
    BY <1>1, <1>2, <1>4

(***************************************************************************)
(* What is within the budget.                                              *)
(***************************************************************************)
\* What OverBudgetForAReason asks of a list, a window's last item aside.
Within(s) == TokensAt(s, Unpaired(s)) <= MaxTokens \/ Unpaired(s) \cap Free(s) = {}

\* What is apart from rounds in t is, each once, at one of the indexes J of s.
UnpairedFrom(t, s, J) ==
  \E f : /\ \A k \in Unpaired(t) : f[k] \in J /\ t[k] = s[f[k]]
         /\ \A j, k \in Unpaired(t) : f[j] = f[k] => j = k

\* What is in no round.
LEMMA UnpairedIs ==
  ASSUME NEW s, NEW i
  PROVE  i \in Unpaired(s) <=> i \in DOMAIN s /\ CallIds(s[i]) = {} /\ Answered(s[i]) = {}
  BY DEF Unpaired


\* The items of a list have sizes that are counted.
LEMMA ListCounted ==
  ASSUME NEW msgs, NEW a, NEW p, NEW s, ListOK(s, msgs, a, p), NEW I, I \subseteq DOMAIN s
  PROVE  Counted(s, I)
  <1>1. DOMAIN s = 1..Len(s) /\ Len(s) \in Nat
    BY ListIs DEF ListOK
  <1>2. IsFiniteSet(I)
    BY <1>1, IntervalSize, FS_Subset
  <1>3. ASSUME NEW i \in I PROVE count_item_tokens(s[i]) \in Nat
    <2>1. s[i].size \in Nat /\ Len(s[i].calls) \in Nat
      BY DEF ListOK, Stems
    <2> QED
      BY <2>1 DEF count_item_tokens
  <1> QED
    BY <1>2, <1>3 DEF Counted

\* A list is within the budget if what is apart in it is taken from what is.
LEMMA WithinBy ==
  ASSUME NEW msgs, NEW a, NEW p, NEW s, NEW t, ListOK(s, msgs, a, p), ListOK(t, msgs, a, p),
         NEW J, J \subseteq DOMAIN s, UnpairedFrom(t, s, J),
         TokensAt(s, J) <= MaxTokens \/ J \cap Free(s) = {}
  PROVE  Within(t)
  <1>1. PICK f : /\ \A k \in Unpaired(t) : f[k] \in J /\ t[k] = s[f[k]]
                 /\ \A j, k \in Unpaired(t) : f[j] = f[k] => j = k
    BY DEF UnpairedFrom
  <1>2. CASE TokensAt(s, J) <= MaxTokens
    <2>1. Counted(s, J)
      BY ListCounted
    <2>2. Unpaired(t) \subseteq DOMAIN t
      BY UnpairedIs
    <2>3. Counted(t, Unpaired(t))
      BY <2>2, ListCounted
    <2>4. TokensAt(t, Unpaired(t)) <= TokensAt(s, J) /\ TokensAt(s, J) \in Nat
      BY <1>1, <2>1, <2>3, TokensWithin DEF Counted
    <2>5. TokensAt(t, Unpaired(t)) \in Nat
      BY <2>3, TokensType
    <2>6. TokensAt(t, Unpaired(t)) <= MaxTokens
      BY <1>2, <2>4, <2>5, OptimizerAssumption
    <2> QED
      BY <2>6 DEF Within
  <1>3. CASE J \cap Free(s) = {}
    <2>1. ASSUME NEW k \in Unpaired(t) \cap Free(t) PROVE FALSE
      <3>1. f[k] \in J /\ t[k] = s[f[k]] /\ ~t[k].pinned
        BY <1>1 DEF Free
      <3>2. f[k] \in Free(s)
        BY <3>1 DEF Free
      <3> QED
        BY <1>3, <3>1, <3>2
    <2> QED
      BY <2>1 DEF Within
  <1> QED
    BY <1>2, <1>3

\* A selection takes each item once.
LEMMA ItemsAtUnpaired ==
  ASSUME NEW s, IsList(s), NEW I
  PROVE  LET t == ItemsAt(s, I) IN
         /\ UnpairedFrom(t, s, I \cap Unpaired(s))
         /\ Len(s) <= 1 => Len(t) <= 1
         /\ Cardinality(I \cap DOMAIN s) <= 1 => Len(t) <= 1
  <1> DEFINE t == ItemsAt(s, I)
  <1>1. PICK ix : /\ \A k \in DOMAIN t : ix[k] \in I \cap DOMAIN s /\ t[k] = s[ix[k]]
                  /\ \A j, k \in DOMAIN t : j < k => ix[j] < ix[k]
    BY ItemsAtIs
  <1>2. IsList(t) /\ DOMAIN t = 1..Len(t) /\ Len(t) \in Nat
    BY ItemsAtIs, ListIs
  <1>3. DOMAIN s = 1..Len(s) /\ Len(s) \in Nat
    BY ListIs
  <1> HIDE DEF t
  <1>4. \A j, k \in DOMAIN t : ix[j] = ix[k] => j = k
    <2> SUFFICES ASSUME NEW j \in DOMAIN t, NEW k \in DOMAIN t, ix[j] = ix[k], j # k PROVE FALSE
      OBVIOUS
    <2>1. ix[j] < ix[k] \/ ix[k] < ix[j]
      BY <1>1, <1>2
    <2>2. ix[j] \in Nat
      BY <1>1, <1>3
    <2> QED
      BY <2>1, <2>2
  <1>5. UnpairedFrom(t, s, I \cap Unpaired(s))
    <2>1. ASSUME NEW k \in Unpaired(t)
          PROVE  k \in DOMAIN t /\ ix[k] \in I \cap Unpaired(s) /\ t[k] = s[ix[k]]
      <3>1. k \in DOMAIN t /\ CallIds(t[k]) = {} /\ Answered(t[k]) = {}
        BY UnpairedIs
      <3>2. ix[k] \in I \cap DOMAIN s /\ t[k] = s[ix[k]]
        BY <1>1, <3>1
      <3>3. CallIds(s[ix[k]]) = {} /\ Answered(s[ix[k]]) = {}
        BY <3>1, <3>2
      <3> QED
        BY <3>1, <3>2, <3>3, UnpairedIs
    <2> QED
      BY <1>4, <2>1 DEF UnpairedFrom
  <1>6. ASSUME Len(t) > 1 PROVE ix[1] # ix[2] /\ ix[1] \in I \cap DOMAIN s /\ ix[2] \in I \cap DOMAIN s
    <2>1. 1 \in DOMAIN t /\ 2 \in DOMAIN t
      BY <1>2, <1>6
    <2> QED
      BY <1>1, <1>4, <2>1
  <1>7. Len(s) <= 1 => Len(t) <= 1
    BY <1>2, <1>3, <1>6
  <1>8. ASSUME Cardinality(I \cap DOMAIN s) <= 1 PROVE Len(t) <= 1
    <2> DEFINE J == I \cap DOMAIN s
    <2>1. IsFiniteSet(J)
      BY <1>3, IntervalSize, FS_Subset
    <2> SUFFICES ASSUME Len(t) > 1 PROVE FALSE
      BY <1>2
    <2>2. ix[1] # ix[2] /\ ix[1] \in J /\ ix[2] \in J
      BY <1>6
    <2>3. Cardinality(J) <= 1
      BY <1>8
    <2> HIDE DEF J
    <2>4. Cardinality(J \ {ix[1]}) = Cardinality(J) - 1 /\ Cardinality(J) \in Nat
          /\ IsFiniteSet(J \ {ix[1]}) /\ Cardinality(J \ {ix[1]}) \in Nat
      BY <2>1, <2>2, SmallerWithout
    <2>5. Cardinality(J \ {ix[1]}) = 0
      BY <2>3, <2>4
    <2>6. J \ {ix[1]} = {}
      BY <2>4, <2>5, FS_EmptySet
    <2> QED
      BY <2>2, <2>6
  <1> QED
    BY <1>5, <1>7, <1>8 DEF t

\* A sort of a list shows each of its items once.
LEMMA SortIs ==
  ASSUME NEW s, IsList(s), NEW P, \A x \in P : x = <<x[1], x[2]>> /\ x[1] \in Nat /\ x[2] \in DOMAIN s,
         \A x, y \in P : x[2] = y[2] => x[1] = y[1]
  PROVE  LET t == Arranged(s, P) IN
         /\ IsList(t)
         /\ \E ax : /\ \A k \in DOMAIN t : ax[k] \in DOMAIN s /\ t[k] = s[ax[k]]
                    /\ \A j, k \in DOMAIN t : ax[j] = ax[k] => j = k
  <1> DEFINE t == Arranged(s, P)
  <1>1. DOMAIN s = 1..Len(s) /\ Len(s) \in Nat
    BY ListIs
  <1>2. IsFiniteSet(P) /\ P \subseteq Nat \X Nat
    <2>1. IsFiniteSet(DOMAIN s) /\ DOMAIN s \subseteq Nat
      BY <1>1, IntervalSize
    <2>2. P \subseteq Nat \X DOMAIN s
      OBVIOUS
    <2>3. \A x, y \in P : x[2] = y[2] => x = y
      OBVIOUS
    <2> QED
      BY <2>1, <2>2, <2>3, PlacesFinite
  <1>3. PICK at : /\ Order(at, P)
                  /\ \A k \in 1..Cardinality(P) : t[k] = s[at[k][2]]
    BY <1>2, ArrangedIs
  <1>4. IsList(t) /\ DOMAIN t = 1..Cardinality(P) /\ Cardinality(P) \in Nat
    BY <1>2, ArrangedIs
  <1> HIDE DEF t
  <1> DEFINE ax == [k \in DOMAIN t |-> at[k][2]]
  <1>5. \A k \in DOMAIN t : at[k] \in P
    BY <1>3, <1>4 DEF Order
  <1>6. \A k \in DOMAIN t : ax[k] \in DOMAIN s /\ t[k] = s[ax[k]]
    BY <1>3, <1>4, <1>5
  <1>7. ASSUME NEW j \in DOMAIN t, NEW k \in DOMAIN t, ax[j] = ax[k] PROVE j = k
    <2>1. at[j] = at[k]
      BY <1>5, <1>7
    <2>2. j < k \/ k < j \/ j = k
      BY <1>4
    <2> QED
      BY <1>3, <1>4, <2>1, <2>2 DEF Order
  <1> QED
    BY <1>4, <1>6, <1>7 DEF t

\* The repair adds to a selection that has all that is pinned nothing but rounds: and to
\* a single item that is in no round nothing at all.
LEMMA RepairTakes ==
  ASSUME NEW msgs, NEW a, NEW p, NEW before, NEW I, ListOK(before, msgs, a, p),
         DOMAIN msgs \subseteq Nat, \A i \in DOMAIN before : before[i].pinned => i \in I,
         NEW r, r = Repair(before, ItemsAt(before, I))
  PROVE  /\ UnpairedFrom(r, before, I \cap Unpaired(before))
         /\ Cardinality(I \cap DOMAIN before) <= 1 => Unpaired(r) = {} \/ Len(r) <= 1
  <1> DEFINE after == ItemsAt(before, I)
             L == ItemsAt(before, Lost(before, after))
             kept == after \o L
             H == ItemsAt(before, Halves(before, kept))
             all == kept \o H
             P == {<<Position(all[i], before, Len(all)), i>> : i \in DOMAIN all}
  <1>1. IsList(before)
    BY DEF ListOK
  <1>2. /\ UnpairedFrom(after, before, I \cap Unpaired(before))
        /\ Cardinality(I \cap DOMAIN before) <= 1 => Len(after) <= 1
        /\ ListOK(after, msgs, a, p) /\ IsList(after)
    <2>1. ListOK(after, msgs, a, p)
      BY ItemsAtOK
    <2>2. IsList(after)
      BY <2>1 DEF ListOK
    <2> QED
      BY <1>1, <2>1, <2>2, ItemsAtUnpaired
  <1>3. Lost(before, after) = {}
    <2>1. \A i \in I \cap DOMAIN before : \E k \in DOMAIN after : after[k] = before[i]
      BY <1>1, Taken
    <2> HIDE DEF after
    <2> QED
      BY <2>1 DEF Lost, ObjectIds
  <1>4. IsList(L) /\ ListOK(L, msgs, a, p) /\ Len(L) = 0
    <2>1. ListOK(L, msgs, a, p) /\ IsList(L)
      BY ItemsAtOK DEF ListOK
    <2>2. \A k \in DOMAIN L : \E i \in Lost(before, after) \cap DOMAIN before : L[k] = before[i]
      BY <1>1, Taken
    <2> HIDE DEF L, after
    <2>3. DOMAIN L = {}
      BY <1>3, <2>2
    <2>4. DOMAIN L = 1..Len(L) /\ Len(L) \in Nat
      BY <2>1, ListIs
    <2>5. ~(1 \in DOMAIN L)
      BY <2>3
    <2> QED
      BY <2>1, <2>4, <2>5
  <1>5. /\ IsList(kept) /\ Len(kept) = Len(after) /\ DOMAIN kept = DOMAIN after
        /\ \A k \in DOMAIN after : kept[k] = after[k]
    <2> HIDE DEF L, after
    <2>1. IsList(kept) /\ Len(kept) = Len(after) + Len(L) /\ \A k \in DOMAIN after : kept[k] = after[k]
      BY <1>2, <1>4, Joined
    <2> HIDE DEF kept
    <2>2. DOMAIN after = 1..Len(after) /\ Len(after) \in Nat /\ DOMAIN kept = 1..Len(kept)
      BY <1>2, <2>1, ListIs
    <2> QED
      BY <1>4, <2>1, <2>2
  <1> HIDE DEF L, after, kept
  <1>6. /\ IsList(H)
        /\ \A k \in DOMAIN H : \E i \in Halves(before, kept) \cap DOMAIN before : H[k] = before[i]
    BY <1>1, Taken, ItemsAtIs
  <1>7. \A k \in DOMAIN H : ~(CallIds(H[k]) = {} /\ Answered(H[k]) = {})
    <2> SUFFICES ASSUME NEW k \in DOMAIN H, CallIds(H[k]) = {}, Answered(H[k]) = {} PROVE FALSE
      OBVIOUS
    <2>1. PICK i \in Halves(before, kept) : H[k] = before[i]
      BY <1>6
    <2>2. CallIds(before[i]) = {} /\ Answered(before[i]) = {}
      BY <2>1
    <2> QED
      BY <2>2 DEF Halves
  <1> HIDE DEF H
  <1>8. /\ IsList(all) /\ Len(all) = Len(kept) + Len(H)
        /\ \A k \in DOMAIN all : \/ k \in DOMAIN kept /\ all[k] = kept[k]
                                 \/ k - Len(kept) \in DOMAIN H /\ all[k] = H[k - Len(kept)]
    BY <1>5, <1>6, Joined, SMTT(40)
  <1>9. r = Arranged(all, P)
    BY DEF Repair, after, kept, L, H
  <1> HIDE DEF all
  <1>10. \A k \in Unpaired(all) : k \in Unpaired(after) /\ all[k] = after[k]
    <2> SUFFICES ASSUME NEW k \in Unpaired(all) PROVE k \in Unpaired(after) /\ all[k] = after[k]
      OBVIOUS
    <2>1. k \in DOMAIN all /\ CallIds(all[k]) = {} /\ Answered(all[k]) = {}
      BY UnpairedIs
    <2>2. k \in DOMAIN kept /\ all[k] = kept[k]
      <3>1. ASSUME k - Len(kept) \in DOMAIN H, all[k] = H[k - Len(kept)] PROVE FALSE
        <4>1. CallIds(H[k - Len(kept)]) = {} /\ Answered(H[k - Len(kept)]) = {}
          BY <2>1, <3>1
        <4> QED
          BY <1>7, <3>1, <4>1
      <3> QED
        BY <1>8, <2>1, <3>1
    <2>3. k \in DOMAIN after /\ all[k] = after[k]
      BY <1>5, <2>2
    <2>4. CallIds(after[k]) = {} /\ Answered(after[k]) = {}
      BY <2>1, <2>3
    <2> QED
      BY <2>3, <2>4, UnpairedIs
  <1>11. ListOK(kept, msgs, a, p) /\ \A k \in DOMAIN all : Position(all[k], before, Len(all)) \in Nat
    <2>1. ListOK(kept, msgs, a, p)
      BY <1>2, <1>5 DEF ListOK
    <2>2. \A k \in DOMAIN H : Stems(H[k], msgs, a, p)
      BY <1>6 DEF ListOK
    <2>5. \A k \in DOMAIN kept : Stems(kept[k], msgs, a, p)
      BY <2>1 DEF ListOK
    <2>3. \A k \in DOMAIN all : Stems(all[k], msgs, a, p)
      BY <1>8, <2>2, <2>5
    <2>4. Len(all) \in Nat
      BY <1>8, ListIs
    <2> QED
      BY <1>1, <2>1, <2>3, <2>4, PositionIs
  <1>12. /\ IsList(r)
         /\ \E ax : /\ \A k \in DOMAIN r : ax[k] \in DOMAIN all /\ r[k] = all[ax[k]]
                    /\ \A j, k \in DOMAIN r : ax[j] = ax[k] => j = k
    <2>1. \A x \in P : x = <<x[1], x[2]>> /\ x[1] \in Nat /\ x[2] \in DOMAIN all
      BY <1>11
    <2>2. \A x, y \in P : x[2] = y[2] => x[1] = y[1]
      OBVIOUS
    <2>3. IsList(all)
      BY <1>8
    <2> HIDE DEF P
    <2>4. LET t == Arranged(all, P) IN
          /\ IsList(t)
          /\ \E ax : /\ \A k \in DOMAIN t : ax[k] \in DOMAIN all /\ t[k] = all[ax[k]]
                     /\ \A j, k \in DOMAIN t : ax[j] = ax[k] => j = k
      BY <2>1, <2>2, <2>3, SortIs
    <2> QED
      BY <1>9, <2>4
  <1>13. PICK ax : /\ \A k \in DOMAIN r : ax[k] \in DOMAIN all /\ r[k] = all[ax[k]]
                   /\ \A j, k \in DOMAIN r : ax[j] = ax[k] => j = k
    BY <1>12
  <1> HIDE DEF P
  <1>14. \A k \in Unpaired(r) : k \in DOMAIN r /\ ax[k] \in Unpaired(after) /\ r[k] = after[ax[k]]
    <2> SUFFICES ASSUME NEW k \in Unpaired(r)
                 PROVE  k \in DOMAIN r /\ ax[k] \in Unpaired(after) /\ r[k] = after[ax[k]]
      OBVIOUS
    <2>1. k \in DOMAIN r /\ CallIds(r[k]) = {} /\ Answered(r[k]) = {}
      BY UnpairedIs
    <2>2. ax[k] \in DOMAIN all /\ r[k] = all[ax[k]]
      BY <1>13, <2>1
    <2>3. CallIds(all[ax[k]]) = {} /\ Answered(all[ax[k]]) = {}
      BY <2>1, <2>2
    <2>4. ax[k] \in Unpaired(all)
      BY <2>2, <2>3, UnpairedIs
    <2> QED
      BY <1>10, <2>1, <2>2, <2>4
  <1>15. UnpairedFrom(r, before, I \cap Unpaired(before))
    <2>1. PICK f : /\ \A k \in Unpaired(after) : f[k] \in I \cap Unpaired(before) /\ after[k] = before[f[k]]
                   /\ \A j, k \in Unpaired(after) : f[j] = f[k] => j = k
      BY <1>2 DEF UnpairedFrom
    <2> DEFINE g == [k \in Unpaired(r) |-> f[ax[k]]]
    <2>2. \A k \in Unpaired(r) : g[k] \in I \cap Unpaired(before) /\ r[k] = before[g[k]]
      BY <1>14, <2>1
    <2>3. \A j, k \in Unpaired(r) : g[j] = g[k] => j = k
      BY <1>13, <1>14, <2>1
    <2> HIDE DEF g
    <2> QED
      BY <2>2, <2>3 DEF UnpairedFrom
  <1>16. ASSUME Cardinality(I \cap DOMAIN before) <= 1, NEW u \in Unpaired(r) PROVE Len(r) <= 1
    <2>1. DOMAIN after = 1..Len(after) /\ Len(after) \in Nat /\ Len(after) <= 1
      BY <1>2, <1>16, ListIs
    <2>2. ax[u] \in DOMAIN after /\ CallIds(after[ax[u]]) = {} /\ Answered(after[ax[u]]) = {}
      BY <1>14, UnpairedIs
    <2>3. \A k \in DOMAIN kept : CallIds(kept[k]) = {} /\ Answered(kept[k]) = {}
      <3>1. \A k \in DOMAIN after : k = ax[u]
        BY <2>1, <2>2
      <3>2. \A k \in DOMAIN kept : kept[k] = after[ax[u]]
        BY <1>5, <3>1
      <3> QED
        BY <2>2, <3>2
    <2>4. Halves(before, kept) = {}
      <3>1. AllCalls(kept) = {} /\ AllAnswered(kept) = {}
        BY <2>3 DEF AllCalls, AllAnswered
      <3> QED
        BY <3>1 DEF Halves
    <2>5. Len(H) = 0
      <3>1. DOMAIN H = 1..Len(H) /\ Len(H) \in Nat
        BY <1>6, ListIs
      <3>2. ~(1 \in DOMAIN H)
        BY <1>6, <2>4
      <3> QED
        BY <3>1, <3>2
    <2>6. DOMAIN all = 1..Len(all) /\ Len(all) <= 1 /\ Len(all) \in Nat
      BY <1>5, <1>8, <2>1, <2>5, ListIs
    <2>7. DOMAIN r = 1..Len(r) /\ Len(r) \in Nat
      BY <1>12, ListIs
    <2> SUFFICES ASSUME Len(r) > 1 PROVE FALSE
      BY <2>7
    <2>8. 1 \in DOMAIN r /\ 2 \in DOMAIN r
      BY <2>7
    <2>9. ax[1] \in DOMAIN all /\ ax[2] \in DOMAIN all /\ ax[1] # ax[2]
      BY <1>13, <2>8
    <2> QED
      BY <2>6, <2>9
  <1> QED
    BY <1>15, <1>16

\* A finite set of numbers has a greatest one.
LEMMA GreatestIs ==
  ASSUME NEW S, IsFiniteSet(S), S \subseteq Nat, S # {}
  PROVE  Max(S) \in S /\ \A x \in S : Max(S) >= x
  <1> DEFINE P == {<<x, x>> : x \in S}
  <1>1. IsFiniteSet(P) /\ P \subseteq Nat \X Nat
    <2>1. P \subseteq Nat \X S /\ \A x, y \in P : x[2] = y[2] => x = y
      OBVIOUS
    <2> HIDE DEF P
    <2> QED
      BY <2>1, PlacesFinite
  <1>2. \A x \in P : x = <<x[2], x[2]>> /\ x[2] \in S
    OBVIOUS
  <1>3. P # {} /\ \A x \in S : <<x, x>> \in P
    OBVIOUS
  <1> HIDE DEF P
  <1>4. Cardinality(P) \in Nat /\ Cardinality(P) # 0
    BY <1>1, <1>3, FS_EmptySet, FS_CardinalityType
  <1>5. PICK q \in P : Rank(q, P) = Cardinality(P)
    <2>1. Cardinality(P) \in 1..Cardinality(P)
      BY <1>4
    <2> QED
      BY <1>1, <2>1, RankIs
  <1>6. \A x \in P : Rank(x, P) \in 1..Cardinality(P)
    BY <1>1, RankIs
  <1>7. ASSUME NEW x \in S PROVE q[2] >= x
    <2> SUFFICES ASSUME q[2] < x PROVE FALSE
      BY <1>2
    <2>1. <<x, x>> \in P /\ q = <<q[2], q[2]>> /\ q[2] \in Nat
      BY <1>2, <1>3
    <2>2. Ahead(q, <<x, x>>) /\ q # <<x, x>>
      BY <2>1 DEF Ahead
    <2>3. Rank(q, P) < Rank(<<x, x>>, P)
      BY <1>1, <2>1, <2>2, RankIs
    <2> QED
      BY <1>4, <1>5, <1>6, <2>1, <2>3
  <1>8. q[2] \in S
    BY <1>2
  <1>9. \E m \in S : \A x \in S : m >= x
    BY <1>7, <1>8
  <1> QED
    BY <1>9 DEF Max

\* f is built up from the empty set by steps that G gives for subsets of S.
Gives(G, n, S) == \A k \in 1..n, X \in SUBSET S : G[<<k, X>>] \in SUBSET S
Built(f, G, n, S) == \A k \in 0..n : /\ f[k] \in SUBSET S
                                    /\ f[k] = IF k = 0 THEN {} ELSE G[<<k, f[k - 1]>>]

\* A function that is built up step by step exists.
LEMMA StepsExist ==
  ASSUME NEW n \in Nat, NEW S, NEW G, Gives(G, n, S) PROVE \E f : Built(f, G, n, S)
  <1> DEFINE Upto(m) == \E f : Built(f, G, m, S)
             Bad == {m \in 0..n : ~Upto(m)}
  <1>0. Bad = {} => Upto(n)
    <2>1. n \in 0..n
      OBVIOUS
    <2> HIDE DEF Upto
    <2> QED
      BY <2>1
  <1> SUFFICES ASSUME Bad # {} PROVE FALSE
    BY <1>0
  <1>1. Bad \subseteq Nat
    OBVIOUS
  <1> HIDE DEF Bad
  <1>2. PICK m \in Bad : \A k \in Bad : ~(k < m)
    BY <1>1, LeastSize
  <1>3. m \in 0..n /\ ~Upto(m) /\ \A k \in 0..n : k < m => Upto(k)
    <2> HIDE DEF Upto
    <2> QED
      BY <1>2 DEF Bad
  <1>4. CASE m = 0
    <2> DEFINE f == [k \in 0..0 |-> {}]
    <2>1. \A k \in 0..m : f[k] \in SUBSET S
      BY <1>4
    <2>2. \A k \in 0..m : f[k] = IF k = 0 THEN {} ELSE G[<<k, f[k - 1]>>]
      BY <1>4
    <2> HIDE DEF f
    <2>3. Built(f, G, m, S)
      BY <2>1, <2>2 DEF Built
    <2> QED
      BY <1>3, <2>3
  <1>5. CASE m # 0
    <2>1. m - 1 \in 0..n /\ m - 1 < m /\ m \in 1..n
      BY <1>3, <1>5
    <2>2. Upto(m - 1)
      BY <1>3, <2>1
    <2>15. PICK g : Built(g, G, m - 1, S)
      BY <2>2
    <2>3. \A k \in 0..(m - 1) : /\ g[k] \in SUBSET S
                                /\ g[k] = IF k = 0 THEN {} ELSE G[<<k, g[k - 1]>>]
      BY <2>15 DEF Built
    <2> DEFINE h == [k \in 0..m |-> IF k < m THEN g[k] ELSE G[<<m, g[m - 1]>>]]
    <2>9. m - 1 \in 0..(m - 1) /\ \A k \in 0..m : k < m => k \in 0..(m - 1)
      BY <2>1
    <2>11. g[m - 1] \in SUBSET S
      BY <2>3, <2>9
    <2>4. G[<<m, g[m - 1]>>] \in SUBSET S
      BY <2>1, <2>11 DEF Gives
    <2>5. \A k \in 0..m : h[k] \in SUBSET S
      BY <2>3, <2>4, <2>9
    <2>6. ASSUME NEW k \in 0..m PROVE h[k] = IF k = 0 THEN {} ELSE G[<<k, h[k - 1]>>]
      <3>1. CASE k < m
        <4>1. k \in 0..(m - 1) /\ h[k] = g[k]
          BY <2>1, <3>1
        <4>2. g[k] = IF k = 0 THEN {} ELSE G[<<k, g[k - 1]>>]
          BY <2>3, <4>1
        <4>3. k # 0 => k - 1 \in 0..m /\ k - 1 < m /\ h[k - 1] = g[k - 1]
          BY <2>1, <3>1
        <4> QED
          BY <4>1, <4>2, <4>3
      <3>2. CASE k = m
        <4>1. h[k] = G[<<m, g[m - 1]>>] /\ h[k - 1] = g[m - 1] /\ k # 0
          BY <2>1, <3>2
        <4> QED
          BY <3>2, <4>1
      <3> QED
        BY <1>3, <3>1, <3>2
    <2> HIDE DEF h
    <2>7. Built(h, G, m, S)
      BY <2>5, <2>6 DEF Built
    <2> QED
      BY <1>3, <2>7
  <1> QED
    BY <1>4, <1>5

\* Of a list sorted by being pinned and by score all is pinned before what is pinned.
LEMMA SortedIs ==
  ASSUME NEW msgs, NEW a, NEW p, NEW s, ListOK(s, msgs, a, p)
  PROVE  LET recent(i) == Len(s) + 1 - i
             key(i) == IF s[i].pinned THEN 0 ELSE 1 + Max({s[j].score : j \in DOMAIN s}) - s[i].score
             ordered == Arranged([k \in DOMAIN s |-> recent(k)], {<<key(i), recent(i)>> : i \in DOMAIN s})
         IN  /\ \A k \in 1..Len(s) : ordered[k] \in DOMAIN s
             /\ \A i \in DOMAIN s : \E k \in 1..Len(s) : ordered[k] = i
             /\ \A j, k \in 1..Len(s) : j < k /\ s[ordered[k]].pinned => s[ordered[j]].pinned
  <1> DEFINE n == Len(s)
             recent(i) == n + 1 - i
             M == Max({s[j].score : j \in DOMAIN s})
             key(i) == IF s[i].pinned THEN 0 ELSE 1 + M - s[i].score
             R == [k \in DOMAIN s |-> recent(k)]
             P == {<<key(i), recent(i)>> : i \in DOMAIN s}
             ordered == Arranged(R, P)
  <1>1. DOMAIN s = 1..n /\ n \in Nat /\ IsFiniteSet(1..n) /\ Cardinality(1..n) = n
    BY ListIs, IntervalSize DEF ListOK
  <1> HIDE DEF n
  <1>2. ASSUME NEW i \in DOMAIN s PROVE M \in Nat /\ s[i].score \in Nat /\ M >= s[i].score
    <2> DEFINE T == {s[j].score : j \in DOMAIN s}
               f == [j \in DOMAIN s |-> s[j].score]
    <2>1. \A j \in DOMAIN s : s[j].score \in Nat
      BY DEF ListOK, Stems
    <2>2. f \in Surjection(DOMAIN s, T)
      BY DEF Surjection
    <2>3. IsFiniteSet(T)
      BY <1>1, <2>2, FS_Surjection
    <2>4. T \subseteq Nat /\ T # {} /\ s[i].score \in T
      BY <2>1
    <2> HIDE DEF T
    <2>5. Max(T) \in T /\ Max(T) >= s[i].score
      BY <2>3, <2>4, GreatestIs
    <2> QED
      BY <2>1, <2>4, <2>5 DEF T
  <1> HIDE DEF M
  <1>3. \A i \in DOMAIN s : /\ key(i) \in Nat /\ recent(i) \in DOMAIN s /\ recent(recent(i)) = i
                            /\ key(i) = 0 <=> s[i].pinned
    BY <1>1, <1>2
  <1> HIDE DEF key
  <1>4. ASSUME NEW x \in P PROVE /\ x = <<x[1], x[2]>> /\ x[2] \in DOMAIN s /\ x[1] \in Nat
                                 /\ x[1] = key(recent(x[2])) /\ recent(x[2]) \in DOMAIN s
    <2>1. PICK i \in DOMAIN s : x = <<key(i), recent(i)>>
      OBVIOUS
    <2> QED
      BY <1>3, <2>1
  <1>5. \A i \in DOMAIN s : <<key(i), recent(i)>> \in P
    OBVIOUS
  <1>6. IsFiniteSet(P) /\ P \subseteq Nat \X Nat
    <2> HIDE DEF P
    <2>1. P \subseteq Nat \X (1..n)
      BY <1>1, <1>4
    <2>2. ASSUME NEW x \in P, NEW y \in P, x[2] = y[2] PROVE x = y
      <3>1. x[1] = y[1]
        BY <1>4, <2>2
      <3> QED
        BY <1>4, <2>2, <3>1
    <2> QED
      BY <1>1, <2>1, <2>2, PlacesFinite
  <1>7. Cardinality(P) = n
    <2> DEFINE g == [i \in 1..n |-> <<key(i), recent(i)>>]
    <2>4. \A i \in 1..n : g[i] \in P
      BY <1>1
    <2>5. ASSUME NEW x \in P PROVE \E i \in 1..n : g[i] = x
      <3>1. PICK i \in 1..n : x = <<key(i), recent(i)>>
        BY <1>1
      <3> QED
        BY <3>1
    <2>1. g \in [1..n -> P] /\ \A x \in P : \E i \in 1..n : g[i] = x
      BY <2>4, <2>5
    <2>2. ASSUME NEW i \in 1..n, NEW j \in 1..n, g[i] = g[j] PROVE i = j
      <3>1. recent(i) = recent(j)
        BY <2>2
      <3> QED
        BY <1>1, <1>3, <3>1
    <2>6. \A i, j \in 1..n : g[i] = g[j] => i = j
      BY <2>2
    <2> HIDE DEF g
    <2>3. g \in Bijection(1..n, P)
      BY <2>1, <2>6 DEF Bijection, Injection, Surjection, IsInjective
    <2> HIDE DEF P
    <2>7. ExistsBijection(1..n, P)
      BY <2>3 DEF ExistsBijection
    <2> QED
      BY <1>1, <2>7, FS_Bijection
  <1> HIDE DEF P
  <1>8. PICK at : Order(at, P) /\ \A k \in 1..n : ordered[k] = R[at[k][2]]
    <2> DEFINE t == Arranged(R, P)
    <2>2. t = ordered
      OBVIOUS
    <2> HIDE DEF R, t
    <2>3. /\ IsList(Arranged(R, P)) /\ Len(Arranged(R, P)) = Cardinality(P) /\ Cardinality(P) \in Nat
          /\ DOMAIN Arranged(R, P) = 1..Cardinality(P)
          /\ \E at : Order(at, P) /\ \A k \in 1..Cardinality(P) : Arranged(R, P)[k] = R[at[k][2]]
      BY <1>6, ArrangedIs, SMTT(60)
    <2>1. \E at : Order(at, P) /\ \A k \in 1..Cardinality(P) : t[k] = R[at[k][2]]
      BY <2>3 DEF t
    <2> QED
      BY <1>7, <2>1, <2>2
  <1>9. ASSUME NEW k \in 1..n PROVE at[k] \in P /\ ordered[k] = recent(at[k][2]) /\ ordered[k] \in DOMAIN s
    <2>1. at[k] \in P
      BY <1>7, <1>8 DEF Order
    <2>2. at[k][2] \in DOMAIN s
      BY <1>4, <2>1
    <2>3. ordered[k] = recent(at[k][2])
      BY <1>8, <2>2
    <2> QED
      BY <1>4, <2>1, <2>3
  <1> HIDE DEF ordered
  <1>10. ASSUME NEW i \in DOMAIN s PROVE \E k \in 1..n : ordered[k] = i
    <2>1. <<key(i), recent(i)>> \in P
      BY <1>5
    <2>2. PICK k \in 1..n : at[k] = <<key(i), recent(i)>>
      BY <1>7, <1>8, <2>1 DEF Order
    <2>3. ordered[k] = recent(recent(i))
      BY <1>9, <2>2
    <2> QED
      BY <1>3, <2>3
  <1>11. ASSUME NEW j \in 1..n, NEW k \in 1..n, j < k, s[ordered[k]].pinned PROVE s[ordered[j]].pinned
    <2>1. Ahead(at[j], at[k])
      BY <1>7, <1>8, <1>11 DEF Order
    <2>2. at[j][1] = key(ordered[j]) /\ at[k][1] = key(ordered[k]) /\ at[j][1] \in Nat
      BY <1>4, <1>9
    <2>3. at[k][1] = 0
      BY <1>3, <1>9, <1>11, <2>2
    <2>4. key(ordered[j]) = 0
      BY <2>1, <2>2, <2>3 DEF Ahead
    <2> QED
      BY <1>3, <1>9, <2>4
  <1> QED
    BY <1>9, <1>10, <1>11 DEF ordered, P, key, M, n

\* The pairs' partners are in rounds.
LEMMA ExpandedIs ==
  ASSUME NEW s, NEW K, K \subseteq DOMAIN s
  PROVE  /\ K \subseteq Expanded(s, K) /\ Expanded(s, K) \subseteq DOMAIN s
         /\ \A i \in Unpaired(s) : i \in Expanded(s, K) => i \in K
  <1>1. \A q \in CallPairs(s) : /\ q[1] \in DOMAIN s /\ CallIds(s[q[1]]) # {}
                                /\ q[2] \in DOMAIN s /\ Answered(s[q[2]]) # {}
    <2> SUFFICES ASSUME NEW q \in CallPairs(s)
                 PROVE  /\ q[1] \in DOMAIN s /\ CallIds(s[q[1]]) # {}
                        /\ q[2] \in DOMAIN s /\ Answered(s[q[2]]) # {}
      OBVIOUS
    <2> QED
      BY PairIs, ZenonT(60)
  <1>2. \A i \in Unpaired(s) : CallIds(s[i]) = {} /\ Answered(s[i]) = {}
    BY UnpairedIs
  <1> QED
    BY <1>1, <1>2 DEF Expanded

\* TokenBudgetSelector keeps what is pinned, and with it only what fits.
LEMMA BudgetKept ==
  ASSUME NEW msgs, NEW a, NEW p, NEW s, ListOK(s, msgs, a, p), NEW budget \in Nat
  PROVE  \E K : /\ WithinBudget(s, budget) = ItemsAt(s, Expanded(s, K)) /\ K \subseteq DOMAIN s
                /\ \A i \in DOMAIN s : s[i].pinned => i \in K
                /\ TokensAt(s, K) <= budget \/ K \cap Free(s) = {}
  <1> DEFINE n == Len(s)
             recent(i) == Len(s) + 1 - i
             key(i) == IF s[i].pinned THEN 0 ELSE 1 + Max({s[j].score : j \in DOMAIN s}) - s[i].score
             ordered == Arranged([k \in DOMAIN s |-> recent(k)], {<<key(i), recent(i)>> : i \in DOMAIN s})
             D == DOMAIN s
             after(k, X) ==
               LET i == ordered[k]
                   fits == Fits(TokensAt(s, X), count_item_tokens(s[i]), budget)
               IN  X \cup (IF s[i].pinned \/ fits THEN {i} ELSE {})
             Chain(f) == f = [k \in 0..n |-> IF k = 0 THEN {} ELSE after(k, f[k - 1])]
             kept == CHOOSE f : Chain(f)
             K == kept[n]
  <1>1. WithinBudget(s, budget) = ItemsAt(s, Expanded(s, K))
    BY DEF WithinBudget
  <1>2. /\ \A k \in 1..n : ordered[k] \in D
        /\ \A i \in D : \E k \in 1..n : ordered[k] = i
        /\ \A j, k \in 1..n : j < k /\ s[ordered[k]].pinned => s[ordered[j]].pinned
    BY SortedIs
  <1>3. n \in Nat
    BY ListIs DEF ListOK
  <1> HIDE DEF ordered, n
  <1>4. \A k \in 1..n, X \in SUBSET D : after(k, X) \in SUBSET D
    BY <1>2
  <1>5. \A k \in 1..n : \A X :
          /\ X \subseteq after(k, X) /\ after(k, X) \subseteq X \cup {ordered[k]}
          /\ s[ordered[k]].pinned => ordered[k] \in after(k, X)
          /\ ~s[ordered[k]].pinned => \/ after(k, X) = X
                                     \/ Fits(TokensAt(s, X), count_item_tokens(s[ordered[k]]), budget)
    OBVIOUS
  <1> HIDE DEF after, D
  <1>6. \E f : Chain(f)
    <2> DEFINE G == [x \in (1..n) \X SUBSET D |-> after(x[1], x[2])]
    <2>2. \A k \in 1..n, X \in SUBSET D : G[<<k, X>>] = after(k, X)
      OBVIOUS
    <2> HIDE DEF G
    <2>1. Gives(G, n, D)
      BY <1>4, <2>2 DEF Gives
    <2>8. PICK f : Built(f, G, n, D)
      BY <1>3, <2>1, StepsExist
    <2>3. \A k \in 0..n : /\ f[k] \in SUBSET D
                          /\ f[k] = IF k = 0 THEN {} ELSE G[<<k, f[k - 1]>>]
      BY <2>8 DEF Built
    <2>4. ASSUME NEW k \in 0..n PROVE f[k] = IF k = 0 THEN {} ELSE after(k, f[k - 1])
      <3>1. f[k] = IF k = 0 THEN {} ELSE G[<<k, f[k - 1]>>]
        BY <2>3
      <3>2. k # 0 => k \in 1..n /\ k - 1 \in 0..n
        BY <1>3
      <3>3. k # 0 => f[k - 1] \in SUBSET D
        BY <2>3, <3>2
      <3> QED
        BY <2>2, <3>1, <3>2, <3>3
    <2> DEFINE g == [k \in 0..n |-> f[k]]
    <2>5. ASSUME NEW k \in 0..n PROVE g[k] = IF k = 0 THEN {} ELSE after(k, g[k - 1])
      <3>1. g[k] = f[k] /\ (k # 0 => k - 1 \in 0..n /\ g[k - 1] = f[k - 1])
        BY <1>3
      <3> QED
        BY <2>4, <3>1
    <2>7. g = [k \in 0..n |-> g[k]]
      OBVIOUS
    <2> HIDE DEF g
    <2>6. Chain(g)
      BY <2>5, <2>7
    <2> QED
      BY <2>6
  <1>7. Chain(kept)
    <2> HIDE DEF Kept
    <2> QED
      BY <1>6
  <1> HIDE DEF kept
  <1>8. kept[0] = {} /\ \A k \in 1..n : kept[k] = after(k, kept[k - 1])
    <2>1. \A k \in 0..n : kept[k] = IF k = 0 THEN {} ELSE after(k, kept[k - 1])
      BY <1>7
    <2> QED
      BY <1>3, <2>1
  <1> DEFINE Good(k) == /\ \A i \in kept[k] : \E j \in 1..k : ordered[j] = i
                        /\ \A j \in 1..k : s[ordered[j]].pinned => ordered[j] \in kept[k]
                        /\ TokensAt(s, kept[k]) <= budget \/ \A i \in kept[k] : s[i].pinned
             Bad == {k \in 0..n : ~Good(k)}
  <1>9. Bad = {}
    <2> SUFFICES ASSUME Bad # {} PROVE FALSE
      OBVIOUS
    <2>1. Bad \subseteq Nat
      OBVIOUS
    <2> HIDE DEF Bad
    <2>2. PICK m \in Bad : \A k \in Bad : ~(k < m)
      BY <2>1, LeastSize
    <2>3. m \in 0..n /\ ~Good(m) /\ \A k \in 0..n : k < m => Good(k)
      <3> HIDE DEF Good
      <3> QED
        BY <2>2 DEF Bad
    <2>4. m # 0
      <3>1. ASSUME m = 0 PROVE Good(m)
        BY <1>8, <3>1
      <3> QED
        BY <2>3, <3>1
    <2>5. m \in 1..n /\ m - 1 \in 0..n /\ m - 1 < m
      BY <1>3, <2>3, <2>4
    <2> DEFINE X == kept[m - 1]
               i == ordered[m]
    <2>6. Good(m - 1) /\ kept[m] = after(m, X) /\ i \in D
      BY <1>2, <1>8, <2>3, <2>5
    <2>7. \A j \in 1..m : j = m \/ j \in 1..(m - 1)
      BY <2>5
    <2>8. \A h \in kept[m] : \E j \in 1..m : ordered[j] = h
      <3>1. \A h \in X : \E j \in 1..m : ordered[j] = h
        BY <2>5, <2>6
      <3>2. m \in 1..m /\ \A h \in kept[m] : h \in X \/ h = ordered[m]
        BY <1>5, <2>5, <2>6
      <3> HIDE DEF X
      <3> QED
        BY <3>1, <3>2
    <2>9. \A j \in 1..m : s[ordered[j]].pinned => ordered[j] \in kept[m]
      <3>1. X \subseteq kept[m] /\ (s[ordered[m]].pinned => ordered[m] \in kept[m])
        BY <1>5, <2>5, <2>6
      <3>2. \A j \in 1..(m - 1) : s[ordered[j]].pinned => ordered[j] \in X
        BY <2>6
      <3> HIDE DEF X
      <3> QED
        BY <2>7, <3>1, <3>2
    <2>10. TokensAt(s, kept[m]) <= budget \/ \A h \in kept[m] : s[h].pinned
      <3>1. CASE s[ordered[m]].pinned
        <4>1. \A j \in 1..m : s[ordered[j]].pinned
          <5>1. \A j \in 1..m : j = m \/ (j \in 1..n /\ j < m)
            BY <1>3, <2>5
          <5> QED
            BY <1>2, <2>5, <3>1, <5>1
        <4> QED
          BY <2>8, <4>1
      <3>2. CASE ~s[ordered[m]].pinned /\ kept[m] = X
        BY <2>6, <3>2
      <3>3. CASE /\ Fits(TokensAt(s, X), count_item_tokens(s[ordered[m]]), budget)
                 /\ kept[m] # X
        <4>1. X \subseteq kept[m] /\ kept[m] \subseteq X \cup {i}
          BY <1>5, <2>5, <2>6
        <4> HIDE DEF X
        <4>2. kept[m] = X \cup {i} /\ i \notin X
          BY <3>3, <4>1
        <4>3. kept[m] \subseteq DOMAIN s
          <5>1. \A h \in kept[m] : h \in D
            BY <1>2, <1>3, <2>5, <2>8
          <5> QED
            BY <5>1 DEF D
        <4>4. Counted(s, kept[m])
          BY <4>3, ListCounted
        <4>5. i \in kept[m] /\ kept[m] \ {i} = X
          BY <4>2
        <4> HIDE DEF i
        <4>6. TokensAt(s, kept[m]) = count_item_tokens(s[i]) + TokensAt(s, X) /\ Counted(s, X)
          BY <4>4, <4>5, TokensWith
        <4>7. TokensAt(s, X) \in Nat /\ count_item_tokens(s[i]) \in Nat
          BY <4>4, <4>5, <4>6, TokensType DEF Counted
        <4> QED
          BY <3>3, <4>6, <4>7 DEF Fits, i
      <3> QED
        BY <1>5, <2>5, <2>6, <3>1, <3>2, <3>3
    <2> QED
      BY <2>3, <2>8, <2>9, <2>10
  <1>10. Good(n)
    <2>1. n \in 0..n
      BY <1>3
    <2> HIDE DEF Good
    <2> QED
      BY <1>9, <2>1
  <1>11. /\ K \subseteq DOMAIN s /\ \A i \in DOMAIN s : s[i].pinned => i \in K
         /\ TokensAt(s, K) <= budget \/ K \cap Free(s) = {}
    <2>1. K \subseteq D
      BY <1>2, <1>10
    <2>2. \A i \in D : s[i].pinned => i \in K
      BY <1>2, <1>10
    <2>3. TokensAt(s, K) <= budget \/ K \cap Free(s) = {}
      BY <1>10 DEF Free
    <2> QED
      BY <2>1, <2>2, <2>3 DEF D
  <1> HIDE DEF K
  <1> QED
    BY <1>1, <1>11

\* SlidingWindowSelector keeps what is pinned, and stops at the budget, at the last item,
\* or when only what is pinned is left.
LEMMA WindowKept ==
  ASSUME NEW msgs, NEW a, NEW p, NEW s, ListOK(s, msgs, a, p)
  PROVE  \E I : /\ InWindow(s) = ItemsAt(s, I) /\ I \subseteq DOMAIN s
                /\ \A i \in DOMAIN s : s[i].pinned => i \in I
                /\ \/ TokensAt(s, I) <= MaxTokens
                   \/ Cardinality(I) <= 1
                   \/ I \cap Free(s) = {}
  <1> DEFINE keep == Expanded(s, (DOMAIN s \ Free(s)) \cup Recent(s, Window))
             open == keep \cap Free(s)
             without(k) == {i \in keep : i \in open => Cardinality({j \in open : j < i}) >= k}
             done(k) == \/ TokensAt(s, without(k)) <= MaxTokens
                        \/ Cardinality(without(k)) <= 1
                        \/ without(k) \cap open = {}
             T == {k \in 0..Cardinality(keep) : done(k)}
             I == without(Min(T))
  <1>1. InWindow(s) = ItemsAt(s, I)
    BY DEF InWindow
  <1>2. DOMAIN s = 1..Len(s) /\ Len(s) \in Nat /\ IsFiniteSet(DOMAIN s)
    BY ListIs, IntervalSize DEF ListOK
  <1>3. keep \subseteq DOMAIN s /\ \A i \in DOMAIN s : s[i].pinned => i \in keep
    <2> DEFINE K == (DOMAIN s \ Free(s)) \cup Recent(s, Window)
    <2>1. K \subseteq DOMAIN s
      BY DEF Free, Recent
    <2>2. \A i \in DOMAIN s : s[i].pinned => i \in K
      BY DEF Free
    <2> HIDE DEF K
    <2>3. K \subseteq Expanded(s, K) /\ Expanded(s, K) \subseteq DOMAIN s
      BY <2>1, ExpandedIs
    <2> QED
      BY <2>2, <2>3 DEF K
  <1> HIDE DEF keep
  <1>4. IsFiniteSet(keep) /\ IsFiniteSet(open) /\ Cardinality(keep) \in Nat /\ Cardinality(open) \in Nat
        /\ Cardinality(open) <= Cardinality(keep)
    <2>1. IsFiniteSet(keep)
      BY <1>2, <1>3, FS_Subset
    <2>2. open \subseteq keep
      OBVIOUS
    <2> HIDE DEF open
    <2> QED
      BY <2>1, <2>2, FS_Subset, FS_CardinalityType
  <1> HIDE DEF open
  <1>5. \A k : without(k) \subseteq keep /\ \A i \in keep : i \notin open => i \in without(k)
    OBVIOUS
  <1>6. without(Cardinality(keep)) \cap open = {}
    <2> SUFFICES ASSUME NEW i \in open, Cardinality({j \in open : j < i}) >= Cardinality(keep) PROVE FALSE
      OBVIOUS
    <2> DEFINE L == {j \in open : j < i}
    <2>1. L \subseteq open \ {i} /\ Cardinality(L) >= Cardinality(keep)
      <3>1. i \in Nat
        BY <1>2, <1>3 DEF open
      <3> QED
        BY <3>1
    <2> HIDE DEF L
    <2>2. Cardinality(open \ {i}) = Cardinality(open) - 1 /\ IsFiniteSet(open \ {i})
          /\ Cardinality(open \ {i}) \in Nat
      BY <1>4, SmallerWithout
    <2>3. Cardinality(L) <= Cardinality(open \ {i}) /\ Cardinality(L) \in Nat
      BY <2>1, <2>2, FS_Subset, FS_CardinalityType
    <2> QED
      BY <1>4, <2>1, <2>2, <2>3
  <1> HIDE DEF without
  <1>7. T \subseteq Nat /\ Cardinality(keep) \in T
    BY <1>4, <1>6
  <1>8. done(Min(T))
    <2>1. Min(T) \in T
      <3> HIDE DEF T
      <3> QED
        BY <1>7, MinIsNat
    <2> QED
      BY <2>1
  <1>9. I \subseteq DOMAIN s /\ \A i \in DOMAIN s : s[i].pinned => i \in I
    <2>1. \A i \in DOMAIN s : s[i].pinned => i \in keep /\ i \notin open
      BY <1>3 DEF open, Free
    <2> HIDE DEF T
    <2> QED
      BY <1>3, <1>5, <2>1
  <1>10. \/ TokensAt(s, I) <= MaxTokens
         \/ Cardinality(I) <= 1
         \/ I \cap Free(s) = {}
    <2> HIDE DEF T
    <2>1. I \cap open = {} => I \cap Free(s) = {}
      BY <1>5 DEF open
    <2> QED
      BY <1>8, <2>1
  <1> HIDE DEF I
  <1> QED
    BY <1>1, <1>9, <1>10

\* What is taken from J is taken from what has J.
LEMMA UnpairedFromMore ==
  ASSUME NEW t, NEW s, NEW J, NEW K, UnpairedFrom(t, s, J), J \subseteq K PROVE UnpairedFrom(t, s, K)
  <1>1. PICK f : /\ \A k \in Unpaired(t) : f[k] \in J /\ t[k] = s[f[k]]
                 /\ \A j, k \in Unpaired(t) : f[j] = f[k] => j = k
    BY DEF UnpairedFrom
  <1>2. \A k \in Unpaired(t) : f[k] \in K /\ t[k] = s[f[k]]
    BY <1>1
  <1> QED
    BY <1>1, <1>2 DEF UnpairedFrom

\* After a selection by the budget the list is within it.
LEMMA BudgetWithin ==
  ASSUME NEW msgs, NEW a, NEW p, NEW s, ListOK(s, msgs, a, p), DOMAIN msgs \subseteq Nat \ {0},
         PinnedIn(s, msgs, a), NEW r, r = Repair(s, WithinBudget(s, MaxTokens))
  PROVE  Within(r)
  <1>1. PICK K : /\ WithinBudget(s, MaxTokens) = ItemsAt(s, Expanded(s, K)) /\ K \subseteq DOMAIN s
                 /\ \A i \in DOMAIN s : s[i].pinned => i \in K
                 /\ TokensAt(s, K) <= MaxTokens \/ K \cap Free(s) = {}
    BY BudgetKept, OptimizerAssumption
  <1> DEFINE I == Expanded(s, K)
  <1>2. I \cap Unpaired(s) \subseteq K /\ K \subseteq I
    BY <1>1, ExpandedIs
  <1> HIDE DEF I
  <1>3. r = Repair(s, ItemsAt(s, I))
    BY <1>1 DEF I
  <1>4. UnpairedFrom(r, s, I \cap Unpaired(s))
    BY <1>1, <1>2, <1>3, RepairTakes
  <1>5. UnpairedFrom(r, s, K)
    BY <1>2, <1>4, UnpairedFromMore
  <1>6. ListOK(r, msgs, a, p)
    BY <1>3, ItemsAtOK, LayerOK
  <1> QED
    BY <1>1, <1>5, <1>6, WithinBy

\* After a selection by the window the list is within the budget, or a single item.
LEMMA WindowWithin ==
  ASSUME NEW msgs, NEW a, NEW p, NEW s, ListOK(s, msgs, a, p), DOMAIN msgs \subseteq Nat \ {0},
         PinnedIn(s, msgs, a), NEW r, r = Repair(s, InWindow(s))
  PROVE  Within(r) \/ Len(r) = 1
  <1>1. PICK I : /\ InWindow(s) = ItemsAt(s, I) /\ I \subseteq DOMAIN s
                 /\ \A i \in DOMAIN s : s[i].pinned => i \in I
                 /\ \/ TokensAt(s, I) <= MaxTokens
                    \/ Cardinality(I) <= 1
                    \/ I \cap Free(s) = {}
    BY WindowKept
  <1>2. r = Repair(s, ItemsAt(s, I)) /\ I \cap DOMAIN s = I
    BY <1>1
  <1>3. /\ UnpairedFrom(r, s, I \cap Unpaired(s))
        /\ Cardinality(I \cap DOMAIN s) <= 1 => Unpaired(r) = {} \/ Len(r) <= 1
    BY <1>1, <1>2, RepairTakes
  <1>4. UnpairedFrom(r, s, I)
    BY <1>3, UnpairedFromMore
  <1>5. ListOK(r, msgs, a, p)
    BY <1>2, ItemsAtOK, LayerOK
  <1>6. CASE TokensAt(s, I) <= MaxTokens \/ I \cap Free(s) = {}
    BY <1>1, <1>4, <1>5, <1>6, WithinBy
  <1>7. CASE Cardinality(I) <= 1
    <2>1. Unpaired(r) = {} => Within(r)
      BY DEF Within
    <2>2. DOMAIN r = 1..Len(r) /\ Len(r) \in Nat
      BY <1>5, ListIs DEF ListOK
    <2>3. Len(r) = 0 => Unpaired(r) = {}
      BY <2>2, UnpairedIs
    <2>4. Cardinality(I \cap DOMAIN s) <= 1
      BY <1>2, <1>7, Zenon
    <2>5. Unpaired(r) = {} \/ Len(r) <= 1
      BY <1>3, <2>4
    <2>6. Len(r) <= 1 => Len(r) = 0 \/ Len(r) = 1
      BY <2>2
    <2> QED
      BY <2>1, <2>3, <2>5, <2>6, Zenon
  <1> QED
    BY <1>1, <1>6, <1>7

\* The last cleanup takes nothing but items of rounds away.
LEMMA CleanedWithin ==
  ASSUME NEW msgs, NEW a, NEW p, NEW s, ListOK(s, msgs, a, p)
  PROVE  /\ Within(s) => Within(Cleaned(s))
         /\ Len(s) = 1 => Within(Cleaned(s)) \/ Len(Cleaned(s)) = 1
  <1> DEFINE I == {i \in DOMAIN s : CallIds(s[i]) \subseteq AllAnswered(s)}
             u == ItemsAt(s, I)
             J == {i \in DOMAIN u : Answered(u[i]) \subseteq AllCalls(u)}
             t == ItemsAt(u, J)
  <1>1. t = Cleaned(s)
    BY DEF Cleaned
  <1> HIDE DEF I
  <1>2. ListOK(u, msgs, a, p) /\ IsList(u) /\ IsList(s)
    <2>1. ListOK(u, msgs, a, p)
      BY ItemsAtOK
    <2> HIDE DEF u
    <2> QED
      BY <2>1 DEF ListOK
  <1>3. UnpairedFrom(u, s, Unpaired(s)) /\ (Len(s) <= 1 => Len(u) <= 1)
    <2>1. UnpairedFrom(u, s, I \cap Unpaired(s)) /\ (Len(s) <= 1 => Len(u) <= 1)
      BY <1>2, ItemsAtUnpaired
    <2> QED
      BY <2>1, UnpairedFromMore
  <1> HIDE DEF u, J
  <1>4. ListOK(t, msgs, a, p) /\ IsList(t)
    <2>1. ListOK(t, msgs, a, p)
      BY <1>2, ItemsAtOK
    <2> QED
      BY <2>1 DEF ListOK
  <1>5. UnpairedFrom(t, u, Unpaired(u)) /\ (Len(u) <= 1 => Len(t) <= 1)
    <2>1. UnpairedFrom(t, u, J \cap Unpaired(u)) /\ (Len(u) <= 1 => Len(t) <= 1)
      BY <1>2, ItemsAtUnpaired
    <2> QED
      BY <2>1, UnpairedFromMore
  <1> HIDE DEF t
  <1>6. \A x : Unpaired(x) \subseteq DOMAIN x
    BY UnpairedIs
  <1>7. Within(s) => Within(u)
    BY <1>2, <1>3, <1>6, WithinBy DEF Within
  <1>8. Within(u) => Within(t)
    BY <1>2, <1>4, <1>5, <1>6, WithinBy DEF Within
  <1>9. Len(s) = 1 => Within(t) \/ Len(t) = 1
    <2>1. DOMAIN t = 1..Len(t) /\ Len(t) \in Nat
      BY <1>4, ListIs
    <2>2. Len(t) = 0 => Unpaired(t) = {}
      BY <2>1, UnpairedIs
    <2>3. Unpaired(t) = {} => Within(t)
      BY DEF Within
    <2>4. Len(u) \in Nat
      BY <1>2, ListIs
    <2> QED
      BY <1>3, <1>5, <2>1, <2>2, <2>3, <2>4
  <1> QED
    BY <1>1, <1>7, <1>8, <1>9

\* The last layer of a preset selects; once it ran, and in what goes out, the list is
\* within the budget, or it is a window's last item.
Selectors == {"budget", "window"}
BudgetInv ==
  /\ layersDue # <<>> => LET name == layersDue[Len(layersDue)]
                         IN  name \in Selectors /\ (name = "window" => preset = "minimal")
  /\ outcome # "skipped" /\ layersDue = <<>> =>
       Within(ctxItems) \/ (preset = "minimal" /\ Len(ctxItems) = 1)
  /\ Optimized => layersDue = <<>>

\* It holds at the start: each preset ends with a selector.
LEMMA BudgetInit == OptimizerInit => BudgetInv
  <1> SUFFICES ASSUME OptimizerInit PROVE BudgetInv
    OBVIOUS
  <1>1. /\ layersDue = Layers(preset) /\ outcome = "running"
        /\ preset \in {"minimal", "balanced", "aggressive", "summarizing"}
    BY OptimizerAssumption DEF OptimizerInit
  <1>2. CASE preset = "minimal"
    <2>1. layersDue = <<"tool_results", "dedup", "window">>
      BY <1>1, <1>2 DEF Layers
    <2>2. layersDue # <<>> /\ layersDue[Len(layersDue)] = "window"
      BY <2>1
    <2> QED
      BY <1>1, <1>2, <2>2 DEF BudgetInv, Selectors, Optimized
  <1>3. CASE preset = "balanced"
    <2>1. layersDue = <<"oversized", "dedup", "repeated", "tool_results", "rank", "budget">>
      BY <1>1, <1>3 DEF Layers
    <2>2. layersDue # <<>> /\ layersDue[Len(layersDue)] = "budget"
      BY <2>1
    <2> QED
      BY <1>1, <2>2 DEF BudgetInv, Selectors, Optimized
  <1>4. CASE preset = "aggressive"
    <2>1. layersDue = <<"dedup", "repeated", "tool_results", "near", "rank", "budget">>
      BY <1>1, <1>4 DEF Layers
    <2>2. layersDue # <<>> /\ layersDue[Len(layersDue)] = "budget"
      BY <2>1
    <2> QED
      BY <1>1, <2>2 DEF BudgetInv, Selectors, Optimized
  <1>5. CASE preset = "summarizing"
    <2>1. layersDue = <<"dedup", "repeated", "tool_results", "near", "summarize", "rank", "budget">>
      BY <1>1, <1>5 DEF Layers
    <2>2. layersDue # <<>> /\ layersDue[Len(layersDue)] = "budget"
      BY <2>1
    <2> QED
      BY <1>1, <2>2 DEF BudgetInv, Selectors, Optimized
  <1> QED
    BY <1>1, <1>2, <1>3, <1>4, <1>5

\* A layer takes one from the layers due; the last one is a selection.
LEMMA LayerBudget ==
  ASSUME OptInv, BudgetInv, NEW name, NEW before, NEW after, Layer(name, before, after),
         name \in Selectors => Within(ctxItems') \/ (name = "window" /\ Len(ctxItems') = 1)
  PROVE  BudgetInv'
  <1>1. /\ outcome = "running" /\ layersDue # <<>> /\ Head(layersDue) = name
        /\ layersDue' = Tail(layersDue) /\ preset' = preset /\ outcome' = outcome
    BY DEF Layer
  <1>2. layersDue \in Seq(LayerNames) /\ Len(layersDue) \in Nat /\ Len(layersDue) # 0
        /\ name = layersDue[1]
    BY <1>1 DEF OptInv
  <1>3. /\ layersDue' \in Seq(LayerNames) /\ Len(layersDue') = Len(layersDue) - 1
        /\ \A k \in 1..Len(layersDue') : layersDue'[k] = layersDue[k + 1]
    BY <1>1, <1>2, HeadTailProperties
  <1>4. ~Optimized'
    BY <1>1 DEF Optimized
  <1>5. layersDue[Len(layersDue)] \in Selectors
        /\ (layersDue[Len(layersDue)] = "window" => preset = "minimal")
    BY <1>1 DEF BudgetInv
  <1>6. CASE Len(layersDue) = 1
    <2>1. layersDue' = <<>>
      BY <1>3, <1>6
    <2>2. name \in Selectors /\ (name = "window" => preset = "minimal")
      BY <1>2, <1>5, <1>6
    <2>3. Within(ctxItems') \/ (preset' = "minimal" /\ Len(ctxItems') = 1)
      BY <1>1, <2>2
    <2> QED
      BY <1>4, <2>1, <2>3 DEF BudgetInv
  <1>7. CASE Len(layersDue) # 1
    <2>1. Len(layersDue') \in 1..Len(layersDue') /\ layersDue' # <<>>
          /\ Len(layersDue') + 1 = Len(layersDue)
      BY <1>2, <1>3, <1>7
    <2>2. layersDue'[Len(layersDue')] = layersDue[Len(layersDue)]
      BY <1>3, <2>1
    <2> QED
      BY <1>1, <1>4, <1>5, <2>1, <2>2 DEF BudgetInv
  <1> QED
    BY <1>6, <1>7

\* Every layer, the cleanup and a failure keep it.
LEMMA BudgetStep == OptInv /\ BudgetInv /\ [OptimizerNext]_optimizerVars => BudgetInv'
  <1> SUFFICES ASSUME OptInv, BudgetInv, [OptimizerNext]_optimizerVars PROVE BudgetInv'
    OBVIOUS
  <1>1. /\ ListOK(ctxItems, chat, adapter, preset) /\ PinnedIn(ctxItems, chat, adapter)
        /\ DOMAIN chat \subseteq Nat \ {0}
    BY ChatIs DEF OptInv
  <1>2. ASSUME NEW name, NEW before, NEW after, Layer(name, before, after), name \notin Selectors
        PROVE  BudgetInv'
    BY <1>2, LayerBudget
  <1>3. CASE OversizedContentCompression
    BY <1>2, <1>3 DEF OversizedContentCompression, Selectors
  <1>4. CASE ToolResultCompression
    BY <1>2, <1>4 DEF ToolResultCompression, Selectors
  <1>5. CASE MessageDedup
    BY <1>2, <1>5 DEF MessageDedup, Selectors
  <1>6. CASE RepeatedToolCallMerger
    BY <1>2, <1>6 DEF RepeatedToolCallMerger, Selectors
  <1>7. CASE NearDuplicateClusterer
    BY <1>2, <1>7 DEF NearDuplicateClusterer, Selectors
  <1>8. CASE PromptSummarizer
    BY <1>2, <1>8 DEF PromptSummarizer, Pruning, Selectors
  <1>9. CASE CompositeRanker
    <2>1. \E t : Layer("rank", t, t)
      BY <1>9 DEF CompositeRanker
    <2> QED
      BY <1>2, <2>1 DEF Selectors
  <1>10. CASE TokenBudgetSelector
    <2> DEFINE after == WithinBudget(ctxItems, MaxTokens)
    <2>1. Layer("budget", ctxItems, after) /\ ctxItems' = Repair(ctxItems, after)
      BY <1>10 DEF TokenBudgetSelector, Pruning, Layer
    <2>2. Within(ctxItems')
      BY <1>1, <2>1, BudgetWithin
    <2> HIDE DEF after
    <2> QED
      BY <2>1, <2>2, LayerBudget
  <1>11. CASE SlidingWindowSelector
    <2> DEFINE after == InWindow(ctxItems)
    <2>1. Layer("window", ctxItems, after) /\ ctxItems' = Repair(ctxItems, after)
      BY <1>11 DEF SlidingWindowSelector, Pruning, Layer
    <2>2. Within(ctxItems') \/ Len(ctxItems') = 1
      BY <1>1, <2>1, WindowWithin
    <2> HIDE DEF after
    <2> QED
      BY <2>1, <2>2, LayerBudget
  <1>12. CASE FinalCleanup
    <2>1. /\ outcome = "running" /\ layersDue = <<>> /\ ctxItems' = Cleaned(ctxItems)
          /\ layersDue' = layersDue /\ preset' = preset
      BY <1>12 DEF FinalCleanup
    <2>2. Within(ctxItems) \/ (preset = "minimal" /\ Len(ctxItems) = 1)
      BY <2>1 DEF BudgetInv
    <2>3. Within(ctxItems') \/ (preset' = "minimal" /\ Len(ctxItems') = 1)
      BY <1>1, <2>1, <2>2, CleanedWithin
    <2> QED
      BY <2>1, <2>3 DEF BudgetInv
  <1>13. CASE OptimizerRaises
    BY <1>13 DEF OptimizerRaises, BudgetInv, Optimized
  <1>14. CASE UNCHANGED optimizerVars
    BY <1>14 DEF optimizerVars, BudgetInv, Optimized
  <1> QED
    BY <1>3, <1>4, <1>5, <1>6, <1>7, <1>8, <1>9, <1>10, <1>11, <1>12, <1>13, <1>14
       DEF OptimizerNext

\* Whatever the layers before it left and the ranker scored, what is outside of tool rounds
\* goes out within the budget, or all of it is pinned, or it is a window's last item
\* (selection.py:74-142).
THEOREM BudgetHeld == OptimizerSpec => []OverBudgetForAReason
  <1>1. BudgetInv => OverBudgetForAReason
    BY DEF BudgetInv, OverBudgetForAReason, Within, Optimized
  <1>2. OptInv /\ BudgetInv /\ [OptimizerNext]_optimizerVars => OptInv' /\ BudgetInv'
    BY OptStep, BudgetStep
  <1>3. OptimizerInit => OptInv /\ BudgetInv
    BY OptInit, BudgetInit
  <1> QED
    BY <1>1, <1>2, <1>3, PTL DEF OptimizerSpec

=============================================================================
