------------------------ MODULE GatewayClientProofs --------------------------
(* What is proved of the agent's client of the gateway and of its login in  *)
(* the browser.                                                             *)
EXTENDS GatewayClient, BrowserLogin, TLAPS

(***************************************************************************)
(* Proofs about GatewayClient: the type invariant, and that no order of     *)
(* refreshes and saves leaves a used refresh token in the cache file.       *)
(*                                                                         *)
(* The invariant behind the second says what a client holds between the     *)
(* answer of the token endpoint and the write of the file (InHand): a       *)
(* grant that nobody else has seen, so that nobody else can use it up.      *)
(***************************************************************************)

\* Grants that exist; everything that names a grant names one of these.
Minted ==
  /\ honoured \subseteq 1..granted
  /\ renewable \subseteq 1..granted
  /\ file \in (0..granted) \cup {Torn, Garbled}
  /\ \A p \in Procs : cache[p] \in 0..granted /\ got[p] \in 0..granted
  /\ \A p \in Procs : at[p] = "refresh" => cache[p] \in renewable
  /\ \A p \in Procs : op[p] = "none" => at[p] = "idle" /\ ctx[p] = "first"

\* A tool that ran before a retry was taken for one that did not.
Called ==
  \A p \in Procs : /\ ctx[p] # "retry" => ran[p] = 0 /\ p \notin misread
                   /\ ran[p] = 1 => p \in misread

Holding(p) == at[p] \in {"save", "write"}

\* A grant in hand is good, if it can be renewed at all, and only its holder knows it.
InHand ==
  \A p \in Procs : Holding(p) =>
    /\ got[p] \in Grants
    /\ got[p] \in renewable => got[p] \in honoured \cup excused
    /\ file # got[p]
    /\ \A q \in Procs : cache[q] # got[p]
    /\ \A q \in Procs \ {p} : Holding(q) => got[q] # got[p]

TInv == TypeOK /\ Minted /\ Called

IInv == TInv /\ InHand /\ CacheNotBurnt

-----------------------------------------------------------------------------

LEMMA InitTInv == Init => TInv
  BY BoundAssumption DEF Init, TInv, TypeOK, Minted, Called, Grants, NoGrant, Torn, Garbled, Ops, Steps,
         Contexts, Sessions

\* What a new grant is: one more than there were, and as fresh as can be.
LEMMA GrantMade ==
  ASSUME TInv, NEW old, NEW carries, Grant(old, carries)
  PROVE  /\ granted \in 0..MaxGrants /\ granted' = granted + 1
         /\ granted' \in 1..MaxGrants /\ granted' \in 1..granted'
         /\ 0..granted \subseteq 0..granted' /\ granted' \in 0..granted'
         /\ honoured' \subseteq 1..granted' /\ honoured' \subseteq renewable'
         /\ renewable' \subseteq 1..granted' /\ renewable' \subseteq Grants
         /\ renewable \subseteq renewable' /\ 1..granted \subseteq 1..granted'
         /\ accepted' \subseteq Grants /\ valid' \subseteq Grants
<1> USE BoundAssumption DEF TInv, TypeOK, Minted, Grants
<1>1. granted \in 0..MaxGrants /\ granted' = granted + 1 /\ granted < MaxGrants
  BY DEF Grant
<1>2. granted' \in 1..MaxGrants /\ granted' \in 1..granted' /\ 1..granted \subseteq 1..granted'
  BY <1>1
<1>3. 0..granted \subseteq 0..granted' /\ granted' \in 0..granted'
  BY <1>1
<1>4. /\ honoured' \subseteq 1..granted' /\ honoured' \subseteq renewable'
      /\ renewable' \subseteq 1..granted' /\ renewable' \subseteq Grants
      /\ renewable \subseteq renewable'
  BY <1>2 DEF Grant
<1>5. accepted' \subseteq Grants /\ valid' \subseteq Grants
  BY <1>2 DEF Grant
<1> QED
  BY <1>1, <1>2, <1>3, <1>4, <1>5

\* A client that got a grant goes on to save it.
LEMMA GrantSaved ==
  ASSUME TInv, NEW p \in Procs, NEW old, NEW carries, Grant(old, carries),
         got' = [got EXCEPT ![p] = granted'], at' = [at EXCEPT ![p] = "save"],
         at[p] \in {"refresh", "browser"},
         UNCHANGED <<file, op, ctx, cache, callVars, mcpVars, historyVars>>
  PROVE  TInv'
<1>1. TypeOK'
  <2>1. /\ granted' \in 0..MaxGrants
        /\ renewable' \subseteq Grants /\ honoured' \subseteq renewable'
        /\ accepted' \subseteq Grants /\ valid' \subseteq Grants
    BY GrantMade, BoundAssumption
  <2>2. got' \in [Procs -> 0..MaxGrants] /\ at' \in [Procs -> Steps]
    BY <2>1 DEF TInv, TypeOK, Steps
  <2> QED
    BY <2>1, <2>2 DEF TInv, TypeOK, callVars, mcpVars, historyVars
<1>2. Minted'
  <2>1. /\ honoured' \subseteq 1..granted' /\ renewable' \subseteq 1..granted'
        /\ renewable \subseteq renewable' /\ 0..granted \subseteq 0..granted' /\ granted' \in 0..granted'
    BY GrantMade
  <2>2. ASSUME NEW q \in Procs
        PROVE  /\ cache'[q] \in 0..granted' /\ got'[q] \in 0..granted'
               /\ at'[q] = "refresh" => cache'[q] \in renewable'
               /\ op'[q] = "none" => at'[q] = "idle" /\ ctx'[q] = "first"
    BY <2>1 DEF TInv, TypeOK, Minted
  <2> QED
    BY <2>1, <2>2 DEF TInv, Minted
<1>3. Called'
  BY DEF TInv, Called, callVars
<1> QED
  BY <1>1, <1>2, <1>3 DEF TInv

\* A grant is made, and its answer is lost.
LEMMA GrantLost ==
  ASSUME TInv, NEW p \in Procs, NEW old, NEW carries, Grant(old, carries), Finish(p),
         excused' \subseteq Grants, troubles' \in 0..MaxTroubles, UNCHANGED <<file, mcpVars>>
  PROVE  TInv'
<1>1. TypeOK'
  <2>1. /\ granted' \in 0..MaxGrants
        /\ renewable' \subseteq Grants /\ honoured' \subseteq renewable'
        /\ accepted' \subseteq Grants /\ valid' \subseteq Grants
    BY GrantMade, BoundAssumption
  <2>2. NoGrant \in 0..MaxGrants
    BY BoundAssumption DEF NoGrant
  <2>3. /\ op' \in [Procs -> Ops] /\ at' \in [Procs -> Steps] /\ ctx' \in [Procs -> Contexts]
        /\ cache' \in [Procs -> 0..MaxGrants] /\ got' \in [Procs -> 0..MaxGrants]
        /\ ran' \in [Procs -> 0..1] /\ misread' \subseteq Procs
    BY <2>2 DEF TInv, TypeOK, Finish, Set, Ops, Steps, Contexts
  <2> QED
    BY <2>1, <2>3 DEF TInv, TypeOK, mcpVars
<1>2. Minted'
  <2>1. /\ honoured' \subseteq 1..granted' /\ renewable' \subseteq 1..granted'
        /\ renewable \subseteq renewable' /\ 0..granted \subseteq 0..granted' /\ NoGrant \in 0..granted'
    BY GrantMade DEF NoGrant
  <2>2. ASSUME NEW q \in Procs
        PROVE  /\ cache'[q] \in 0..granted' /\ got'[q] \in 0..granted'
               /\ at'[q] = "refresh" => cache'[q] \in renewable'
               /\ op'[q] = "none" => at'[q] = "idle" /\ ctx'[q] = "first"
    BY <2>1 DEF TInv, TypeOK, Minted, Finish, Set
  <2> QED
    BY <2>1, <2>2 DEF TInv, Minted
<1>3. Called'
  BY DEF TInv, TypeOK, Called, Finish, Set
<1> QED
  BY <1>1, <1>2, <1>3 DEF TInv

\* One more trouble is within the bound.
LEMMA TroubleType ==
  ASSUME TInv, Trouble
  PROVE  troubles' \in 0..MaxTroubles
  BY BoundAssumption DEF TInv, TypeOK, Trouble

LEMMA StepTInv == TInv /\ [Next]_vars => TInv'
  <1> SUFFICES ASSUME TInv, [Next]_vars PROVE TInv'
    OBVIOUS
  <1> USE DEF TInv, TypeOK, Minted, Called, Grants, NoGrant, Torn, Garbled, Ops, Steps,
              Contexts, Sessions, Set, gatewayVars, controlVars, callVars, mcpVars, historyVars
  <1>1. CASE UNCHANGED vars
    BY <1>1 DEF vars
  <1>2. ASSUME NEW p \in Procs, NEW e \in Entries, Start(p, e) PROVE TInv'
    BY <1>2, BoundAssumption DEF Start
  <1>3. ASSUME NEW p \in Procs, Replace(p) PROVE TInv'
    BY <1>3, BoundAssumption DEF Replace
  <1>4. ASSUME NEW p \in Procs, Proceed(p) PROVE TInv'
    <2>1. CASE Reuse(p)
      BY <2>1, BoundAssumption DEF Reuse, LoadCache, CacheValid, Authenticated, Goto
    <2>2. CASE LoadForRefresh(p)
      BY <2>2, BoundAssumption DEF LoadForRefresh, LoadCache, CacheValid
    <2>3. CASE LoadNothing(p)
      BY <2>3, BoundAssumption DEF LoadNothing, Finish, Goto
    <2>4. CASE Refresh(p)
      <3>1. Grant({cache[p]}, TRUE)
        BY <2>4 DEF Refresh
      <3>2. /\ got' = [got EXCEPT ![p] = granted'] /\ at' = [at EXCEPT ![p] = "save"]
            /\ at[p] \in {"refresh", "browser"}
            /\ UNCHANGED <<file, op, ctx, cache, callVars, mcpVars, historyVars>>
        BY <2>4 DEF Refresh
      <3> HIDE DEF TInv, TypeOK, callVars, mcpVars, historyVars
      <3> QED
        BY <3>1, <3>2, GrantSaved
    <2>5. CASE RefreshRefused(p)
      BY <2>5, BoundAssumption DEF RefreshRefused, Finish, Goto
    <2>6. CASE RefreshUnanswered(p)
      <3>1. CASE UNCHANGED <<gatewayVars, excused, troubles>>
        BY <2>6, <3>1, BoundAssumption DEF RefreshUnanswered, Finish
      <3>2. CASE Grant({cache[p]}, TRUE) /\ Trouble /\ excused' = excused \cup {cache[p], granted'}
        <4>1. excused' \subseteq Grants
          BY <2>6, <3>2, GrantMade DEF RefreshUnanswered
        <4>2. troubles' \in 0..MaxTroubles /\ Finish(p) /\ UNCHANGED <<file, mcpVars>>
          BY <2>6, <3>2, TroubleType DEF RefreshUnanswered
        <4> HIDE DEF TInv, TypeOK, Grants, mcpVars
        <4> QED
          BY <3>2, <4>1, <4>2, GrantLost
      <3> QED
        BY <2>6, <3>1, <3>2 DEF RefreshUnanswered
    <2>7. CASE DiscoveryRefused(p)
      <3>1. troubles' \in 0..MaxTroubles
        BY <2>7, TroubleType DEF DiscoveryRefused
      <3>2. excused' \subseteq Grants
        BY <2>7, BoundAssumption DEF DiscoveryRefused
      <3> QED
        BY <2>7, <3>1, <3>2, BoundAssumption DEF DiscoveryRefused, RaiseAuth, Finish, Goto
    <2>8. CASE Authorize(p)
      <3>1. PICK carries \in Carries : Grant({}, carries)
        BY <2>8 DEF Authorize
      <3>2. /\ got' = [got EXCEPT ![p] = granted'] /\ at' = [at EXCEPT ![p] = "save"]
            /\ at[p] \in {"refresh", "browser"}
            /\ UNCHANGED <<file, op, ctx, cache, callVars, mcpVars, historyVars>>
        BY <2>8 DEF Authorize
      <3> HIDE DEF TInv, TypeOK, callVars, mcpVars, historyVars
      <3> QED
        BY <3>1, <3>2, GrantSaved
    <2>9. CASE AuthorizeRefused(p)
      BY <2>9, BoundAssumption DEF AuthorizeRefused, RaiseAuth, Finish, Goto
    <2>10. CASE AuthorizeUnanswered(p)
      BY <2>10, BoundAssumption DEF AuthorizeUnanswered, Finish
    <2>11. CASE StoreToken(p)
      BY <2>11, BoundAssumption DEF StoreToken
    <2>12. CASE SaveCache(p)
      BY <2>12, BoundAssumption DEF SaveCache, Authenticated, Goto
    <2>13. CASE Open(p)
      BY <2>13, BoundAssumption DEF Open, Finish, Goto
    <2>14. CASE OpenRefused(p)
      BY <2>14, BoundAssumption DEF OpenRefused, RaiseAuth, Finish, Goto
    <2>15. CASE OpenFails(p)
      BY <2>15, BoundAssumption DEF OpenFails, Finish
    <2>16. CASE \E a \in Answers(p) : CallTool(p, a)
      <3>1. PICK a \in Answers(p) :
              /\ at[p] = "call"
              /\ Finish(p) \/ (Retry(p, a) /\ ctx[p] # "retry" /\ (a.runs => a.reads))
              /\ UNCHANGED <<gatewayVars, file, mcpVars, historyVars>>
        <4>1. ASSUME NEW a \in Answers(p), IsRecoverableSessionError(a), a.runs PROVE a.reads
          BY <4>1 DEF Answers, Answer, IsRecoverableSessionError
        <4> QED
          BY <2>16, <4>1 DEF CallTool
      <3>2. CASE Finish(p)
        BY <3>1, <3>2, BoundAssumption DEF Finish
      <3>3. CASE Retry(p, a) /\ ctx[p] # "retry" /\ (a.runs => a.reads)
        <4>1. ran[p] = 0
          BY <3>3
        <4>2. ran' \in [Procs -> 0..1] /\ misread' \subseteq Procs
          BY <3>3, <4>1 DEF Retry
        <4>3. /\ at' = [at EXCEPT ![p] = "load"] /\ ctx' = [ctx EXCEPT ![p] = "retry"]
              /\ ran' = [ran EXCEPT ![p] = IF a.runs THEN ran[p] + 1 ELSE ran[p]]
              /\ misread' = IF a.runs /\ a.reads THEN misread \cup {p} ELSE misread
              /\ UNCHANGED <<op, cache, got, gatewayVars, file, mcpVars, historyVars>>
          BY <3>1, <3>3 DEF Retry
        <4> HIDE DEF TInv, Minted, Called
        <4>4. TypeOK' /\ Minted'
          BY <4>2, <4>3, <3>1, BoundAssumption DEF TInv, Minted
        <4>5. a.runs => a.reads
          BY <3>3
        <4>6. Called'
          BY <4>1, <4>3, <4>5 DEF TInv, Called
        <4> QED
          BY <4>4, <4>6 DEF TInv
      <3> QED
        BY <3>1, <3>2, <3>3
    <2> QED
      BY <1>4, <2>1, <2>2, <2>3, <2>4, <2>5, <2>6, <2>7, <2>8, <2>9, <2>10, <2>11,
         <2>12, <2>13, <2>14, <2>15, <2>16 DEF Proceed
  <1>5. ASSUME NEW p \in Procs, Crash(p) PROVE TInv'
    <2>1. troubles' \in 0..MaxTroubles
      BY <1>5, TroubleType DEF Crash
    <2>2. excused' \subseteq Grants
      <3>1. {cache[p], got[p]} \ {NoGrant} \subseteq Grants
        <4> cache[p] \in 0..MaxGrants /\ got[p] \in 0..MaxGrants
          OBVIOUS
        <4> QED
          BY BoundAssumption
      <3> QED
        BY <1>5, <3>1, Zenon DEF Crash
    <2>3. initialized' \in [Procs -> BOOLEAN]
      BY <1>5 DEF Crash
    <2>5. /\ token' = Set(token, p, NoGrant) /\ session' = Set(session, p, "none")
      BY <1>5 DEF Crash
    <2>4. Finish(p) /\ UNCHANGED <<gatewayVars, file>>
      BY <1>5 DEF Crash
    <2> QED
      BY <2>1, <2>2, <2>3, <2>4, <2>5, BoundAssumption DEF Finish
  <1>6. ASSUME NEW g \in Grants, EnterMargin(g) \/ Expire(g) \/ Lapse(g) PROVE TInv'
    BY <1>6, BoundAssumption, TroubleType DEF EnterMargin, Expire, Lapse
  <1>7. CASE Rotate \/ UpstreamRestarts
    <2>1. CASE Rotate
      BY <1>7, <2>1, BoundAssumption, TroubleType DEF Rotate
    <2>2. CASE UpstreamRestarts
      BY <1>7, <2>2, BoundAssumption DEF UpstreamRestarts
    <2> QED
      BY <1>7, <2>1, <2>2
  <1> QED
    BY <1>1, <1>2, <1>3, <1>4, <1>5, <1>6, <1>7 DEF Next

LEMMA InitIInv == Init => IInv
  BY InitTInv, BoundAssumption
     DEF Init, IInv, InHand, Holding, CacheNotBurnt, Grants, NoGrant

(* A step that mints nothing, uses nothing up, writes no file and lets no    *)
(* client read or come to hold a grant keeps the grants in hand secret.     *)
LEMMA QuietStep ==
  ASSUME IInv, UNCHANGED file, excused \subseteq excused',
         honoured \subseteq honoured' \cup excused',
         renewable' \subseteq renewable \cup excused',
         \A q \in Procs : /\ at'[q] \in {"save", "write"} => at'[q] = at[q]
                          /\ at'[q] \in {"save", "write"} => got'[q] = got[q]
                          /\ cache'[q] \in {cache[q], NoGrant, file},
         \A q \in Procs : at[q] = "save" /\ cache[q] = file /\ file \in Grants
                            => \/ at'[q] = "save" /\ cache'[q] = file
                               \/ file \in excused'
  PROVE  InHand' /\ CacheNotBurnt'
<1>1. InHand'
  <2> SUFFICES ASSUME NEW p \in Procs, Holding(p)'
               PROVE  /\ got'[p] \in Grants
                      /\ got'[p] \in renewable' => got'[p] \in honoured' \cup excused'
                      /\ file' # got'[p]
                      /\ \A q \in Procs : cache'[q] # got'[p]
                      /\ \A q \in Procs \ {p} : Holding(q)' => got'[q] # got'[p]
    BY DEF InHand, Grants
  <2>1. Holding(p) /\ got'[p] = got[p]
    BY DEF Holding
  <2>2. /\ got[p] \in Grants /\ (got[p] \in renewable => got[p] \in honoured \cup excused)
        /\ file # got[p] /\ \A q \in Procs : cache[q] # got[p]
        /\ \A q \in Procs \ {p} : Holding(q) => got[q] # got[p]
    BY <2>1 DEF IInv, InHand
  <2>3. got[p] # NoGrant
    BY <2>2 DEF Grants, NoGrant
  <2>4. \A q \in Procs : cache'[q] # got[p]
    BY <2>2, <2>3
  <2>5. \A q \in Procs \ {p} : Holding(q)' => Holding(q) /\ got'[q] = got[q]
    BY DEF Holding
  <2> QED
    BY <2>1, <2>2, <2>4, <2>5
<1>2. CacheNotBurnt'
  BY DEF IInv, TInv, TypeOK, CacheNotBurnt
<1> QED
  BY <1>1, <1>2

LEMMA StepIInv == IInv /\ [Next]_vars => IInv'
<1> SUFFICES ASSUME IInv, [Next]_vars PROVE InHand' /\ CacheNotBurnt'
  BY StepTInv DEF IInv
<1> USE DEF Set, gatewayVars, controlVars, callVars, mcpVars, historyVars
<1> DEFINE Quiet ==
      /\ UNCHANGED file /\ excused \subseteq excused'
      /\ honoured \subseteq honoured' \cup excused'
      /\ renewable' \subseteq renewable \cup excused'
      /\ \A q \in Procs : /\ at'[q] \in {"save", "write"} => at'[q] = at[q]
                          /\ at'[q] \in {"save", "write"} => got'[q] = got[q]
                          /\ cache'[q] \in {cache[q], NoGrant, file}
      /\ \A q \in Procs : at[q] = "save" /\ cache[q] = file /\ file \in Grants
                            => \/ at'[q] = "save" /\ cache'[q] = file
                               \/ file \in excused'
<1>q. Quiet => InHand' /\ CacheNotBurnt'
  BY QuietStep
<1>t. TypeOK /\ Minted /\ InHand /\ CacheNotBurnt
  BY DEF IInv, TInv
<1>a. /\ at \in [Procs -> Steps] /\ cache \in [Procs -> 0..MaxGrants]
      /\ got \in [Procs -> 0..MaxGrants]
  BY <1>t DEF TypeOK
<1>m. ASSUME NEW old, NEW carries, Grant(old, carries)
      PROVE  granted' \in Grants /\ granted' \notin 0..granted /\ file # granted'
  BY <1>m, <1>t, GrantMade, BoundAssumption
     DEF IInv, Minted, Grants, Torn, Garbled
<1>1. CASE UNCHANGED vars
  <2>1. Quiet
    BY <1>1 DEF vars
  <2> QED
    BY <1>q, <2>1
<1>2. ASSUME NEW p \in Procs, NEW e \in Entries, Start(p, e) PROVE Quiet
  <2>1. PICK step \in {"browser", "call", "load"} : at' = [at EXCEPT ![p] = step]
    <3>1. CASE e = "do_login"
      BY <1>2, <3>1 DEF Start
    <3>2. CASE e # "do_login" /\ e = "call_tool" /\ initialized[p]
      BY <1>2, <3>2 DEF Start
    <3>3. CASE e # "do_login" /\ ~ (e = "call_tool" /\ initialized[p])
      BY <1>2, <3>3 DEF Start
    <3> QED
      BY <3>1, <3>2, <3>3
  <2>2. at[p] = "idle" /\ UNCHANGED <<gatewayVars, file, cache, got, historyVars>>
    BY <1>2, <1>t DEF Start, Minted
  <2> QED
    BY <2>1, <2>2, <1>a
<1>3. ASSUME NEW p \in Procs, Replace(p) PROVE Quiet
  BY <1>3 DEF Replace
<1>4. ASSUME NEW p \in Procs, Proceed(p) PROVE InHand' /\ CacheNotBurnt'
  <2>1. Reuse(p) => Quiet
    BY <1>a DEF Reuse, Authenticated, Goto
  <2>2. LoadForRefresh(p) => Quiet
    BY <1>a DEF LoadForRefresh, LoadCache
  <2>3. LoadNothing(p) => Quiet
    BY <1>a DEF LoadNothing, Finish, Goto
  <2>4. RefreshRefused(p) => Quiet
    BY <1>a DEF RefreshRefused, Finish, Goto
  <2>5. RefreshUnanswered(p) => Quiet
    BY <1>a DEF RefreshUnanswered, Finish, Grant
  <2>6. DiscoveryRefused(p) => Quiet
    BY <1>a DEF DiscoveryRefused, RaiseAuth, Finish, Goto
  <2>7. AuthorizeRefused(p) \/ AuthorizeUnanswered(p) => Quiet
    BY <1>a DEF AuthorizeRefused, AuthorizeUnanswered, RaiseAuth, Finish, Goto
  <2>8. Open(p) => Quiet
    BY <1>a DEF Open, Finish, Goto
  <2>9. OpenRefused(p) \/ OpenFails(p) => Quiet
    BY <1>a DEF OpenRefused, OpenFails, RaiseAuth, Finish, Goto
  <2>10. (\E a \in Answers(p) : CallTool(p, a)) => Quiet
    BY <1>a DEF CallTool, Finish, Retry
  <2>11. CASE Refresh(p)
    <3>1. /\ at[p] = "refresh" /\ cache[p] \in honoured
          /\ at' = [at EXCEPT ![p] = "save"] /\ got' = [got EXCEPT ![p] = granted']
          /\ honoured' = (honoured \ {cache[p]}) \cup {granted'}
          /\ renewable' = renewable \cup {granted'}
          /\ UNCHANGED <<file, cache, excused>>
      BY <2>11 DEF Refresh, Grant
    <3>2. granted' \in Grants /\ granted' \notin 0..granted /\ file # granted'
      BY <2>11, <1>m DEF Refresh
    <3>3. \A q \in Procs : cache[q] # granted' /\ got[q] # granted'
      BY <3>2, <1>t DEF Minted
    <3>4. \A q \in Procs : Holding(q)' <=> Holding(q) \/ q = p
      BY <3>1, <1>a DEF Holding
    <3>5. InHand'
      BY <3>1, <3>2, <3>3, <3>4, <1>t, <1>a DEF InHand
    <3>6. CacheNotBurnt'
      BY <3>1, <1>t, <1>a DEF CacheNotBurnt
    <3> QED
      BY <3>5, <3>6
  <2>12. CASE Authorize(p)
    <3>1. /\ at[p] = "browser"
          /\ at' = [at EXCEPT ![p] = "save"] /\ got' = [got EXCEPT ![p] = granted']
          /\ honoured \subseteq honoured' /\ (granted' \in renewable' => granted' \in honoured')
          /\ renewable' \subseteq renewable \cup {granted'}
          /\ UNCHANGED <<file, cache, excused>>
      <4>1. PICK carries \in Carries : Grant({}, carries)
        BY <2>12 DEF Authorize
      <4>2. granted \in Nat /\ granted' = granted + 1
        BY <4>1, <1>t DEF Grant, TypeOK
      <4>3. granted' \notin renewable
        BY <4>2, <1>t DEF Minted
      <4> QED
        BY <2>12, <4>1, <4>3 DEF Authorize, Grant
    <3>2. granted' \in Grants /\ granted' \notin 0..granted /\ file # granted'
      BY <2>12, <1>m DEF Authorize
    <3>3. \A q \in Procs : cache[q] # granted' /\ got[q] # granted'
      BY <3>2, <1>t DEF Minted
    <3>4. \A q \in Procs : Holding(q)' <=> Holding(q) \/ q = p
      BY <3>1, <1>a DEF Holding
    <3>5. InHand'
      BY <3>1, <3>2, <3>3, <3>4, <1>t, <1>a DEF InHand
    <3>6. CacheNotBurnt'
      BY <3>1, <1>t, <1>a DEF CacheNotBurnt
    <3> QED
      BY <3>5, <3>6
  <2>13. CASE StoreToken(p)
    <3>1. /\ at[p] = "save" /\ at' = [at EXCEPT ![p] = "write"] /\ file' = Torn
          /\ UNCHANGED <<renewable, honoured, excused, cache, got>>
      BY <2>13 DEF StoreToken
    <3>2. Torn \notin Grants
      BY BoundAssumption DEF Torn, Grants
    <3>3. \A q \in Procs : Holding(q)' <=> Holding(q)
      BY <3>1, <1>a DEF Holding
    <3>4. InHand'
      BY <3>1, <3>2, <3>3, <1>t DEF InHand, Grants
    <3> QED
      BY <3>1, <3>2, <3>4, <1>t DEF CacheNotBurnt, TypeOK
  <2>14. CASE SaveCache(p)
    <3>1. /\ at[p] = "write" /\ file' \in {got[p], Garbled}
          /\ UNCHANGED <<renewable, honoured, excused, cache, got>>
      BY <2>14 DEF SaveCache, Authenticated, Goto
    <3>2. \A q \in Procs : Holding(q)' => Holding(q) /\ q # p
      BY <2>14, <1>a DEF SaveCache, Authenticated, Goto, Holding
    <3>3. Garbled \notin Grants
      BY BoundAssumption DEF Garbled, Grants
    <3>4. Holding(p)
      BY <3>1 DEF Holding
    <3>5. InHand'
      BY <3>1, <3>2, <3>3, <3>4, <1>t DEF InHand, Grants
    <3> QED
      BY <3>1, <3>3, <3>4, <3>5, <1>t DEF CacheNotBurnt, InHand, TypeOK
  <2> QED
    BY <1>4, <1>q, <2>1, <2>2, <2>3, <2>4, <2>5, <2>6, <2>7, <2>8, <2>9, <2>10,
       <2>11, <2>12, <2>13, <2>14 DEF Proceed
<1>5. ASSUME NEW p \in Procs, Crash(p) PROVE Quiet
  BY <1>5, <1>a DEF Crash, Finish, Grants, NoGrant
<1>6. ASSUME NEW g \in Grants, EnterMargin(g) \/ Expire(g) \/ Lapse(g) PROVE Quiet
  BY <1>6 DEF EnterMargin, Expire, Lapse
<1>7. Rotate \/ UpstreamRestarts => Quiet
  BY DEF Rotate, UpstreamRestarts
<1> QED
  BY <1>q, <1>1, <1>2, <1>3, <1>4, <1>5, <1>6, <1>7 DEF Next

(* Every variable keeps its type, and every grant anyone names was made     *)
(* (the whole of mcp_client.py).                                           *)
THEOREM TypeCorrect == Spec => []TypeOK
  <1>1. TInv => TypeOK
    BY DEF TInv
  <1> QED
    BY InitTInv, StepTInv, <1>1, PTL DEF Spec

(* No order of refreshes, browser logins, saves and crashes, of any number  *)
(* of clients, leaves a refresh token in the cache that the gateway has     *)
(* redeemed, except while the client that redeemed it is about to save or   *)
(* after its successor was lost (_refresh, _store_token, _save_cache).      *)
THEOREM CacheStaysUsable == Spec => []CacheNotBurnt
  <1>1. IInv => CacheNotBurnt
    BY DEF IInv
  <1> QED
    BY InitIInv, StepIInv, <1>1, PTL DEF Spec

(* One call runs its tool once at most, and twice only after an error of    *)
(* the tool that reads as a lost session, for any number of clients, however*)
(* requests time out and sessions and tokens are lost: what went unanswered *)
(* is not sent again, and the retry is not retried (call_tool).            *)
THEOREM ToolsRunOnce == Spec => RunsOnce
  <1>1. TInv => \A p \in Procs : ran[p] = 0 \/ (ran[p] = 1 /\ p \in misread)
    BY DEF TInv, TypeOK, Called
  <1>2. TInv /\ [Next]_vars =>
          [\A p \in Procs : \A a \in Answers(p) :
             CallTool(p, a) /\ a.runs => ran[p] = 0 \/ (ran[p] = 1 /\ p \in misread)]_vars
    BY <1>1
  <1> QED
    BY InitTInv, StepTInv, <1>2, PTL DEF Spec, RunsOnce

(***************************************************************************)
(* Entry points come to an end.  EntryPointsReturn is checked under         *)
(* fairness, which gives an entry point one more step of its own, again and *)
(* again.  Here is why so many steps are enough.                            *)
(***************************************************************************)

(* How often an entry point may still start over: after a login or a probe  *)
(* it connects, a rejected token forces one login, and a lost session makes *)
(* one retry.                                                               *)
Rounds(p) ==
  CASE ctx[p] \in {"login", "probe"} -> 3
    [] ctx[p] = "first" -> 2
    [] ctx[p] = "forced" -> 1
    [] OTHER -> 0

(* The steps of a round.                                                    *)
Ahead(p) ==
  CASE at[p] = "load" -> 7
    [] at[p] = "refresh" -> 6
    [] at[p] = "browser" -> 5
    [] at[p] = "save" -> 4
    [] at[p] = "write" -> 3
    [] at[p] = "open" -> 2
    [] at[p] = "call" -> 1
    [] OTHER -> 0

StepsLeft(p) == 7 * Rounds(p) + Ahead(p)

(* An entry point is over, or it is nearer to its end by each step it takes *)
(* and no farther from it by any other.                                     *)
Nearer(p) ==
  op[p] # "none" =>
    /\ StepsLeft(p) \in 0..28
    /\ \/ op'[p] = "none"
       \/ /\ op'[p] = op[p]
          /\ StepsLeft(p)' =< StepsLeft(p)
          /\ Proceed(p) => StepsLeft(p)' < StepsLeft(p)

LEMMA StepsLeftType ==
  ASSUME TypeOK, NEW p \in Procs
  PROVE  StepsLeft(p) \in 0..28 /\ Rounds(p) \in 0..3 /\ Ahead(p) \in 0..7
<1>1. Rounds(p) \in 0..3
  BY DEF Rounds
<1>2. Ahead(p) \in 0..7
  BY DEF Ahead
<1> QED
  BY <1>1, <1>2 DEF StepsLeft

(* What a step does to the place of the client that takes it.               *)
LEMMA ClientMoves ==
  ASSUME TypeOK, NEW p \in Procs, Proceed(p)
  PROVE  \/ op'[p] = "none"
         \/ /\ op'[p] = op[p]
            /\ \/ at[p] = "load" /\ at'[p] \in {"refresh", "browser", "open"} /\ ctx'[p] = ctx[p]
               \/ at[p] = "refresh" /\ at'[p] \in {"save", "browser"} /\ ctx'[p] = ctx[p]
               \/ at[p] = "browser" /\ at'[p] = "save" /\ ctx'[p] = ctx[p]
               \/ at[p] = "save" /\ at'[p] = "write" /\ ctx'[p] = ctx[p]
               \/ at[p] = "write" /\ at'[p] = "open" /\ ctx'[p] = ctx[p]
               \/ at[p] = "open" /\ at'[p] = "call" /\ ctx'[p] = ctx[p]
               \/ /\ ctx[p] \in {"login", "probe"} /\ at[p] \in {"load", "write"}
                  /\ at'[p] = "load" /\ ctx'[p] = "first"
               \/ /\ ctx[p] = "first" /\ at[p] \in {"refresh", "browser", "open"}
                  /\ at'[p] = "browser" /\ ctx'[p] = "forced"
               \/ at[p] = "call" /\ ctx[p] # "retry" /\ at'[p] = "load" /\ ctx'[p] = "retry"
<1> USE DEF TypeOK, Set, Goto, Finish
<1>1. CASE Reuse(p) \/ SaveCache(p)
  BY <1>1 DEF Reuse, SaveCache, Authenticated
<1>2. CASE LoadForRefresh(p) \/ LoadNothing(p)
  BY <1>2 DEF LoadForRefresh, LoadNothing
<1>3. CASE Refresh(p) \/ RefreshRefused(p) \/ RefreshUnanswered(p)
  BY <1>3 DEF Refresh, RefreshRefused, RefreshUnanswered
<1>4. CASE DiscoveryRefused(p) \/ AuthorizeRefused(p) \/ OpenRefused(p)
  BY <1>4 DEF DiscoveryRefused, AuthorizeRefused, OpenRefused, RaiseAuth
<1>5. CASE Authorize(p) \/ AuthorizeUnanswered(p) \/ StoreToken(p)
  BY <1>5 DEF Authorize, AuthorizeUnanswered, StoreToken
<1>6. CASE Open(p) \/ OpenFails(p)
  BY <1>6 DEF Open, OpenFails
<1>7. CASE \E a \in Answers(p) : CallTool(p, a)
  BY <1>7 DEF CallTool, Retry
<1> QED
  BY <1>1, <1>2, <1>3, <1>4, <1>5, <1>6, <1>7 DEF Proceed

(* What the others do leaves a running entry point where it is, and a crash *)
(* ends it.                                                                 *)
LEMMA OthersWait ==
  ASSUME TypeOK, NEW p \in Procs, op[p] # "none", [Next]_vars, ~ Proceed(p)
  PROVE  op'[p] = "none" \/ (op'[p] = op[p] /\ at'[p] = at[p] /\ ctx'[p] = ctx[p])
<1> USE DEF TypeOK, Set, Goto, Finish
<1>1. CASE UNCHANGED vars
  BY <1>1 DEF vars, controlVars
<1>2. ASSUME NEW q \in Procs, \/ \E e \in Entries : Start(q, e)
                              \/ Replace(q) \/ Crash(q)
      PROVE  op'[p] = "none" \/ (op'[p] = op[p] /\ at'[p] = at[p] /\ ctx'[p] = ctx[p])
  BY <1>2 DEF Start, Replace, Crash, controlVars
<1>3. ASSUME NEW q \in Procs, q # p, Proceed(q)
      PROVE  op'[p] = op[p] /\ at'[p] = at[p] /\ ctx'[p] = ctx[p]
  BY <1>3 DEF Proceed, Reuse, SaveCache, Authenticated, LoadForRefresh, LoadNothing, Refresh,
     RefreshRefused, RefreshUnanswered, DiscoveryRefused, AuthorizeRefused, OpenRefused, RaiseAuth,
     Authorize, AuthorizeUnanswered, StoreToken, Open, OpenFails, CallTool, Retry
<1>4. CASE Rotate \/ UpstreamRestarts \/ \E g \in Grants : EnterMargin(g) \/ Expire(g) \/ Lapse(g)
  BY <1>4 DEF Rotate, UpstreamRestarts, EnterMargin, Expire, Lapse, controlVars
<1> QED
  BY <1>1, <1>2, <1>3, <1>4 DEF Next

LEMMA StepsNearer ==
  ASSUME TypeOK, TypeOK', [Next]_vars, NEW p \in Procs
  PROVE  Nearer(p)
<1> SUFFICES ASSUME op[p] # "none", op'[p] # "none" PROVE Nearer(p)
  BY StepsLeftType DEF Nearer
<1>1. /\ StepsLeft(p) \in 0..28
      /\ at'[p] \in Steps /\ ctx'[p] \in Contexts /\ at[p] \in Steps /\ ctx[p] \in Contexts
  BY StepsLeftType DEF TypeOK
<1>2. CASE Proceed(p)
  <2>3. Rounds(p) \in 0..3 /\ Ahead(p) \in 0..7 /\ Rounds(p)' \in 0..3 /\ Ahead(p)' \in 0..7
    BY DEF Rounds, Ahead
  <2>4. \/ Rounds(p)' = Rounds(p) /\ Ahead(p)' < Ahead(p)
        \/ Rounds(p)' + 1 =< Rounds(p) /\ Ahead(p) > 0
    BY <1>1, <1>2, ClientMoves DEF Rounds, Ahead, Steps, Contexts
  <2>1. op'[p] = op[p] /\ StepsLeft(p)' < StepsLeft(p)
    <3>1. op'[p] = op[p]
      BY <1>2, ClientMoves
    <3> QED
      BY <2>3, <2>4, <3>1 DEF StepsLeft
  <2>2. StepsLeft(p)' \in Nat
    BY DEF StepsLeft, Rounds, Ahead
  <2> QED
    BY <1>1, <2>1, <2>2 DEF Nearer
<1>3. CASE ~ Proceed(p)
  <2>1. op'[p] = op[p] /\ StepsLeft(p)' = StepsLeft(p)
    BY <1>3, OthersWait DEF StepsLeft, Rounds, Ahead
  <2> QED
    BY <1>1, <1>3, <2>1 DEF Nearer
<1> QED
  BY <1>2, <1>3

(* What EntryPointsReturn needs besides fairness, for any number of clients *)
(* and whatever the gateway, the upstream and the other clients do: an      *)
(* entry point returns or raises within 28 steps of its own.  No mixture of *)
(* rejected tokens, lost sessions and refused refreshes makes it go round   *)
(* (connect, call_tool, authenticate).                                      *)
THEOREM EntryPointsEnd == Spec => [][\A p \in Procs : Nearer(p)]_vars
<1>1. TInv => TypeOK
  BY DEF TInv
<1>2. TypeOK /\ TypeOK' /\ [Next]_vars => \A p \in Procs : Nearer(p)
  BY StepsNearer
<1> QED
  BY InitTInv, StepTInv, <1>1, <1>2, PTL DEF Spec

(***************************************************************************)
(* One login lasts, for a machine with one client.                          *)
(***************************************************************************)

OneClient == \A p, q \in Procs : p = q

\* The newest grant is good unless it is gone.
NewestInv ==
  /\ Gone \/ granted \in honoured \/ granted \notin renewable
  /\ granted \in valid => Gone \/ granted \in accepted

\* The newest grant is in the file or in the client's hand, the file is torn only while
\* the client writes it, and where the client goes to the browser by itself the grant
\* is gone.
KeptInv ==
  \A p \in Procs :
    /\ ~Holding(p) => Gone \/ file = granted
    /\ Holding(p) => got[p] = granted /\ (granted \in accepted \/ Gone)
    /\ at[p] = "write" => file = Torn /\ token[p] = granted
    /\ at[p] = "refresh" => cache[p] = file
    /\ at[p] = "open" => token[p] \in accepted \/ Gone
    /\ at[p] = "browser" /\ ctx[p] # "login" => Gone

LastsInv == NewestInv /\ KeptInv

\* A step that makes no grant and leaves the file alone keeps the newest grant where it is.
LEMMA NothingNew ==
  ASSUME OneClient, LastsInv, NEW p \in Procs,
         UNCHANGED <<granted, renewable, file>>, excused \subseteq excused', valid' \subseteq valid,
         honoured \subseteq honoured' \cup excused',
         granted \in accepted => granted \in accepted' \/ granted \notin valid' \/ Gone',
         ~Holding(p)' => ~Holding(p) \/ Gone',
         Holding(p)' => Holding(p) /\ got'[p] = got[p] /\ (granted \in accepted => granted \in accepted' \/ Gone'),
         at'[p] = "write" => at[p] = "write" /\ token'[p] = token[p],
         at'[p] = "refresh" => cache'[p] = file,
         at'[p] = "open" => token'[p] \in accepted' \/ Gone',
         at'[p] = "browser" /\ ctx'[p] # "login" => Gone'
  PROVE  LastsInv'
<1>1. Gone => Gone'
  BY DEF Gone
<1>2. ASSUME NEW q \in Procs PROVE q = p
  BY DEF OneClient
<1>3. NewestInv'
  BY <1>1 DEF LastsInv, NewestInv, Gone
<1>4. KeptInv'
  BY <1>1, <1>2 DEF LastsInv, KeptInv, Holding
<1> QED
  BY <1>3, <1>4 DEF LastsInv

\* A new grant comes into the client's hand.
LEMMA NewInHand ==
  ASSUME OneClient, TInv, LastsInv, NEW p \in Procs, NEW old, NEW carries, Grant(old, carries),
         got' = [got EXCEPT ![p] = granted'], at' = [at EXCEPT ![p] = "save"]
  PROVE  LastsInv'
<1>1. ASSUME NEW q \in Procs PROVE at'[q] = "save" /\ got'[q] = granted'
  BY <1>1 DEF OneClient, TInv, TypeOK
<1>2. /\ granted' \in accepted'
      /\ granted' \in renewable' => granted' \in honoured'
  <2>1. granted \in Nat /\ granted' = granted + 1
    BY DEF Grant, TInv, TypeOK
  <2>2. granted' \notin renewable
    BY <2>1 DEF TInv, Minted
  <2> QED
    BY <2>2 DEF Grant
<1> QED
  BY <1>1, <1>2 DEF LastsInv, NewestInv, KeptInv, Holding

\* What the client reads in its file is its newest grant, unless that is gone.
LEMMA ReadsNewest ==
  ASSUME TInv, LastsInv, NEW p \in Procs, at[p] = "load"
  PROVE  /\ LoadCache \notin renewable \cup valid => Gone
         /\ LoadCache \in renewable => LoadCache = file
         /\ LoadCache \in valid => LoadCache \in accepted \/ Gone
<1>1. Gone \/ file = granted
  BY DEF LastsInv, KeptInv, Holding
<1>2. granted \in 0..MaxGrants
  BY DEF TInv, TypeOK
<1>3. file = granted => LoadCache = granted
  BY <1>2, BoundAssumption DEF LoadCache, Grants, NoGrant
<1>4. LoadCache \in renewable => LoadCache = file
  BY BoundAssumption DEF LoadCache, TInv, Minted, NoGrant
<1> QED
  BY <1>1, <1>3, <1>4 DEF LastsInv, NewestInv, Gone

LEMMA LastsStep ==
  ASSUME OneClient, TInv, CacheNotBurnt, LastsInv, [Next]_vars
  PROVE  LastsInv'
<1> USE DEF Set, gatewayVars, controlVars, callVars, mcpVars, historyVars
<1>a. /\ at \in [Procs -> Steps] /\ ctx \in [Procs -> Contexts]
      /\ cache \in [Procs -> 0..MaxGrants] /\ got \in [Procs -> 0..MaxGrants]
      /\ token \in [Procs -> 0..MaxGrants]
  BY DEF TInv, TypeOK
<1>s. ASSUME UNCHANGED vars PROVE LastsInv'
  BY <1>s DEF vars, LastsInv, NewestInv, KeptInv, Gone, Holding
<1>1. ASSUME NEW p \in Procs, NEW e \in Entries, Start(p, e) PROVE LastsInv'
  <2>1. at[p] = "idle" /\ UNCHANGED <<gatewayVars, file, cache, got, mcpVars, historyVars>>
    BY <1>1 DEF Start, TInv, Minted
  <2>2. at'[p] \in {"browser", "call", "load"} /\ (at'[p] = "browser" => ctx'[p] = "login")
    <3>1. CASE e = "do_login"
      BY <1>1, <1>a, <3>1 DEF Start
    <3>2. CASE e # "do_login" /\ e = "call_tool" /\ initialized[p]
      BY <1>1, <1>a, <3>2 DEF Start
    <3>3. CASE e # "do_login" /\ ~ (e = "call_tool" /\ initialized[p])
      BY <1>1, <1>a, <3>3 DEF Start
    <3> QED
      BY <3>1, <3>2, <3>3
  <2>3. ~Holding(p) /\ ~Holding(p)'
    BY <2>1, <2>2 DEF Holding
  <2> QED
    BY <2>1, <2>2, <2>3, NothingNew
<1>2. ASSUME NEW p \in Procs, Replace(p) PROVE LastsInv'
  <2>1. at[p] = "idle" /\ at' = at /\ UNCHANGED <<gatewayVars, file, controlVars, historyVars>>
    BY <1>2 DEF Replace, TInv, Minted
  <2> QED
    BY <2>1, NothingNew DEF Holding
<1>3. ASSUME NEW p \in Procs, Finish(p), ~Holding(p) \/ Gone', UNCHANGED <<granted, renewable, file>>,
             excused \subseteq excused', valid' \subseteq valid, UNCHANGED accepted,
             honoured \subseteq honoured' \cup excused'
      PROVE  LastsInv'
  <2>1. at'[p] = "idle"
    BY <1>3, <1>a DEF Finish
  <2> QED
    BY <1>3, <2>1, NothingNew DEF Holding
<1>4. ASSUME NEW p \in Procs, NEW step \in {"load", "browser", "open", "call"}, NEW why, Goto(p, step, why),
             ~Holding(p), UNCHANGED <<granted, renewable, file, valid, accepted, honoured>>, excused \subseteq excused',
             step = "open" => token'[p] \in accepted \/ Gone',
             step = "browser" => why = "login" \/ Gone'
      PROVE  LastsInv'
  <2>1. at'[p] = step /\ ctx'[p] = why
    BY <1>4, <1>a DEF Goto
  <2>2. ~Holding(p)'
    BY <2>1 DEF Holding
  <2> QED
    BY <1>4, <2>1, <2>2, NothingNew
<1>5. ASSUME NEW p \in Procs, Proceed(p) PROVE LastsInv'
  <2> DEFINE Rest == UNCHANGED <<granted, renewable, file, valid, accepted, honoured>> /\ excused \subseteq excused'
  <2>1. CASE Reuse(p)
    <3>1. at[p] = "load" /\ LoadCache \in valid /\ token'[p] = LoadCache /\ Rest
      BY <2>1, <1>a DEF Reuse, CacheValid
    <3>2. LoadCache \in accepted \/ Gone'
      BY <3>1, ReadsNewest, <2>1 DEF Reuse, Gone
    <3>3. ~Holding(p)
      BY <3>1 DEF Holding
    <3>4. Goto(p, "load", "first") \/ Goto(p, "open", ctx[p])
      BY <2>1 DEF Reuse, Authenticated
    <3> QED
      BY <1>4, <3>1, <3>2, <3>3, <3>4
  <2>2. CASE LoadForRefresh(p)
    <3>1. /\ at[p] = "load" /\ at'[p] = "refresh" /\ cache'[p] = LoadCache /\ LoadCache \in renewable
          /\ UNCHANGED <<gatewayVars, file, op, ctx, got, mcpVars, historyVars>>
      BY <2>2, <1>a DEF LoadForRefresh
    <3>2. LoadCache = file
      BY <3>1, ReadsNewest
    <3> QED
      BY <3>1, <3>2, NothingNew DEF Holding
  <2>3. CASE LoadNothing(p)
    <3>1. at[p] = "load" /\ LoadCache \notin renewable \cup valid /\ Rest /\ ~Holding(p)
      BY <2>3 DEF LoadNothing, CacheValid, Holding
    <3>2. Gone'
      BY <3>1, ReadsNewest DEF Gone
    <3>3. Finish(p) \/ Goto(p, "browser", ctx[p])
      BY <2>3 DEF LoadNothing
    <3> QED
      BY <1>3, <1>4, <3>1, <3>2, <3>3
  <2>4. CASE Refresh(p)
    <3>1. Grant({cache[p]}, TRUE) /\ got' = [got EXCEPT ![p] = granted'] /\ at' = [at EXCEPT ![p] = "save"]
      BY <2>4 DEF Refresh
    <3> QED
      BY <3>1, NewInHand
  <2>5. CASE RefreshRefused(p)
    <3>1. at[p] = "refresh" /\ cache[p] \notin honoured /\ Rest /\ ~Holding(p)
      BY <2>5 DEF RefreshRefused, Holding
    <3>2. cache[p] = file /\ (Gone \/ file = granted)
      BY <3>1 DEF LastsInv, KeptInv
    <3>3. Gone'
      BY <3>1, <3>2 DEF LastsInv, NewestInv, Gone, TInv, Minted
    <3>4. Finish(p) \/ Goto(p, "browser", ctx[p])
      BY <2>5 DEF RefreshRefused
    <3> QED
      BY <1>3, <1>4, <3>1, <3>3, <3>4
  <2>6. CASE RefreshUnanswered(p)
    <3>1. Finish(p) /\ at[p] = "refresh" /\ file' = file /\ ~Holding(p)
      BY <2>6 DEF RefreshUnanswered, Holding
    <3>2. CASE UNCHANGED <<gatewayVars, excused, troubles>>
      BY <1>3, <3>1, <3>2
    <3>3. CASE Grant({cache[p]}, TRUE) /\ excused' = excused \cup {cache[p], granted'}
      <4>1. Gone' /\ granted' \in accepted' /\ at'[p] = "idle"
        BY <3>1, <3>3, <1>a DEF Gone, Grant, Finish
      <4>2. ASSUME NEW q \in Procs PROVE q = p
        BY DEF OneClient
      <4> QED
        BY <4>1, <4>2 DEF LastsInv, NewestInv, KeptInv, Holding
    <3> QED
      BY <2>6, <3>2, <3>3 DEF RefreshUnanswered
  <2>7. CASE DiscoveryRefused(p)
    <3>1. at[p] = "refresh" /\ Rest /\ ~Holding(p) /\ Gone'
      BY <2>7 DEF DiscoveryRefused, Holding, Gone
    <3>2. Finish(p) \/ Goto(p, "browser", "forced")
      BY <2>7 DEF DiscoveryRefused, RaiseAuth
    <3> QED
      BY <1>3, <1>4, <3>1, <3>2
  <2>8. CASE Authorize(p)
    <3>1. PICK carries \in Carries :
            Grant({}, carries) /\ got' = [got EXCEPT ![p] = granted'] /\ at' = [at EXCEPT ![p] = "save"]
      BY <2>8 DEF Authorize
    <3> QED
      BY <3>1, NewInHand
  <2>9. CASE AuthorizeRefused(p)
    <3>1. at[p] = "browser" /\ Rest /\ ~Holding(p)
      BY <2>9 DEF AuthorizeRefused, Holding
    <3>2. CASE ctx[p] = "first"
      <4>1. Gone' /\ Goto(p, "browser", "forced")
        BY <2>9, <3>1, <3>2 DEF AuthorizeRefused, RaiseAuth, LastsInv, KeptInv, Gone
      <4> QED
        BY <1>4, <3>1, <4>1
    <3>3. CASE ctx[p] # "first"
      BY <1>3, <2>9, <3>1, <3>3 DEF AuthorizeRefused, RaiseAuth
    <3> QED
      BY <3>2, <3>3
  <2>10. CASE AuthorizeUnanswered(p)
    BY <1>3, <2>10 DEF AuthorizeUnanswered, Holding
  <2>11. CASE StoreToken(p)
    <3>1. /\ at[p] = "save" /\ at'[p] = "write" /\ token'[p] = got[p] /\ file' = Torn
          /\ UNCHANGED <<gatewayVars, op, ctx, cache, got, excused>>
      BY <2>11, <1>a DEF StoreToken
    <3>2. ASSUME NEW q \in Procs PROVE q = p
      BY DEF OneClient
    <3> QED
      BY <3>1, <3>2 DEF LastsInv, NewestInv, KeptInv, Holding, Gone
  <2>12. CASE SaveCache(p)
    <3>1. at[p] = "write" /\ UNCHANGED <<gatewayVars, mcpVars, historyVars>>
      BY <2>12 DEF SaveCache
    <3>2. file = Torn /\ token[p] = granted /\ got[p] = granted /\ (granted \in accepted \/ Gone)
      BY <3>1 DEF LastsInv, KeptInv, Holding
    <3>3. file' = granted
      BY <2>12, <3>2 DEF SaveCache
    <3>4. at'[p] \in {"load", "open"}
      BY <2>12, <1>a DEF SaveCache, Authenticated, Goto
    <3>5. ASSUME NEW q \in Procs PROVE q = p
      BY DEF OneClient
    <3> QED
      BY <3>1, <3>2, <3>3, <3>4, <3>5 DEF LastsInv, NewestInv, KeptInv, Holding, Gone
  <2>13. CASE Open(p)
    <3>1. Finish(p) \/ Goto(p, "call", ctx[p])
      BY <2>13 DEF Open
    <3> QED
      BY <1>3, <1>4, <2>13, <3>1 DEF Open, Holding
  <2>14. CASE OpenRefused(p)
    <3>1. at[p] = "open" /\ token[p] \notin accepted /\ Rest /\ ~Holding(p)
      BY <2>14 DEF OpenRefused, Holding
    <3>2. Gone'
      BY <2>14, <3>1 DEF OpenRefused, LastsInv, KeptInv, Gone
    <3>3. Finish(p) \/ Goto(p, "browser", "forced")
      BY <2>14 DEF OpenRefused, RaiseAuth
    <3> QED
      BY <1>3, <1>4, <3>1, <3>2, <3>3
  <2>15. CASE OpenFails(p)
    BY <1>3, <2>15 DEF OpenFails, Holding
  <2>16. ASSUME NEW o \in Answers(p), CallTool(p, o) PROVE LastsInv'
    <3>1. CASE Finish(p)
      BY <1>3, <2>16, <3>1 DEF CallTool, Holding
    <3>2. CASE Retry(p, o)
      <4>1. ~Holding(p) /\ Rest /\ at'[p] = "load" /\ ~Holding(p)'
        BY <2>16, <3>2, <1>a DEF CallTool, Retry, Holding
      <4> QED
        BY <4>1, NothingNew
    <3> QED
      BY <2>16, <3>1, <3>2 DEF CallTool
  <2> QED
    BY <1>5, <2>1, <2>2, <2>3, <2>4, <2>5, <2>6, <2>7, <2>8, <2>9, <2>10, <2>11, <2>12, <2>13,
       <2>14, <2>15, <2>16 DEF Proceed
<1>6. ASSUME NEW p \in Procs, Crash(p) PROVE LastsInv'
  <2>1. Finish(p) /\ UNCHANGED <<gatewayVars, file>> /\ excused \subseteq excused'
    BY <1>6 DEF Crash
  <2>2. Holding(p) => Gone'
    <3>1. Holding(p) => got[p] = granted /\ excused' = excused \cup ({cache[p], got[p]} \ {NoGrant})
      BY <1>6 DEF Crash, Holding, LastsInv, KeptInv
    <3> QED
      BY <2>1, <3>1 DEF Gone, NoGrant
  <2> QED
    BY <1>3, <2>1, <2>2
<1>7. ASSUME NEW g \in Grants, EnterMargin(g) \/ Expire(g) \/ Lapse(g) PROVE LastsInv'
  <2>1. ASSUME EnterMargin(g) PROVE LastsInv'
    BY <2>1 DEF EnterMargin, LastsInv, NewestInv, KeptInv, Gone, Holding
  <2>2. ASSUME Expire(g) PROVE LastsInv'
    <3>1. /\ accepted' = accepted \ {g} /\ g \notin valid
          /\ \A p \in Procs : /\ at[p] \in {"save", "write"} => got[p] # g
                              /\ at[p] = "open" => token[p] # g
          /\ UNCHANGED <<granted, renewable, honoured, valid, file, controlVars, mcpVars, historyVars>>
      BY <2>2 DEF Expire
    <3> QED
      BY <3>1 DEF LastsInv, NewestInv, KeptInv, Gone, Holding
  <2>3. ASSUME Lapse(g) PROVE LastsInv'
    BY <2>3 DEF Lapse, LastsInv, NewestInv, KeptInv, Gone, Holding
  <2> QED
    BY <1>7, <2>1, <2>2, <2>3
<1>8. ASSUME Rotate PROVE LastsInv'
  <2>1. Gone'
    BY <1>8 DEF Rotate, LastsInv, NewestInv, Gone
  <2> QED
    BY <1>8, <2>1 DEF Rotate, LastsInv, NewestInv, KeptInv, Holding
<1>9. ASSUME UpstreamRestarts PROVE LastsInv'
  BY <1>9 DEF UpstreamRestarts, LastsInv, NewestInv, KeptInv, Gone, Holding
<1> QED
  BY <1>s, <1>1, <1>2, <1>5, <1>6, <1>7, <1>8, <1>9 DEF Next

(* On a machine with one client a browser opens by itself only when there  *)
(* was no login yet, or the newest grant was lost to an outage, a crash or  *)
(* an operator: however tokens expire between the steps, however often the  *)
(* client refreshes and reconnects (authenticate, connect, call_tool); or   *)
(* when the provider gave no refresh token and the access token runs out.  *)
THEOREM OneLoginLasts ==
  ASSUME OneClient
  PROVE  Spec => LoginLasts
<1>1. Init => LastsInv
  BY DEF Init, LastsInv, NewestInv, KeptInv, Gone, Holding, NoGrant
<1>2. IInv /\ LastsInv /\ [Next]_vars => LastsInv'
  BY LastsStep DEF IInv
<1>3. LastsInv /\ [Next]_vars =>
        [\A p \in Procs : Authorize(p) /\ ctx[p] # "login" => Gone]_vars
  BY DEF Authorize, LastsInv, KeptInv
<1> QED
  BY InitIInv, StepIInv, <1>1, <1>2, <1>3, PTL DEF Spec, LoginLasts

(***************************************************************************)
(* Proofs about BrowserLogin, for any number of logins, processes and       *)
(* probes: its types, and that a redirect reaches the login it is for.     *)
(***************************************************************************)

\* Which login is of which kind, and where it runs, never changes; a demo has a
\* process of its own.
SettingOK ==
  /\ loginKind \in [Logins -> {"client", "demo"}] /\ process \in [Logins -> Processes]
  /\ \A l, k \in Logins : loginKind[l] = "demo" /\ k # l => process[k] # process[l]

Places == {"new", "registered", "bind", "listen", "wait", "compare", "exchange", "token", "failed"}

\* A browser is away only for a login that opened it, and the client's listens first.
AbroadInv ==
  /\ \A l \in abroad :
       /\ pc[l] \notin {"new", "registered"}
       /\ Client(l) => pc[l] \notin {"bind", "listen"}
  /\ \A l \in Logins : Client(l) => pc[l] # "registered"

\* Code and state are captured together, and a compared state's code stays, unless
\* another login's redirect or start replaces it.
CapturedInv ==
  /\ \A p \in Processes : captured[p].code = captured[p].state
  /\ \A l \in Logins : pc[l] = "exchange" /\ l \notin swapped =>
       captured[process[l]].code \in {l, NoLogin}

\* What the process of a login that is alone has captured is its own.
AloneInv ==
  \A l \in Logins : Client(l) /\ l \in UnderWay /\ l \notin alien \cup crowded =>
    /\ captured[process[l]] \in {Nothing, [code |-> l, state |-> l]}
    /\ pc[l] = "compare" => captured[process[l]].code = l

LoginInv ==
  SettingOK /\ LoginTypeOK /\ AbroadInv /\ CapturedInv /\ AloneInv /\ CodeIsOwn
  /\ RedirectFindsListener

LEMMA LoginInitInv == LoginInit => LoginInv
  BY LoginAssumption DEF LoginInit, LoginInv, SettingOK, LoginTypeOK, AbroadInv, CapturedInv,
     AloneInv, CodeIsOwn, RedirectFindsListener, Nothing, UnderWay, Client

LEMMA SettingStays == [LoginNext]_loginVars => UNCHANGED loginSetting
  BY DEF LoginNext, LoginStep, loginVars, loginSetting, ClientStarts, DemoRegisters,
         DemoOpensBrowser, BindPort, ClientOpensBrowser, ClientStopsWaiting, DemoStopsWaiting,
         CompareState, ExchangeCode, Redirect, NeverReturns, ProbePort

LEMMA SettingNext == SettingOK /\ [LoginNext]_loginVars => SettingOK'
  BY SettingStays DEF SettingOK, loginSetting

\* The ways a login goes on.
LEMMA Places1 ==
  ASSUME LoginTypeOK, [LoginNext]_loginVars, NEW l \in Logins
  PROVE  /\ crowded \subseteq crowded'
         /\ \/ pc'[l] = pc[l]
            \/ LoginStep(l)
  <1>1. ASSUME NEW k \in Logins, LoginStep(k)
        PROVE  crowded \subseteq crowded' /\ (k # l => pc'[l] = pc[l])
    BY <1>1 DEF LoginStep, Goes, LoginTypeOK, ClientStarts, DemoRegisters,
           DemoOpensBrowser, BindPort, ClientOpensBrowser, ClientStopsWaiting, DemoStopsWaiting,
           CompareState, ExchangeCode
  <1>2. CASE ~\E k \in Logins : LoginStep(k)
    BY <1>2 DEF LoginNext, loginVars, Redirect, NeverReturns, ProbePort
  <1> QED
    BY <1>1, <1>2

LEMMA GoesOn ==
  ASSUME LoginTypeOK, NEW l \in Logins, LoginStep(l)
  PROVE  /\ pc' \in [Logins -> Places] /\ crowded' \subseteq Logins
         /\ \E there \in Places : Goes(l, there)
  <1>1. PICK there \in Places : Goes(l, there)
    BY DEF LoginStep, ClientStarts, DemoRegisters, Places, DemoOpensBrowser, BindPort,
           ClientOpensBrowser, ClientStopsWaiting, DemoStopsWaiting, CompareState, ExchangeCode
  <1>2. pc' = [pc EXCEPT ![l] = there] /\ crowded' \subseteq crowded \cup {l} \cup UnderWay
    BY <1>1 DEF Goes
  <1> QED
    BY <1>1, <1>2 DEF LoginTypeOK, Places, UnderWay

\* What a request that reaches the port leaves.
LEMMA Captures ==
  ASSUME SettingOK, LoginTypeOK, NEW k \in Logins, NEW c \in Logins \cup {NoLogin}, Capture(k, c)
  PROVE  /\ captured' \in [Processes -> [code : Logins \cup {NoLogin}, state : Logins \cup {NoLogin}]]
         /\ event' \subseteq Logins /\ alien' \subseteq Logins /\ swapped' \subseteq alien'
         /\ alien \subseteq alien' /\ swapped \subseteq swapped'
         /\ \/ captured' = captured /\ c = NoLogin
            \/ /\ captured' = [captured EXCEPT ![process[k]] = [code |-> c, state |-> c]]
               /\ c = NoLogin => ~Client(k)
         /\ c # NoLogin =>
              /\ \A l \in UnderWay : process[l] = process[k] /\ l # c => l \in alien'
              /\ \A l \in Logins : process[l] = process[k] /\ pc[l] = "exchange" /\ l # c => l \in swapped'
  <1>1. /\ event' \subseteq Logins
        /\ \/ captured' = captured /\ c = NoLogin
           \/ /\ captured' = [captured EXCEPT ![process[k]] = [code |-> c, state |-> c]]
              /\ c = NoLogin => ~Client(k)
    BY DEF Capture, ClientCaptures, DemoCaptures, LoginTypeOK
  <1>2. captured' \in [Processes -> [code : Logins \cup {NoLogin}, state : Logins \cup {NoLogin}]]
    BY <1>1 DEF LoginTypeOK, SettingOK
  <1>3. /\ alien' \subseteq Logins /\ swapped' \subseteq alien'
        /\ alien \subseteq alien' /\ swapped \subseteq swapped'
        /\ c # NoLogin =>
             /\ \A l \in UnderWay : process[l] = process[k] /\ l # c => l \in alien'
             /\ \A l \in Logins : process[l] = process[k] /\ pc[l] = "exchange" /\ l # c => l \in swapped'
    BY DEF Capture, LoginTypeOK, UnderWay
  <1> QED
    BY <1>1, <1>2, <1>3

LEMMA LoginTypes == SettingOK /\ LoginTypeOK /\ AbroadInv /\ [LoginNext]_loginVars => LoginTypeOK'
  <1> SUFFICES ASSUME SettingOK, LoginTypeOK, AbroadInv, [LoginNext]_loginVars PROVE LoginTypeOK'
    OBVIOUS
  <1>1. CASE UNCHANGED loginVars
    BY <1>1 DEF loginVars, LoginTypeOK
  <1>2. ASSUME NEW l \in Logins, LoginStep(l) PROVE LoginTypeOK'
    <2>1. crowded' \subseteq Logins /\ pc' \in [Logins -> Places]
      BY <1>2, GoesOn
    <2>2. captured' \in [Processes -> [code : Logins \cup {NoLogin}, state : Logins \cup {NoLogin}]]
          /\ code' \in [Logins -> Logins \cup {NoLogin}] /\ abroad' \subseteq Logins
      <3>1. /\ captured' = captured \/ captured' = [captured EXCEPT ![process[l]] = Nothing]
            /\ code' = code \/ code' = [code EXCEPT ![l] = captured[process[l]].code]
            /\ abroad' = abroad \/ abroad' = abroad \cup {l}
        BY <1>2 DEF LoginStep, ClientStarts, DemoRegisters, DemoOpensBrowser, BindPort,
               ClientOpensBrowser, ClientStopsWaiting, DemoStopsWaiting, CompareState, ExchangeCode
      <3>2. process[l] \in Processes /\ captured[process[l]].code \in Logins \cup {NoLogin}
        BY DEF SettingOK, LoginTypeOK
      <3> QED
        BY <3>1, <3>2 DEF LoginTypeOK, Nothing
    <2>3. UNCHANGED <<event, refusedAt, alien, swapped, probes>>
      BY <1>2 DEF LoginStep, ClientStarts, DemoRegisters, DemoOpensBrowser, BindPort,
             ClientOpensBrowser, ClientStopsWaiting, DemoStopsWaiting, CompareState, ExchangeCode
    <2> QED
      BY <2>1, <2>2, <2>3 DEF LoginTypeOK, Places
  <1>3. ASSUME NEW l \in Logins, Redirect(l) PROVE LoginTypeOK'
    <2>1. CASE Listening = {} /\ refusedAt' = refusedAt \cup {<<l, pc[l]>>}
               /\ UNCHANGED <<captured, event, alien, swapped>>
      BY <1>3, <2>1 DEF Redirect, LoginTypeOK, AbroadInv
    <2>2. ASSUME NEW k \in Listening, Capture(k, l), UNCHANGED refusedAt PROVE LoginTypeOK'
      <3>1. k \in Logins
        BY DEF Listening
      <3> QED
        BY <1>3, <2>2, <3>1, Captures DEF Redirect, LoginTypeOK
    <2> QED
      BY <1>3, <2>1, <2>2 DEF Redirect
  <1>4. ASSUME NEW l \in Logins, NeverReturns(l) PROVE LoginTypeOK'
    BY <1>4 DEF NeverReturns, LoginTypeOK
  <1>5. CASE ProbePort
    <2>1. PICK k \in Logins : Capture(k, NoLogin)
      BY <1>5 DEF ProbePort, Listening
    <2>2. probes' \in 0 .. MaxProbes
      BY <1>5, LoginAssumption DEF ProbePort, LoginTypeOK
    <2> QED
      BY <1>5, <2>1, <2>2, Captures DEF ProbePort, LoginTypeOK
  <1> QED
    BY <1>1, <1>2, <1>3, <1>4, <1>5 DEF LoginNext

LEMMA AbroadNext ==
  LoginTypeOK /\ AbroadInv /\ RedirectFindsListener /\ [LoginNext]_loginVars
  => AbroadInv' /\ RedirectFindsListener'
  <1> SUFFICES ASSUME LoginTypeOK, AbroadInv, RedirectFindsListener, [LoginNext]_loginVars
               PROVE  AbroadInv' /\ RedirectFindsListener'
    OBVIOUS
  <1>1. CASE UNCHANGED loginVars
    BY <1>1 DEF loginVars, AbroadInv, RedirectFindsListener, Client
  <1>2. ASSUME NEW l \in Logins, LoginStep(l) PROVE AbroadInv' /\ RedirectFindsListener'
    <2>1. UNCHANGED <<loginKind, refusedAt>>
      BY <1>2 DEF LoginStep, ClientStarts, DemoRegisters, DemoOpensBrowser, BindPort, loginSetting,
             ClientOpensBrowser, ClientStopsWaiting, DemoStopsWaiting, CompareState, ExchangeCode
    <2>2. RedirectFindsListener'
      BY <2>1 DEF RedirectFindsListener
    <2>3. PICK there \in Places :
            /\ Goes(l, there)
            /\ \/ there \in {"wait", "compare", "exchange", "token", "failed"} /\ abroad' \subseteq abroad \cup {l}
               \/ abroad' = abroad /\ pc[l] = "new" /\ (there = "registered" => ~Client(l))
               \/ ~Client(l) /\ there \notin {"new", "registered"} /\ abroad' \subseteq abroad \cup {l}
               \/ Client(l) /\ pc[l] = "bind" /\ there = "listen" /\ abroad' = abroad
      <3>1. CASE ClientStarts(l) \/ DemoRegisters(l) \/ DemoOpensBrowser(l)
        BY <3>1 DEF ClientStarts, DemoRegisters, DemoOpensBrowser, Places, AbroadInv
      <3>2. CASE BindPort(l)
        BY <3>2 DEF BindPort, Places
      <3>3. CASE ClientOpensBrowser(l) \/ ClientStopsWaiting(l) \/ DemoStopsWaiting(l)
        BY <3>3 DEF ClientOpensBrowser, ClientStopsWaiting, DemoStopsWaiting, Places
      <3>4. CASE CompareState(l) \/ ExchangeCode(l)
        BY <3>4 DEF CompareState, ExchangeCode, Places
      <3> QED
        BY <1>2, <3>1, <3>2, <3>3, <3>4 DEF LoginStep
    <2>4. pc' = [pc EXCEPT ![l] = there] /\ pc \in [Logins -> Places] /\ abroad \subseteq Logins
      BY <2>3 DEF Goes, LoginTypeOK, Places
    <2>5. \A k \in Logins : k # l => pc'[k] = pc[k]
      BY <2>4
    <2>6. AbroadInv'
      BY <2>1, <2>3, <2>4, <2>5 DEF AbroadInv, Client
    <2> QED
      BY <2>2, <2>6
  <1>3. ASSUME NEW l \in Logins, Redirect(l) PROVE AbroadInv' /\ RedirectFindsListener'
    <2>1. pc' = pc /\ loginKind' = loginKind /\ abroad' \subseteq abroad /\ l \in abroad
          /\ \/ refusedAt' = refusedAt
             \/ Listening = {} /\ refusedAt' = refusedAt \cup {<<l, pc[l]>>}
      BY <1>3 DEF Redirect, loginSetting
    <2>2. AbroadInv'
      BY <2>1 DEF AbroadInv, Client
    <2>3. ASSUME Listening = {}, Client(l)
          PROVE  pc[l] \in {"compare", "exchange", "token", "failed"}
      BY <1>3, <2>1, <2>3 DEF AbroadInv, LoginTypeOK, Listening
    <2>4. RedirectFindsListener'
      BY <2>1, <2>3 DEF RedirectFindsListener, Client
    <2> QED
      BY <2>2, <2>4
  <1>4. CASE ProbePort \/ \E l \in Logins : NeverReturns(l)
    BY <1>4 DEF ProbePort, NeverReturns, AbroadInv, RedirectFindsListener, loginSetting, Client
  <1> QED
    BY <1>1, <1>2, <1>3, <1>4 DEF LoginNext

\* What a step of a login does to what is captured and exchanged.
LEMMA StepCaptures ==
  ASSUME LoginTypeOK, SettingOK, NEW l \in Logins, LoginStep(l)
  PROVE  /\ UNCHANGED <<loginSetting, alien, swapped>>
         /\ \/ captured' = captured
            \/ ClientStarts(l) /\ captured' = [captured EXCEPT ![process[l]] = Nothing]
         /\ \A x \in Logins : x # l => pc'[x] = pc[x]
         /\ pc'[l] = "exchange" => captured' = captured /\ captured[process[l]].state = l
         /\ \/ code' = code
            \/ pc[l] = "exchange" /\ code' = [code EXCEPT ![l] = captured[process[l]].code]
  <1>1. UNCHANGED <<loginSetting, alien, swapped>>
    BY DEF LoginStep, ClientStarts, DemoRegisters, DemoOpensBrowser, BindPort,
           ClientOpensBrowser, ClientStopsWaiting, DemoStopsWaiting, CompareState, ExchangeCode
  <1>2. PICK there \in Places : Goes(l, there)
    BY GoesOn
  <1>3. pc' = [pc EXCEPT ![l] = there] /\ pc \in [Logins -> Places]
    BY <1>2 DEF Goes, LoginTypeOK, Places
  <1>4. CASE ClientStarts(l) \/ DemoRegisters(l) \/ DemoOpensBrowser(l) \/ BindPort(l)
             \/ ClientOpensBrowser(l) \/ ClientStopsWaiting(l) \/ DemoStopsWaiting(l)
    BY <1>1, <1>3, <1>4 DEF ClientStarts, DemoRegisters, DemoOpensBrowser, BindPort, Goes,
           ClientOpensBrowser, ClientStopsWaiting, DemoStopsWaiting
  <1>5. CASE CompareState(l)
    BY <1>1, <1>3, <1>5 DEF CompareState, Goes
  <1>6. CASE ExchangeCode(l)
    BY <1>1, <1>3, <1>6 DEF ExchangeCode, Goes
  <1> QED
    BY <1>4, <1>5, <1>6 DEF LoginStep

LEMMA CapturedNext ==
  /\ SettingOK /\ LoginTypeOK /\ CapturedInv /\ CodeIsOwn /\ [LoginNext]_loginVars
  => CapturedInv' /\ CodeIsOwn'
  <1> SUFFICES ASSUME SettingOK, LoginTypeOK, CapturedInv, CodeIsOwn, [LoginNext]_loginVars
               PROVE  CapturedInv' /\ CodeIsOwn'
    OBVIOUS
  <1>1. CASE UNCHANGED <<loginSetting, captured, pc, code, swapped>>
    BY <1>1 DEF loginSetting, CapturedInv, CodeIsOwn
  <1>2. ASSUME NEW l \in Logins, LoginStep(l) PROVE CapturedInv' /\ CodeIsOwn'
    <2>1. /\ process' = process /\ swapped' = swapped
          /\ \/ captured' = captured
             \/ captured' = [captured EXCEPT ![process[l]] = Nothing]
          /\ \A x \in Logins : x # l => pc'[x] = pc[x]
          /\ pc'[l] = "exchange" => captured' = captured /\ captured[process[l]].state = l
          /\ \/ code' = code
             \/ pc[l] = "exchange" /\ code' = [code EXCEPT ![l] = captured[process[l]].code]
      BY <1>2, StepCaptures DEF loginSetting
    <2>2. \A p \in Processes : captured'[p] = captured[p] \/ captured'[p] = Nothing
      BY <2>1 DEF LoginTypeOK
    <2>3. \A x \in Logins : process[x] \in Processes
      BY DEF SettingOK
    <2>4. Nothing.code = NoLogin /\ Nothing.state = NoLogin
      BY DEF Nothing
    <2>5. CapturedInv'
      BY <2>1, <2>2, <2>3, <2>4 DEF CapturedInv
    <2>6. CodeIsOwn'
      BY <2>1 DEF CodeIsOwn, CapturedInv, LoginTypeOK
    <2> QED
      BY <2>5, <2>6
  <1>3. ASSUME NEW k \in Logins, NEW c \in Logins \cup {NoLogin}, Capture(k, c),
               UNCHANGED <<loginSetting, pc, code>>
        PROVE  CapturedInv' /\ CodeIsOwn'
    <2>1. /\ swapped \subseteq swapped' /\ process' = process
          /\ \/ captured' = captured
             \/ captured' = [captured EXCEPT ![process[k]] = [code |-> c, state |-> c]]
          /\ c # NoLogin =>
               \A l \in Logins : process[l] = process[k] /\ pc[l] = "exchange" /\ l # c => l \in swapped'
      BY <1>3, Captures DEF loginSetting
    <2>2. \A p \in Processes : \/ captured'[p] = captured[p]
                               \/ p = process[k] /\ captured'[p] = [code |-> c, state |-> c]
      BY <2>1 DEF LoginTypeOK
    <2>3. \A x \in Logins : process[x] \in Processes
      BY DEF SettingOK
    <2>4. \A p \in Processes : captured'[p].code = captured'[p].state
      BY <2>2 DEF CapturedInv
    <2>5. ASSUME NEW x \in Logins, pc'[x] = "exchange", x \notin swapped'
          PROVE  captured'[process'[x]].code \in {x, NoLogin}
      <3>1. pc[x] = "exchange" /\ x \notin swapped /\ process'[x] = process[x]
        BY <1>3, <2>1, <2>5
      <3>2. captured[process[x]].code \in {x, NoLogin}
        BY <3>1 DEF CapturedInv
      <3>3. CASE captured'[process[x]] = captured[process[x]]
        BY <3>1, <3>2, <3>3
      <3>4. CASE process[x] = process[k] /\ captured'[process[x]] = [code |-> c, state |-> c]
        <4>1. c \in {x, NoLogin}
          BY <2>1, <2>5, <3>1, <3>4
        <4> QED
          BY <3>1, <3>4, <4>1
      <3> QED
        BY <2>2, <2>3, <3>3, <3>4
    <2>6. CapturedInv'
      BY <2>4, <2>5 DEF CapturedInv
    <2>7. CodeIsOwn'
      BY <1>3, <2>1 DEF CodeIsOwn
    <2> QED
      BY <2>6, <2>7
  <1>4. ASSUME NEW l \in Logins, Redirect(l) PROVE CapturedInv' /\ CodeIsOwn'
    BY <1>1, <1>3, <1>4 DEF Redirect, Listening, loginSetting
  <1>5. CASE ProbePort
    BY <1>3, <1>5 DEF ProbePort, Listening
  <1>6. ASSUME NEW l \in Logins, NeverReturns(l) PROVE CapturedInv' /\ CodeIsOwn'
    BY <1>1, <1>6 DEF NeverReturns
  <1>7. CASE UNCHANGED loginVars
    BY <1>1, <1>7 DEF loginVars, loginSetting
  <1> QED
    BY <1>2, <1>4, <1>5, <1>6, <1>7 DEF LoginNext

LEMMA AloneNext ==
  /\ SettingOK /\ LoginTypeOK /\ AbroadInv /\ AloneInv /\ [LoginNext]_loginVars
  => AloneInv'
  <1> SUFFICES ASSUME SettingOK, LoginTypeOK, AbroadInv, AloneInv, [LoginNext]_loginVars,
                      NEW x \in Logins, Client(x), x \in UnderWay', x \notin alien' \cup crowded'
               PROVE  /\ captured'[process[x]] \in {Nothing, [code |-> x, state |-> x]}
                      /\ pc'[x] = "compare" => captured'[process[x]].code = x
    <2>2. ASSUME SettingOK, LoginTypeOK, AbroadInv, AloneInv, [LoginNext]_loginVars
          PROVE  AloneInv'
      <3> SUFFICES ASSUME NEW x \in Logins, Client(x)', (x \in UnderWay)', (x \notin alien \cup crowded)'
                   PROVE  /\ (captured[process[x]] \in {Nothing, [code |-> x, state |-> x]})'
                          /\ (pc[x] = "compare" => captured[process[x]].code = x)'
        BY DEF AloneInv
      <3>1. process' = process /\ loginKind' = loginKind
        BY <2>2, SettingStays DEF loginSetting
      <3>2. Client(x)
        BY <3>1 DEF Client
      <3> QED
        BY <2>2, <3>1, <3>2 DEF Nothing
    <2> QED
      BY <2>2
  <1>0. process[x] \in Processes /\ x # NoLogin
    BY LoginAssumption DEF SettingOK
  <1>1. CASE /\ captured'[process[x]] = captured[process[x]] /\ pc'[x] = pc[x]
             /\ alien \subseteq alien' /\ crowded \subseteq crowded'
    BY <1>1 DEF AloneInv, UnderWay
  <1>2. CASE LoginStep(x)
    <2>1. CASE ClientStarts(x)
      BY <1>0, <2>1 DEF ClientStarts, Goes, LoginTypeOK
    <2>2. CASE /\ captured' = captured /\ alien' = alien /\ crowded \subseteq crowded'
               /\ x \in UnderWay
               /\ pc'[x] = "compare" => pc[x] = "compare" \/ captured[process[x]].code # NoLogin
      BY <2>2 DEF AloneInv, Nothing
    <2>3. crowded \subseteq crowded'
      BY <1>2, Places1
    <2>4. CASE BindPort(x) \/ ClientOpensBrowser(x) \/ ClientStopsWaiting(x)
               \/ CompareState(x) \/ ExchangeCode(x)
      BY <2>2, <2>3, <2>4 DEF BindPort, ClientOpensBrowser, ClientStopsWaiting, CompareState,
             ExchangeCode, Goes, LoginTypeOK, UnderWay
    <2>5. ~(DemoRegisters(x) \/ DemoOpensBrowser(x) \/ DemoStopsWaiting(x))
      BY DEF DemoRegisters, DemoOpensBrowser, DemoStopsWaiting, AbroadInv
    <2> QED
      BY <1>2, <2>1, <2>4, <2>5 DEF LoginStep
  <1>3. ASSUME NEW l \in Logins, l # x, LoginStep(l)
        PROVE  /\ captured'[process[x]] = captured[process[x]] /\ pc'[x] = pc[x]
               /\ alien \subseteq alien' /\ crowded \subseteq crowded'
    <2>1. pc'[x] = pc[x] /\ alien' = alien /\ x \in UnderWay
      BY <1>3, StepCaptures DEF UnderWay
    <2>2. ~ClientStarts(l)
      BY <1>3, <2>1 DEF ClientStarts, Goes
    <2> QED
      BY <1>3, <2>1, <2>2, StepCaptures, Places1
  <1>4. ASSUME NEW k \in Logins, NEW c \in Logins \cup {NoLogin}, Capture(k, c),
               UNCHANGED <<pc, crowded>>
        PROVE  /\ captured'[process[x]] \in {Nothing, [code |-> x, state |-> x]}
               /\ pc'[x] = "compare" => captured'[process[x]].code = x
    <2>1. /\ alien \subseteq alien' /\ x \in UnderWay
          /\ \/ captured' = captured
             \/ /\ captured' = [captured EXCEPT ![process[k]] = [code |-> c, state |-> c]]
                /\ c = NoLogin => ~Client(k)
          /\ c # NoLogin => \A l \in UnderWay : process[l] = process[k] /\ l # c => l \in alien'
      BY <1>4, Captures DEF UnderWay
    <2>2. CASE captured'[process[x]] = captured[process[x]]
      BY <1>1, <1>4, <2>1, <2>2
    <2>3. CASE captured'[process[x]] # captured[process[x]]
      <3>1. process[x] = process[k] /\ captured'[process[x]] = [code |-> c, state |-> c]
            /\ (c = NoLogin => ~Client(k))
        BY <1>0, <2>1, <2>3 DEF LoginTypeOK
      <3>2. c # NoLogin
        BY <3>1 DEF SettingOK, Client
      <3>3. c = x
        BY <2>1, <3>1, <3>2
      <3> QED
        BY <3>1, <3>3
    <2> QED
      BY <2>2, <2>3
  <1>5. ASSUME NEW l \in Logins, Redirect(l)
        PROVE  \/ UNCHANGED <<pc, crowded, captured, alien>>
               \/ \E k \in Logins : Capture(k, l) /\ UNCHANGED <<pc, crowded>>
    BY <1>5 DEF Redirect, Listening
  <1>6. CASE ProbePort
    BY <1>4, <1>6 DEF ProbePort, Listening
  <1>7. CASE UNCHANGED loginVars \/ \E l \in Logins : NeverReturns(l)
    BY <1>1, <1>7 DEF loginVars, NeverReturns
  <1> QED
    BY <1>1, <1>2, <1>3, <1>4, <1>5, <1>6, <1>7 DEF LoginNext

(* A redirect is not lost while its login waits, and reaches that login:     *)
(* whatever else shares the port or the process (mcp_client.py:51-276).    *)
THEOREM RedirectsReachTheirLogins == LoginSpec => []RedirectReachesItsLogin
  <1>1. LoginInv /\ [LoginNext]_loginVars => LoginInv'
    BY SettingNext, LoginTypes, AbroadNext, CapturedNext, AloneNext DEF LoginInv
  <1>2. LoginInv => LoneLoginMatches
    <2> SUFFICES ASSUME LoginInv, NEW l \in Logins,
                        pc[l] = "compare" /\ Client(l) /\ l \notin alien \cup crowded
                 PROVE  captured[process[l]] = [code |-> l, state |-> l]
      BY DEF LoneLoginMatches
    <2>1. l \in UnderWay /\ l # NoLogin
      BY LoginAssumption DEF UnderWay
    <2> QED
      BY <2>1 DEF LoginInv, AloneInv, Nothing
  <1>3. LoginInv => RedirectReachesItsLogin
    BY <1>2 DEF LoginInv, RedirectReachesItsLogin
  <1> QED
    BY LoginInitInv, <1>1, <1>3, PTL DEF LoginSpec

(* Stages, captures and histories have their types (mcp_client.py).        *)
THEOREM LoginTypeCorrect == LoginSpec => []LoginTypeOK
  <1>1. LoginInv /\ [LoginNext]_loginVars => LoginInv'
    BY SettingNext, LoginTypes, AbroadNext, CapturedNext, AloneNext DEF LoginInv
  <1>2. LoginInv => LoginTypeOK
    BY DEF LoginInv
  <1> QED
    BY LoginInitInv, <1>1, <1>2, PTL DEF LoginSpec

=============================================================================
