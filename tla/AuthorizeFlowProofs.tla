------------------------- MODULE AuthorizeFlowProofs -------------------------
(***************************************************************************)
(* Proofs about AuthorizeFlow, for any number of browsers, tabs, clients,   *)
(* providers and token requests and for any lifetimes: its types, what a    *)
(* registration promises, and to whom a code is given.                      *)
(***************************************************************************)
EXTENDS AuthorizeFlow, FiniteSetTheorems, TLAPS

-----------------------------------------------------------------------------
(* Types.                                                                  *)

LEMMA FlowTtl ==
  /\ ClientTtl \in Nat /\ ClientTtl > 0 /\ StateTtl \in Nat /\ StateTtl > 0
  /\ NonceTtl \in Nat /\ NonceTtl > 0 /\ ConsentTtl \in Nat /\ ConsentTtl > 0
  /\ MaxFlowClock \in Nat
  BY FlowAssumption

\* How many states were issued is a number.
LEMMA SentCount == IsFiniteSet(Sent) /\ Cardinality(Sent) \in Nat
  <1>1. Sent \subseteq Flows
    BY DEF Sent
  <1> QED
    BY <1>1, FlowAssumption, FS_Subset, FS_CardinalityType

LEMMA AuthorizeInitTypes == AuthorizeInit => AuthorizeTypeOK
  <1> SUFFICES ASSUME AuthorizeInit PROVE AuthorizeTypeOK
    OBVIOUS
  <1>1. RegistryTypes
    BY DEF AuthorizeInit, RegistryTypes
  <1>2. CookieTypes
    BY DEF AuthorizeInit, CookieTypes, CookieKeys
  <1>3. TabTypes
    BY DEF AuthorizeInit, TabTypes, Tabs, Sent
  <1>4. AuthTypes
    BY DEF AuthorizeInit, AuthTypes
  <1> QED
    BY <1>1, <1>2, <1>3, <1>4 DEF AuthorizeTypeOK

\* What an action leaves alone keeps its types.
LEMMA UntouchedTypes ==
  /\ RegistryTypes /\ UNCHANGED <<flowClock, server, sliding, registryVars>> => RegistryTypes'
  /\ CookieTypes /\ UNCHANGED <<cookieVars, approvals>> => CookieTypes'
  /\ TabTypes /\ UNCHANGED tabVars => TabTypes'
  /\ AuthTypes /\ UNCHANGED authVars => AuthTypes'
  BY DEF RegistryTypes, CookieTypes, TabTypes, AuthTypes, Sent, registryVars, cookieVars,
         tabVars, authVars

\* Steps of the registrations and of the clock.
LEMMA RegistryStepTypes ==
  ASSUME AuthorizeTypeOK,
         \/ \E c \in RegClients : RegisterHashes(c) \/ RegisterStores(c) \/ RegisterFails(c)
         \/ \E s \in Servers : Rollout(s)
         \/ FlowTick
  PROVE  AuthorizeTypeOK'
  <1>1. RegistryTypes'
    BY FlowTtl DEF AuthorizeTypeOK, RegistryTypes, RegisterHashes, RegisterStores,
                   RegisterFails, Rollout, FlowTick, registryVars
  <1>2. UNCHANGED <<cookieVars, approvals>> /\ UNCHANGED tabVars /\ UNCHANGED authVars
    BY DEF RegisterHashes, RegisterStores, RegisterFails, Rollout, FlowTick
  <1> QED
    BY <1>1, <1>2, UntouchedTypes DEF AuthorizeTypeOK

\* Steps of the token requests.
LEMMA AuthStepTypes ==
  ASSUME AuthorizeTypeOK, NEW a \in Auths,
         \/ \E c \in RegClients : FetchClient(a, c)
         \/ CompareSecret(a)
         \/ RefreshClient(a)
  PROVE  AuthorizeTypeOK'
  <1>1. UNCHANGED <<cookieVars, approvals>> /\ UNCHANGED tabVars
    BY DEF FetchClient, CompareSecret, RefreshClient
  <1>2. RegistryTypes'
    BY FlowTtl DEF AuthorizeTypeOK, RegistryTypes, FetchClient, CompareSecret, RefreshClient,
                   Pexpire, registryVars
  <1>3. CASE \E c \in RegClients : FetchClient(a, c)
    BY <1>1, <1>2, <1>3, UntouchedTypes
    DEF AuthorizeTypeOK, RegistryTypes, AuthTypes, FetchClient, AuthStep
  <1>4. CASE CompareSecret(a)
    BY <1>1, <1>2, <1>4, UntouchedTypes DEF AuthorizeTypeOK, AuthTypes, CompareSecret, AuthStep
  <1>5. CASE RefreshClient(a)
    BY <1>1, <1>2, <1>5, UntouchedTypes
    DEF AuthorizeTypeOK, RegistryTypes, AuthTypes, RefreshClient, AuthStep
  <1> QED
    BY <1>3, <1>4, <1>5

\* An action that only moves a tab on, without a state, or with the one it has.
LEMMA MoveTypes ==
  ASSUME TabTypes, NEW f \in Flows, NEW from \in Tabs \ {"new"}, NEW to \in Tabs,
         Move(f, from, to), UNCHANGED <<asked, issued, called>>,
         to \in {"consent", "failed", "asked"} \/ f \in Sent,
         to \in {"callback", "code", "refused"} => from = "callback"
  PROVE  TabTypes'
  BY DEF TabTypes, Tabs, Move, Sent
LEMMA AuthorizeNextTypes == AuthorizeTypeOK /\ [AuthorizeNext]_flowVars => AuthorizeTypeOK'
  <1> SUFFICES ASSUME AuthorizeTypeOK, [AuthorizeNext]_flowVars PROVE AuthorizeTypeOK'
    OBVIOUS
  <1>1. CASE UNCHANGED flowVars
    BY <1>1, UntouchedTypes DEF AuthorizeTypeOK, flowVars
  <1>2. ASSUME NEW f \in Flows, NEW b \in Browsers, NEW c \in RegClients, NEW r \in BOOLEAN,
               Begin(f, b, c, r)
        PROVE  AuthorizeTypeOK'
    <2>1. [browser |-> b, client |-> c, registered |-> r, at |-> server,
           consents |-> Consents(b, c), since |-> flowClock] \in Request
      BY DEF AuthorizeTypeOK, RegistryTypes, Request, Consents
    <2>2. TabTypes'
      BY <1>2, <2>1 DEF Begin, Move, Sent, AuthorizeTypeOK, TabTypes, Tabs
    <2> QED
      BY <1>2, <2>2, UntouchedTypes DEF Begin, AuthorizeTypeOK
  <1>3. ASSUME NEW f \in Flows,
               \/ RefuseAuthorize(f) \/ RenderConsent(f) \/ Deny(f)
               \/ ProviderRefuses(f) \/ FinishFlow(f)
        PROVE  AuthorizeTypeOK'
    <2>1. PICK from \in Tabs \ {"new"}, to \in Tabs :
            /\ Move(f, from, to)
            /\ to \in {"consent", "failed", "asked"} \/ f \in Sent
            /\ to \in {"callback", "code", "refused"} => from = "callback"
      BY <1>3 DEF RefuseAuthorize, RenderConsent, Deny, ProviderRefuses, FinishFlow, Move,
                  Tabs, Sent
    <2>2. UNCHANGED <<asked, issued, called>>
      BY <1>3 DEF RefuseAuthorize, RenderConsent, Deny, ProviderRefuses, FinishFlow
    <2>3. TabTypes'
      BY <2>1, <2>2, MoveTypes DEF AuthorizeTypeOK
    <2> QED
      BY <1>3, <2>3, UntouchedTypes
      DEF RefuseAuthorize, RenderConsent, Deny, ProviderRefuses, FinishFlow, AuthorizeTypeOK
  <1>4. ASSUME NEW f \in Flows, RedirectToProvider(f) PROVE AuthorizeTypeOK'
    <2>1. asked[f] \in Request
      BY <1>4 DEF RedirectToProvider, Move, AuthorizeTypeOK, TabTypes
    <2>2. [provider |-> asked[f].at.provider, scope |-> asked[f].at.scope,
           since |-> flowClock, turn |-> Cardinality(Sent)] \in State
      BY <2>1, SentCount DEF Request, Servers, State, AuthorizeTypeOK, RegistryTypes
    <2>3. flowClock + NonceTtl \in Nat
      BY FlowTtl DEF AuthorizeTypeOK, RegistryTypes
    <2>4. CookieTypes'
      BY <1>4, <2>1, <2>3 DEF RedirectToProvider, SetNonce, FlowKey, CookieKeys, Request, Servers,
                       AuthorizeTypeOK, CookieTypes
    <2>5. TabTypes'
      BY <1>4, <2>1, <2>2 DEF RedirectToProvider, Move, Sent, AuthorizeTypeOK, TabTypes, Tabs
    <2> QED
      BY <1>4, <2>4, <2>5, UntouchedTypes DEF RedirectToProvider, AuthorizeTypeOK
  <1>5. ASSUME NEW f \in Flows, Approve(f) PROVE AuthorizeTypeOK'
    <2>1. asked[f] \in Request
      BY <1>5 DEF Approve, Move, AuthorizeTypeOK, TabTypes
    <2>2. flowClock \in Nat /\ server \in Servers /\ flowClock + ConsentTtl \in Nat
      BY FlowTtl DEF AuthorizeTypeOK, RegistryTypes
    <2>3. asked[f].browser \in Browsers /\ asked[f].client \in RegClients
          /\ asked[f].registered \in BOOLEAN /\ server.provider \in AuthProviders
      BY <2>1, <2>2 DEF Request, Servers
    <2>4. [browser |-> asked[f].browser, client |-> asked[f].client,
           registered |-> asked[f].registered, at |-> server,
           consents |-> Consents(asked[f].browser, asked[f].client) \cup {server.provider},
           since |-> flowClock] \in Request
      BY <2>2, <2>3 DEF Request, Consents
    <2> DEFINE b == asked[f].browser
               key == <<server.provider, asked[f].client>>
    <2>5. key \in CookieKeys
      BY <2>3 DEF CookieKeys
    <2>6. consent' = [consent EXCEPT ![b][key] = flowClock + ConsentTtl]
          /\ nonce' = nonce
          /\ approvals' = approvals \cup {<<b, server.provider, asked[f].client, flowClock>>}
      BY <1>5 DEF Approve
    <2>7. approvals' \subseteq Browsers \X AuthProviders \X RegClients \X Nat
      BY <2>2, <2>3, <2>6 DEF AuthorizeTypeOK, CookieTypes
    <2>8. consent' \in [Browsers -> [CookieKeys -> Nat]]
      <3> HIDE DEF key
      <3> QED
        BY <2>2, <2>3, <2>5, <2>6 DEF AuthorizeTypeOK, CookieTypes
    <2>9. CookieTypes'
      BY <2>6, <2>7, <2>8 DEF AuthorizeTypeOK, CookieTypes, CookieKeys
    <2>10. TabTypes'
      BY <1>5, <2>4 DEF Approve, Move, Sent, AuthorizeTypeOK, TabTypes, Tabs
    <2> QED
      BY <1>5, <2>9, <2>10, UntouchedTypes DEF Approve, AuthorizeTypeOK
  <1>6. ASSUME NEW f \in Flows, NEW b \in Browsers, LogIn(f, b) PROVE AuthorizeTypeOK'
    <2>1. tab[f] = "provider" /\ asked[f] \in Request /\ issued[f] \in State
      BY <1>6 DEF LogIn, Move, Sent, AuthorizeTypeOK, TabTypes
    <2> DEFINE cookie == nonce[b][<<issued[f].provider, asked[f].client>>]
    <2>2. cookie \in [flow : Flows \cup {NoFlow}, lapse : Nat]
      BY <2>1 DEF Request, State, CookieKeys, AuthorizeTypeOK, CookieTypes
    <2>3. [landed |-> b, since |-> flowClock, at |-> server,
           nonce |-> IF cookie.lapse > flowClock THEN cookie.flow ELSE NoFlow,
           heard |-> Cardinality(Sent)] \in Callback
      BY <2>2, SentCount DEF Callback, AuthorizeTypeOK, RegistryTypes
    <2>4. TabTypes'
      BY <1>6, <2>1, <2>3 DEF LogIn, Move, Sent, AuthorizeTypeOK, TabTypes, Tabs
    <2> QED
      BY <1>6, <2>4, UntouchedTypes DEF LogIn, AuthorizeTypeOK
  <1>7. CASE \/ \E c \in RegClients : RegisterHashes(c) \/ RegisterStores(c) \/ RegisterFails(c)
             \/ \E s \in Servers : Rollout(s)
             \/ FlowTick
    BY <1>7, RegistryStepTypes
  <1>8. ASSUME NEW a \in Auths,
               (\E c \in RegClients : FetchClient(a, c)) \/ CompareSecret(a) \/ RefreshClient(a)
        PROVE  AuthorizeTypeOK'
    BY <1>8, AuthStepTypes
  <1> QED
    BY <1>1, <1>2, <1>3, <1>4, <1>5, <1>6, <1>7, <1>8 DEF AuthorizeNext

(* Registrations, cookies, states and callbacks have their types, and every *)
(* stage has what it needs (oauth.ts, callback.ts, dcr.ts).                *)
THEOREM AuthorizeTypeCorrect == AuthorizeSpec => []AuthorizeTypeOK
  BY AuthorizeInitTypes, AuthorizeNextTypes, PTL DEF AuthorizeSpec

-----------------------------------------------------------------------------
(* Registrations.                                                          *)

\* No key outlives a client_ttl from now, and none lapses before what its client was told.
RegistryInv ==
  /\ \A c \in RegClients :
       /\ lapse[c] <= flowClock + ClientTtl
       /\ regStage[c] = "hashed" => told[c] <= flowClock + ClientTtl
       /\ regStage[c] = "registered" => told[c] <= lapse[c]

\* The life of a registration as its users left it: a use that found the key keeps finding
\* it until it is compared, and leaves it with a whole life or lapsed.
AuthInv ==
  \A a \in Auths :
    /\ auth[a] # "new" => regStage[fetched[a].client] = "registered"
    /\ auth[a] \in {"comparing", "refreshing"} => fetched[a].since < lapse[fetched[a].client]
    /\ auth[a] = "accepted" /\ sliding =>
         LET c == fetched[a].client
         IN  /\ refreshed[a] <= flowClock
             /\ \/ lapse[c] >= refreshed[a] + ClientTtl
                \/ fetched[a].since < lapse[c] /\ lapse[c] <= refreshed[a]

LEMMA RegistryInitInv == AuthorizeInit => RegistryInv /\ AuthInv
  BY FlowTtl DEF AuthorizeInit, RegistryInv, AuthInv

LEMMA ClockMoves ==
  ASSUME RegistryTypes, [AuthorizeNext]_flowVars
  PROVE  flowClock' \in Nat /\ flowClock <= flowClock' /\ sliding' = sliding
  <1>1. CASE FlowTick
    BY <1>1 DEF FlowTick, RegistryTypes
  <1>2. CASE ~FlowTick
    <2>1. UNCHANGED <<flowClock, sliding>>
      BY <1>2 DEF AuthorizeNext, flowVars, RegisterHashes, RegisterStores, RegisterFails,
             FetchClient, CompareSecret, RefreshClient, Begin, RefuseAuthorize, RenderConsent,
             RedirectToProvider, Approve, Deny, ProviderRefuses, FinishFlow, LogIn, Rollout
    <2> QED
      BY <2>1 DEF RegistryTypes
  <1> QED
    BY <1>1, <1>2

\* What a step does to one registration: a step of its own, or PEXPIRE at most.
LEMMA RegistryMoves ==
  ASSUME AuthorizeTypeOK, [AuthorizeNext]_flowVars, NEW c \in RegClients
  PROVE  /\ flowClock' \in Nat /\ flowClock <= flowClock' /\ sliding' = sliding
         /\ \/ RegisterHashes(c) \/ RegisterStores(c) \/ RegisterFails(c)
            \/ /\ regStage'[c] = regStage[c] /\ told'[c] = told[c]
               /\ \/ lapse'[c] = lapse[c]
                  \/ flowClock < lapse[c] /\ lapse'[c] = flowClock + ClientTtl /\ flowClock' = flowClock
  <1> DEFINE Goal ==
        /\ flowClock' \in Nat /\ flowClock <= flowClock' /\ sliding' = sliding
        /\ \/ RegisterHashes(c) \/ RegisterStores(c) \/ RegisterFails(c)
           \/ /\ regStage'[c] = regStage[c] /\ told'[c] = told[c]
              /\ \/ lapse'[c] = lapse[c]
                 \/ flowClock < lapse[c] /\ lapse'[c] = flowClock + ClientTtl /\ flowClock' = flowClock
  <1>0. RegistryTypes
    BY DEF AuthorizeTypeOK
  <1>1. CASE UNCHANGED flowVars
    BY <1>0, <1>1 DEF flowVars, registryVars, RegistryTypes
  <1>2. ASSUME NEW d \in RegClients, RegisterHashes(d) \/ RegisterStores(d) \/ RegisterFails(d)
        PROVE  Goal
    <2>1. CASE d = c
      BY <1>0, <1>2, <2>1 DEF RegisterHashes, RegisterStores, RegisterFails, RegistryTypes
    <2>2. CASE d # c
      BY <1>0, <1>2, <2>2 DEF RegisterHashes, RegisterStores, RegisterFails, RegistryTypes
    <2> QED
      BY <2>1, <2>2
  <1>3. CASE FlowTick \/ \E s \in Servers : Rollout(s)
    BY <1>0, <1>3 DEF Rollout, FlowTick, registryVars, RegistryTypes
  <1>4. ASSUME NEW a \in Auths, RefreshClient(a) PROVE Goal
    <2>1. /\ UNCHANGED <<flowClock, sliding, regStage, told>>
          /\ \/ lapse'[c] = lapse[c]
             \/ flowClock < lapse[c] /\ lapse'[c] = flowClock + ClientTtl
      <3> DEFINE d == fetched[a].client
      <3>1. lapse' = [lapse EXCEPT ![d] = IF flowClock < lapse[d] THEN flowClock + ClientTtl
                                                                  ELSE lapse[d]]
            /\ UNCHANGED <<flowClock, sliding, regStage, told>>
        BY <1>4 DEF RefreshClient, Pexpire, InRedis
      <3> HIDE DEF d
      <3> QED
        BY <1>0, <3>1 DEF RegistryTypes
    <2> QED
      BY <1>0, <2>1 DEF RegistryTypes
  <1>5. CASE /\ AuthorizeNext
             /\ ~(FlowTick \/ \E s \in Servers : Rollout(s))
             /\ ~\E d \in RegClients : RegisterHashes(d) \/ RegisterStores(d) \/ RegisterFails(d)
             /\ ~\E a \in Auths : RefreshClient(a)
    <2>1. UNCHANGED <<flowClock, sliding, regStage, told, lapse>>
      BY <1>5 DEF AuthorizeNext, FetchClient, CompareSecret, RefuseAuthorize, RenderConsent,
                  RedirectToProvider, Approve, Deny, ProviderRefuses, FinishFlow, LogIn, Begin,
                  registryVars
    <2> QED
      BY <1>0, <2>1 DEF RegistryTypes
  <1>6. [AuthorizeNext]_flowVars <=> AuthorizeNext \/ UNCHANGED flowVars
    OBVIOUS
  <1>7. CASE \E d \in RegClients : RegisterHashes(d) \/ RegisterStores(d) \/ RegisterFails(d)
    BY <1>2, <1>7
  <1>8. CASE \E a \in Auths : RefreshClient(a)
    BY <1>4, <1>8
  <1> QED
    BY <1>1, <1>3, <1>5, <1>6, <1>7, <1>8

LEMMA RegistryNextInv ==
  AuthorizeTypeOK /\ RegistryInv /\ [AuthorizeNext]_flowVars => RegistryInv'
  <1> SUFFICES ASSUME AuthorizeTypeOK, RegistryInv, [AuthorizeNext]_flowVars,
                      NEW c \in RegClients
               PROVE  /\ lapse'[c] <= flowClock' + ClientTtl
                      /\ regStage'[c] = "hashed" => told'[c] <= flowClock' + ClientTtl
                      /\ regStage'[c] = "registered" => told'[c] <= lapse'[c]
    BY DEF RegistryInv
  <1>1. RegistryTypes
    BY DEF AuthorizeTypeOK
  <1>2. CASE RegisterHashes(c) \/ RegisterStores(c) \/ RegisterFails(c)
    BY <1>1, <1>2, FlowTtl DEF RegisterHashes, RegisterStores, RegisterFails, RegistryInv, RegistryTypes
  <1>3. CASE ~(RegisterHashes(c) \/ RegisterStores(c) \/ RegisterFails(c))
    BY <1>1, <1>3, RegistryMoves, FlowTtl DEF RegistryInv, RegistryTypes
  <1> QED
    BY <1>2, <1>3

LEMMA AuthNextInv ==
  AuthorizeTypeOK /\ RegistryInv /\ AuthInv /\ [AuthorizeNext]_flowVars => AuthInv'
  <1> SUFFICES ASSUME AuthorizeTypeOK, RegistryInv, AuthInv, [AuthorizeNext]_flowVars,
                      NEW a \in Auths
               PROVE  /\ auth'[a] # "new" => regStage'[fetched'[a].client] = "registered"
                      /\ auth'[a] \in {"comparing", "refreshing"} =>
                           fetched'[a].since < lapse'[fetched'[a].client]
                      /\ auth'[a] = "accepted" /\ sliding' =>
                           LET c == fetched'[a].client
                           IN  /\ refreshed'[a] <= flowClock'
                               /\ \/ lapse'[c] >= refreshed'[a] + ClientTtl
                                  \/ fetched'[a].since < lapse'[c] /\ lapse'[c] <= refreshed'[a]
    BY DEF AuthInv
  <1> DEFINE Goal(x) ==
        /\ auth'[x] # "new" => regStage'[fetched'[x].client] = "registered"
        /\ auth'[x] \in {"comparing", "refreshing"} =>
             fetched'[x].since < lapse'[fetched'[x].client]
        /\ auth'[x] = "accepted" /\ sliding' =>
             LET c == fetched'[x].client
             IN  /\ refreshed'[x] <= flowClock'
                 /\ \/ lapse'[c] >= refreshed'[x] + ClientTtl
                    \/ fetched'[x].since < lapse'[c] /\ lapse'[c] <= refreshed'[x]
  <1>0. RegistryTypes /\ AuthTypes /\ AuthTypes' /\ RegistryTypes'
    BY AuthorizeNextTypes DEF AuthorizeTypeOK
  <1>1. ASSUME NEW c \in RegClients, regStage[c] = "registered"
        PROVE  /\ regStage'[c] = "registered"
               /\ \/ lapse'[c] = lapse[c]
                  \/ /\ flowClock < lapse[c] /\ lapse'[c] = flowClock + ClientTtl
                     /\ lapse'[c] >= lapse[c]
    BY <1>0, <1>1, RegistryMoves, FlowTtl
    DEF RegisterHashes, RegisterStores, RegisterFails, RegistryInv, RegistryTypes
  <1>2. flowClock <= flowClock' /\ sliding' = sliding
    BY ClockMoves DEF AuthorizeTypeOK
  <1>3. CASE auth'[a] = auth[a] /\ fetched'[a] = fetched[a] /\ refreshed'[a] = refreshed[a]
    <2>1. CASE auth[a] = "new"
      BY <1>3, <2>1
    <2>2. CASE auth[a] # "new"
      <3>1. fetched[a].client \in RegClients /\ fetched[a].since \in Nat /\ refreshed[a] \in Nat
            /\ regStage[fetched[a].client] = "registered"
        BY <1>0, <2>2 DEF AuthTypes, AuthInv
      <3> DEFINE c == fetched[a].client
      <3>2. /\ regStage'[c] = "registered"
            /\ lapse[c] \in Nat /\ flowClock \in Nat /\ flowClock' \in Nat
            /\ \/ lapse'[c] = lapse[c]
               \/ /\ flowClock < lapse[c] /\ lapse'[c] = flowClock + ClientTtl
                  /\ lapse'[c] >= lapse[c]
        BY <1>0, <1>1, <3>1 DEF RegistryTypes
      <3>3. auth[a] \in {"comparing", "refreshing"} => fetched[a].since < lapse[c]
        BY DEF AuthInv
      <3>4. auth[a] = "accepted" /\ sliding =>
              /\ refreshed[a] <= flowClock
              /\ \/ lapse[c] >= refreshed[a] + ClientTtl
                 \/ fetched[a].since < lapse[c] /\ lapse[c] <= refreshed[a]
        BY DEF AuthInv
      <3>5. fetched[a].since \in Nat /\ refreshed[a] \in Nat
        BY <3>1
      <3> HIDE DEF c
      <3>6. /\ regStage'[c] = "registered"
            /\ auth[a] \in {"comparing", "refreshing"} => fetched[a].since < lapse'[c]
            /\ auth[a] = "accepted" /\ sliding =>
                 /\ refreshed[a] <= flowClock'
                 /\ \/ lapse'[c] >= refreshed[a] + ClientTtl
                    \/ fetched[a].since < lapse'[c] /\ lapse'[c] <= refreshed[a]
        BY <1>2, <3>2, <3>3, <3>4, <3>5, FlowTtl
      <3> QED
        BY <1>2, <1>3, <3>6 DEF c
    <2> QED
      BY <2>1, <2>2
  <1>4. ASSUME NEW c \in RegClients, FetchClient(a, c) PROVE Goal(a)
    BY <1>0, <1>4 DEF FetchClient, AuthStep, InRedis, AuthTypes, RegistryTypes, registryVars
  <1>5. CASE CompareSecret(a)
    BY <1>0, <1>5 DEF CompareSecret, AuthStep, AuthTypes, RegistryTypes, registryVars, AuthInv
  <1>6. CASE RefreshClient(a)
    BY <1>0, <1>6, FlowTtl
    DEF RefreshClient, AuthStep, Pexpire, InRedis, AuthTypes, RegistryTypes, registryVars, AuthInv
  <1>7. CASE ~((\E c \in RegClients : FetchClient(a, c)) \/ CompareSecret(a) \/ RefreshClient(a))
    <2>1. auth'[a] = auth[a] /\ fetched'[a] = fetched[a] /\ refreshed'[a] = refreshed[a]
      <3>1. CASE UNCHANGED authVars
        BY <3>1 DEF authVars
      <3>2. ASSUME NEW x \in Auths, x # a,
                   (\E c \in RegClients : FetchClient(x, c)) \/ CompareSecret(x) \/ RefreshClient(x)
            PROVE  auth'[a] = auth[a] /\ fetched'[a] = fetched[a] /\ refreshed'[a] = refreshed[a]
        BY <1>0, <3>2 DEF FetchClient, CompareSecret, RefreshClient, AuthStep, AuthTypes
      <3>3. UNCHANGED authVars
            \/ \E x \in Auths : (\E c \in RegClients : FetchClient(x, c))
                                 \/ CompareSecret(x) \/ RefreshClient(x)
        BY DEF AuthorizeNext, flowVars, RegisterHashes, RegisterStores, RegisterFails, Begin,
               RefuseAuthorize, RenderConsent, RedirectToProvider, Approve, Deny,
               ProviderRefuses, FinishFlow, LogIn, Rollout, FlowTick
      <3> QED
        BY <1>7, <3>1, <3>2, <3>3
    <2> QED
      BY <1>3, <2>1
  <1> QED
    BY <1>4, <1>5, <1>6, <1>7

(* The expiry a client was told is honoured, and a use that found its       *)
(* registration in time extends it by a whole life (dcr.ts:103-208).       *)
THEOREM RegistrationsKeepTheirWord == AuthorizeSpec => []RegistrationKeepsItsWord
  <1>1. AuthorizeInit => AuthorizeTypeOK /\ RegistryInv /\ AuthInv
    BY AuthorizeInitTypes, RegistryInitInv
  <1>2. AuthorizeTypeOK /\ RegistryInv /\ AuthInv /\ [AuthorizeNext]_flowVars
        => (AuthorizeTypeOK /\ RegistryInv /\ AuthInv)'
    BY AuthorizeNextTypes, RegistryNextInv, AuthNextInv
  <1>3. AuthorizeTypeOK /\ RegistryInv /\ AuthInv => RegistrationKeepsItsWord
    BY DEF AuthorizeTypeOK, RegistryTypes, RegistryInv, AuthInv, RegistrationKeepsItsWord, InRedis
  <1> QED
    BY <1>1, <1>2, <1>3, PTL DEF AuthorizeSpec

-----------------------------------------------------------------------------
(* Consent.                                                                *)

\* This person approved the client at the provider, and at instant `at` still did.
ApprovedAt(given, b, p, c, at) ==
  \E t \in Nat : t <= at /\ at < t + ConsentTtl /\ <<b, p, c, t>> \in given

\* A consent cookie comes of an approval, so does the consent of every request, and only
\* a request with consent for a client in Redis gets a state.
CookieInv ==
  \A b \in Browsers, p \in AuthProviders, c \in RegClients :
    consent[b][<<p, c>>] > 0 =>
      \E t \in Nat : /\ t <= flowClock /\ consent[b][<<p, c>>] = t + ConsentTtl
                     /\ <<b, p, c, t>> \in approvals

AskedInv ==
  \A f \in Flows : tab[f] # "new" =>
    /\ regStage[asked[f].client] = "registered"
    /\ \A p \in asked[f].consents :
         ApprovedAt(approvals, asked[f].browser, p, asked[f].client, asked[f].since)

SentInv ==
  \A f \in Sent :
    /\ issued[f].provider \in asked[f].consents /\ asked[f].registered
    /\ issued[f].since < lapse[asked[f].client]

LEMMA ConsentInitInv == AuthorizeInit => CookieInv /\ AskedInv /\ SentInv
  BY DEF AuthorizeInit, CookieInv, AskedInv, SentInv, Sent, CookieKeys

LEMMA Approves ==
  ASSUME AuthorizeTypeOK, NEW f \in Flows, Approve(f)
  PROVE  /\ asked[f] \in Request /\ server \in Servers
         /\ asked[f].browser \in Browsers /\ asked[f].client \in RegClients
         /\ server.provider \in AuthProviders
         /\ <<server.provider, asked[f].client>> \in CookieKeys
  BY DEF Approve, Move, AuthorizeTypeOK, TabTypes, RegistryTypes, Request, Servers, CookieKeys

\* A consent cookie is only set by an approval, and no approval is forgotten.
LEMMA ConsentMoves ==
  ASSUME [AuthorizeNext]_flowVars
  PROVE  /\ approvals \subseteq approvals'
         /\ (~\E f \in Flows : Approve(f)) => UNCHANGED <<consent, approvals>>
  <1>1. CASE \E f \in Flows : Approve(f)
    BY <1>1 DEF Approve
  <1>2. CASE ~\E f \in Flows : Approve(f)
    BY <1>2 DEF AuthorizeNext, flowVars, cookieVars, RegisterHashes, RegisterStores,
         RegisterFails, FetchClient, CompareSecret, RefreshClient, Begin, RefuseAuthorize,
         RenderConsent, RedirectToProvider, Deny, ProviderRefuses, FinishFlow, LogIn,
         Rollout, FlowTick
  <1> QED
    BY <1>1, <1>2

LEMMA CookieNextInv ==
  AuthorizeTypeOK /\ CookieInv /\ [AuthorizeNext]_flowVars => CookieInv'
  <1> SUFFICES ASSUME AuthorizeTypeOK, CookieInv, [AuthorizeNext]_flowVars,
                      NEW b \in Browsers, NEW p \in AuthProviders, NEW c \in RegClients,
                      consent'[b][<<p, c>>] > 0
               PROVE  \E t \in Nat : /\ t <= flowClock' /\ consent'[b][<<p, c>>] = t + ConsentTtl
                                     /\ <<b, p, c, t>> \in approvals'
    BY DEF CookieInv
  <1>1. RegistryTypes /\ CookieTypes /\ flowClock \in Nat
    BY DEF AuthorizeTypeOK, RegistryTypes
  <1>2. flowClock' \in Nat /\ flowClock <= flowClock'
    BY <1>1, ClockMoves
  <1>3. CASE consent'[b][<<p, c>>] = consent[b][<<p, c>>]
    BY <1>1, <1>2, <1>3, ConsentMoves DEF CookieInv
  <1>4. ASSUME NEW f \in Flows, Approve(f), consent'[b][<<p, c>>] # consent[b][<<p, c>>]
        PROVE  /\ consent'[b][<<p, c>>] = flowClock + ConsentTtl
               /\ <<b, p, c, flowClock>> \in approvals'
    <2> DEFINE d == asked[f].browser
               e == asked[f].client
               key == <<server.provider, e>>
    <2>1. /\ consent' = [consent EXCEPT ![d][key] = flowClock + ConsentTtl]
          /\ approvals' = approvals \cup {<<d, server.provider, e, flowClock>>}
      BY <1>4 DEF Approve
    <2>2. d \in Browsers /\ key \in CookieKeys /\ <<p, c>> \in CookieKeys
      BY <1>4, Approves DEF CookieKeys
    <2>3. b = d /\ <<p, c>> = key /\ consent'[b][<<p, c>>] = flowClock + ConsentTtl
      <3> HIDE DEF d, key
      <3> QED
        BY <1>1, <1>4, <2>1, <2>2 DEF CookieTypes
    <2>4. p = server.provider /\ c = e
      BY <2>3
    <2> QED
      BY <2>1, <2>3, <2>4
  <1>5. CASE \E f \in Flows : Approve(f)
    BY <1>1, <1>2, <1>3, <1>4, <1>5
  <1> QED
    BY <1>3, <1>5, ConsentMoves

\* A step of tab f.
StepOf(f) ==
  \/ \E b \in Browsers, c \in RegClients, r \in BOOLEAN : Begin(f, b, c, r)
  \/ RefuseAuthorize(f) \/ RenderConsent(f) \/ RedirectToProvider(f)
  \/ Approve(f) \/ Deny(f) \/ ProviderRefuses(f) \/ FinishFlow(f)
  \/ \E b \in Browsers : LogIn(f, b)

\* A tab is moved by its own steps.
LEMMA TabMoves ==
  ASSUME TabTypes, [AuthorizeNext]_flowVars, NEW f \in Flows
  PROVE  \/ StepOf(f)
         \/ /\ tab'[f] = tab[f] /\ asked'[f] = asked[f]
            /\ issued'[f] = issued[f] /\ called'[f] = called[f]
  <1>1. ASSUME NEW g \in Flows, StepOf(g), g # f
        PROVE  /\ tab'[f] = tab[f] /\ asked'[f] = asked[f]
               /\ issued'[f] = issued[f] /\ called'[f] = called[f]
    BY <1>1 DEF StepOf, TabTypes, Begin, RefuseAuthorize, RenderConsent, RedirectToProvider,
                Approve, Deny, ProviderRefuses, FinishFlow, LogIn, Move
  <1>2. CASE ~\E g \in Flows : StepOf(g)
    <2>1. UNCHANGED tabVars
      BY <1>2 DEF StepOf, AuthorizeNext, flowVars, RegisterHashes, RegisterStores,
                  RegisterFails, FetchClient, CompareSecret, RefreshClient, Rollout, FlowTick
    <2> QED
      BY <2>1 DEF tabVars
  <1> QED
    BY <1>1, <1>2

\* The quiet steps of a tab, which leave its records as they are.
QuietStep(f) ==
  \/ tab'[f] = tab[f] /\ ~FinishFlow(f)
  \/ tab[f] \in {"asked", "consent"} /\ tab'[f] \in {"consent", "failed"}
  \/ tab[f] = "provider" /\ tab'[f] = "given up"
  \/ FinishFlow(f) /\ tab[f] = "callback" /\ tab'[f] = IF Matches(f) THEN "code" ELSE "refused"

LEMMA LoudMoves ==
  ASSUME TabTypes, [AuthorizeNext]_flowVars, NEW f \in Flows
  PROVE  \/ \E b \in Browsers, c \in RegClients, r \in BOOLEAN : Begin(f, b, c, r)
         \/ Approve(f) \/ RedirectToProvider(f) \/ \E b \in Browsers : LogIn(f, b)
         \/ /\ asked'[f] = asked[f] /\ issued'[f] = issued[f] /\ called'[f] = called[f]
            /\ QuietStep(f)
  <1>1. CASE /\ tab'[f] = tab[f] /\ asked'[f] = asked[f]
             /\ issued'[f] = issued[f] /\ called'[f] = called[f]
    <2>1. ~FinishFlow(f)
      BY <1>1 DEF FinishFlow, Move, TabTypes
    <2> QED
      BY <1>1, <2>1 DEF QuietStep
  <1>2. CASE RefuseAuthorize(f) \/ RenderConsent(f) \/ Deny(f) \/ ProviderRefuses(f) \/ FinishFlow(f)
    BY <1>2 DEF RefuseAuthorize, RenderConsent, Deny, ProviderRefuses, FinishFlow, Move,
                TabTypes, QuietStep
  <1> QED
    BY <1>1, <1>2, TabMoves DEF StepOf

LEMMA AskedNextInv ==
  /\ AuthorizeTypeOK /\ RegistryInv /\ CookieInv /\ AskedInv /\ [AuthorizeNext]_flowVars
  => AskedInv'
  <1> SUFFICES ASSUME AuthorizeTypeOK, RegistryInv, CookieInv, AskedInv,
                      [AuthorizeNext]_flowVars, NEW f \in Flows, tab'[f] # "new"
               PROVE  /\ regStage'[asked'[f].client] = "registered"
                      /\ \A p \in asked'[f].consents :
                           ApprovedAt(approvals', asked'[f].browser, p, asked'[f].client, asked'[f].since)
    BY DEF AskedInv
  <1>0. RegistryTypes /\ CookieTypes /\ TabTypes /\ approvals \subseteq approvals'
    BY ConsentMoves DEF AuthorizeTypeOK
  <1>1. ASSUME NEW c \in RegClients, regStage[c] = "registered"
        PROVE  regStage'[c] = "registered"
    BY <1>1, RegistryMoves DEF RegisterHashes, RegisterStores, RegisterFails
  <1>2. ASSUME NEW b \in Browsers, NEW c \in RegClients, NEW p \in Consents(b, c)
        PROVE  ApprovedAt(approvals', b, p, c, flowClock)
    <2>1. p \in AuthProviders /\ consent[b][<<p, c>>] > flowClock /\ flowClock \in Nat
      BY <1>0 DEF Consents, RegistryTypes
    <2>2. consent[b][<<p, c>>] \in Nat
      BY <1>0, <2>1 DEF CookieTypes, CookieKeys
    <2>3. PICK t \in Nat : /\ t <= flowClock /\ consent[b][<<p, c>>] = t + ConsentTtl
                           /\ <<b, p, c, t>> \in approvals
      <3>1. consent[b][<<p, c>>] > 0
        BY <2>1, <2>2
      <3> QED
        BY <2>1, <3>1, Zenon DEF CookieInv
    <2> QED
      BY <1>0, <2>1, <2>3 DEF ApprovedAt
  <1>3. CASE \E b \in Browsers, c \in RegClients, r \in BOOLEAN : Begin(f, b, c, r)
    <2>1. PICK b \in Browsers, c \in RegClients, r \in BOOLEAN : Begin(f, b, c, r)
      BY <1>3
    <2>2. /\ asked'[f].client = c /\ asked'[f].browser = b /\ asked'[f].since = flowClock
          /\ asked'[f].consents = Consents(b, c) /\ regStage[c] = "registered"
      BY <1>0, <2>1 DEF Begin, TabTypes
    <2> QED
      BY <1>1, <1>2, <2>2
  <1>4. CASE Approve(f)
    <2> DEFINE b == asked[f].browser
               c == asked[f].client
    <2>1. /\ b \in Browsers /\ c \in RegClients /\ regStage[c] = "registered"
      BY <1>4, Approves DEF AskedInv, Approve, Move
    <2>2. /\ asked'[f].client = c /\ asked'[f].browser = b /\ asked'[f].since = flowClock
          /\ asked'[f].consents = Consents(b, c) \cup {server.provider}
          /\ <<b, server.provider, c, flowClock>> \in approvals'
      BY <1>0, <1>4 DEF Approve, TabTypes
    <2>3. ApprovedAt(approvals', b, server.provider, c, flowClock)
      BY <1>0, <2>2, FlowTtl DEF ApprovedAt, RegistryTypes
    <2> QED
      BY <1>1, <1>2, <2>1, <2>2, <2>3
  <1>5. CASE asked'[f] = asked[f] /\ tab[f] # "new"
    BY <1>0, <1>1, <1>5 DEF AskedInv, ApprovedAt, TabTypes, Request
  <1>6. CASE RedirectToProvider(f) \/ \E b \in Browsers : LogIn(f, b)
    BY <1>0, <1>5, <1>6 DEF RedirectToProvider, LogIn, Move
  <1>7. CASE asked'[f] = asked[f] /\ QuietStep(f)
    BY <1>5, <1>7 DEF QuietStep, FinishFlow, Move
  <1> QED
    BY <1>0, <1>3, <1>4, <1>6, <1>7, LoudMoves

\* A tab with a state keeps it, and gets it in one way only.
LEMMA SentMoves ==
  ASSUME TabTypes, [AuthorizeNext]_flowVars, NEW f \in Flows
  PROVE  /\ f \in Sent => /\ f \in Sent' /\ asked'[f] = asked[f] /\ issued'[f] = issued[f]
                          /\ ~RedirectToProvider(f)
         /\ f \in Sent' /\ f \notin Sent => RedirectToProvider(f)
  <1>1. CASE \E b \in Browsers, c \in RegClients, r \in BOOLEAN : Begin(f, b, c, r)
    BY <1>1 DEF Begin, Move, TabTypes, Sent, RedirectToProvider
  <1>2. CASE Approve(f)
    BY <1>2 DEF Approve, Move, TabTypes, Sent, RedirectToProvider
  <1>3. CASE RedirectToProvider(f)
    BY <1>3 DEF RedirectToProvider, Move, TabTypes, Sent
  <1>4. CASE \E b \in Browsers : LogIn(f, b)
    BY <1>4 DEF LogIn, Move, TabTypes, Sent, RedirectToProvider
  <1>5. CASE asked'[f] = asked[f] /\ issued'[f] = issued[f] /\ QuietStep(f)
    BY <1>5 DEF QuietStep, FinishFlow, RedirectToProvider, Move, TabTypes, Sent
  <1> QED
    BY <1>1, <1>2, <1>3, <1>4, <1>5, LoudMoves

\* What a redirect to the provider issues.
LEMMA Redirects ==
  ASSUME AuthorizeTypeOK, NEW f \in Flows, RedirectToProvider(f)
  PROVE  /\ asked[f] \in Request /\ asked'[f] = asked[f]
         /\ issued'[f].provider = asked[f].at.provider /\ issued'[f].since = flowClock
         /\ issued'[f].turn = Cardinality(Sent)
         /\ f \notin Sent /\ Sent' = Sent \cup {f} /\ UNCHANGED flowClock
         /\ nonce' = [nonce EXCEPT ![asked[f].browser][<<asked[f].at.provider, asked[f].client>>] =
                        [flow |-> f, lapse |-> flowClock + NonceTtl]]
  BY DEF RedirectToProvider, Move, AuthorizeTypeOK, TabTypes, Sent, SetNonce, FlowKey

LEMMA SentNextInv ==
  /\ AuthorizeTypeOK /\ RegistryInv /\ AskedInv /\ SentInv /\ [AuthorizeNext]_flowVars
  => SentInv'
  <1> SUFFICES ASSUME AuthorizeTypeOK, RegistryInv, AskedInv, SentInv,
                      [AuthorizeNext]_flowVars, NEW f \in Sent'
               PROVE  /\ issued'[f].provider \in asked'[f].consents /\ asked'[f].registered
                      /\ issued'[f].since < lapse'[asked'[f].client]
    BY DEF SentInv
  <1>0. TabTypes /\ RegistryTypes /\ TabTypes' /\ f \in Flows
    BY AuthorizeNextTypes DEF AuthorizeTypeOK, Sent
  <1>1. CASE f \in Sent
    <2> DEFINE c == asked[f].client
    <2>1. c \in RegClients /\ regStage[c] = "registered" /\ issued[f].since \in Nat
      <3>1. tab[f] # "new" /\ asked[f] \in Request /\ issued[f] \in State
        BY <1>0, <1>1 DEF Sent, TabTypes
      <3>2. regStage[asked[f].client] = "registered"
        BY <1>0, <3>1 DEF AskedInv
      <3> QED
        BY <3>1, <3>2 DEF Request, State
    <2>2. lapse'[c] = lapse[c] \/ (flowClock < lapse[c] /\ lapse'[c] = flowClock + ClientTtl)
      BY <2>1, RegistryMoves DEF RegisterHashes, RegisterStores, RegisterFails
    <2>3. lapse[c] \in Nat /\ lapse[c] <= flowClock + ClientTtl /\ flowClock \in Nat
      BY <1>0, <2>1 DEF RegistryTypes, RegistryInv
    <2>4. issued[f].since < lapse[c] /\ issued[f].provider \in asked[f].consents
          /\ asked[f].registered
      BY <1>1 DEF SentInv
    <2>5. issued[f].since < lapse'[c]
      <3> HIDE DEF c
      <3> QED
        BY <2>1, <2>2, <2>3, <2>4, FlowTtl
    <2> QED
      BY <1>0, <1>1, <2>4, <2>5, SentMoves
  <1>2. CASE f \notin Sent
    <2>1. RedirectToProvider(f)
      BY <1>0, <1>2, SentMoves
    <2>2. lapse' = lapse /\ flowClock < lapse[asked[f].client] /\ asked[f].registered
          /\ asked[f].at.provider \in asked[f].consents
      BY <2>1 DEF RedirectToProvider, registryVars, ClientLoads, Consented, InRedis
    <2> QED
      BY <1>0, <2>1, <2>2, Redirects
  <1> QED
    BY <1>1, <1>2

-----------------------------------------------------------------------------
(* The nonce.                                                              *)

\* States are counted, and each has a turn of its own.
TurnInv ==
  \A f \in Sent :
    /\ issued[f].turn < Cardinality(Sent)
    /\ \A g \in Sent : issued[g].turn = issued[f].turn => g = f

\* The cookie of a tab with a state.
CookieOf(f) == nonce[asked[f].browser][<<issued[f].provider, asked[f].client>>]

\* A nonce cookie belongs to a tab of its browser, client and provider, the one that got
\* its state last.
NonceInv ==
  /\ \A b \in Browsers, p \in AuthProviders, c \in RegClients :
       LET n == nonce[b][<<p, c>>]
       IN  n.flow # NoFlow =>
             /\ n.flow \in Sent /\ asked[n.flow].browser = b /\ asked[n.flow].client = c
             /\ issued[n.flow].provider = p /\ n.lapse = issued[n.flow].since + NonceTtl
  /\ \A f \in Sent : CookieOf(f).flow \in Sent /\ issued[f].turn <= issued[CookieOf(f).flow].turn

\* What a callback carries tells whether its tab was the last one.
CalledInv ==
  \A f \in Flows : tab[f] \in {"callback", "code", "refused"} =>
    /\ called[f].heard <= Cardinality(Sent)
    /\ called[f].nonce = f =>
         called[f].landed = asked[f].browser /\ \A g \in Sent : ~TakesOver(g, f)
    /\ called[f].nonce # f =>
         \/ called[f].landed # asked[f].browser
         \/ \E g \in Sent : TakesOver(g, f)
         \/ called[f].since >= issued[f].since + NonceTtl
    /\ tab[f] = "code" => called[f].nonce = f
    /\ tab[f] = "refused" =>
         \/ called[f].nonce # f
         \/ called[f].at.provider # issued[f].provider
         \/ flowClock >= issued[f].since + StateTtl

LEMMA NonceInitInv == AuthorizeInit => TurnInv /\ NonceInv /\ CalledInv
  <1> SUFFICES ASSUME AuthorizeInit PROVE TurnInv /\ NonceInv /\ CalledInv
    OBVIOUS
  <1>1. Sent = {}
    BY DEF AuthorizeInit, Sent
  <1>2. NonceInv
    BY <1>1 DEF AuthorizeInit, NonceInv, CookieKeys
  <1>3. CalledInv
    BY DEF AuthorizeInit, CalledInv
  <1> QED
    BY <1>1, <1>2, <1>3 DEF TurnInv

\* States are only added, one at a time.
LEMMA SentGrows ==
  ASSUME AuthorizeTypeOK, [AuthorizeNext]_flowVars
  PROVE  /\ \/ Sent' = Sent /\ ~\E f \in Flows : RedirectToProvider(f)
            \/ \E f \in Flows : RedirectToProvider(f) /\ Cardinality(Sent') = Cardinality(Sent) + 1
         /\ Cardinality(Sent) <= Cardinality(Sent')
  <1>0. TabTypes /\ TabTypes' /\ Sent \subseteq Flows /\ Sent' \subseteq Flows
    BY AuthorizeNextTypes DEF AuthorizeTypeOK, Sent
  <1>1. CASE \E f \in Flows : RedirectToProvider(f)
    <2>1. PICK f \in Flows : RedirectToProvider(f)
      BY <1>1
    <2>2. f \notin Sent /\ Sent' = Sent \cup {f}
      BY <2>1, Redirects
    <2>3. Cardinality(Sent') = Cardinality(Sent) + 1
      BY <2>2, SentCount, FS_AddElement
    <2> QED
      BY <2>1, <2>3, SentCount
  <1>2. CASE ~\E f \in Flows : RedirectToProvider(f)
    <2>1. Sent' = Sent
      BY <1>0, <1>2, SentMoves
    <2> QED
      BY <1>2, <2>1, SentCount
  <1> QED
    BY <1>1, <1>2

LEMMA TurnNextInv == AuthorizeTypeOK /\ TurnInv /\ [AuthorizeNext]_flowVars => TurnInv'
  <1> SUFFICES ASSUME AuthorizeTypeOK, TurnInv, [AuthorizeNext]_flowVars PROVE TurnInv'
    OBVIOUS
  <1>0. TabTypes /\ Sent \subseteq Flows /\ Sent' \subseteq Flows
    BY DEF AuthorizeTypeOK, Sent
  <1>1. CASE ~\E f \in Flows : RedirectToProvider(f)
    <2>1. Sent' = Sent /\ \A f \in Sent : issued'[f] = issued[f]
      BY <1>0, <1>1, SentGrows, SentMoves
    <2> QED
      BY <2>1 DEF TurnInv
  <1>2. ASSUME NEW h \in Flows, RedirectToProvider(h) PROVE TurnInv'
    <2>1. Sent' = Sent \cup {h} /\ h \notin Sent /\ issued'[h].turn = Cardinality(Sent)
      BY <1>2, Redirects
    <2>2. \A f \in Sent : issued'[f] = issued[f] /\ issued[f].turn \in Nat
      BY <1>0, SentMoves DEF TabTypes, State
    <2>3. Cardinality(Sent') = Cardinality(Sent) + 1 /\ Cardinality(Sent) \in Nat
      BY <2>1, SentCount, FS_AddElement
    <2> QED
      BY <2>1, <2>2, <2>3 DEF TurnInv
  <1> QED
    BY <1>1, <1>2

LEMMA NonceNextInv ==
  /\ AuthorizeTypeOK /\ TurnInv /\ NonceInv /\ [AuthorizeNext]_flowVars
  => NonceInv'
  <1> SUFFICES ASSUME AuthorizeTypeOK, TurnInv, NonceInv, [AuthorizeNext]_flowVars
               PROVE  NonceInv'
    OBVIOUS
  <1>0. TabTypes /\ CookieTypes /\ Sent \subseteq Flows
    BY DEF AuthorizeTypeOK, Sent
  <1>1. CASE ~\E f \in Flows : RedirectToProvider(f)
    <2>1. Sent' = Sent /\ \A f \in Sent : issued'[f] = issued[f] /\ asked'[f] = asked[f]
      BY <1>0, <1>1, SentGrows, SentMoves
    <2>2. nonce' = nonce
      BY <1>1 DEF AuthorizeNext, flowVars, cookieVars, RegisterHashes, RegisterStores,
           RegisterFails, FetchClient, CompareSecret, RefreshClient, Begin, RefuseAuthorize,
           RenderConsent, Approve, Deny, ProviderRefuses, FinishFlow, LogIn, Rollout, FlowTick
    <2>3. ASSUME NEW b \in Browsers, NEW p \in AuthProviders, NEW c \in RegClients,
                 nonce'[b][<<p, c>>].flow # NoFlow
          PROVE  LET n == nonce'[b][<<p, c>>]
                 IN  /\ n.flow \in Sent' /\ asked'[n.flow].browser = b
                     /\ asked'[n.flow].client = c
                     /\ issued'[n.flow].provider = p /\ n.lapse = issued'[n.flow].since + NonceTtl
      BY <2>1, <2>2, <2>3 DEF NonceInv
    <2>4. ASSUME NEW f \in Sent'
          PROVE  LET g == nonce'[asked'[f].browser][<<issued'[f].provider, asked'[f].client>>].flow
                 IN  g \in Sent' /\ issued'[f].turn <= issued'[g].turn
      <3>1. f \in Sent /\ CookieOf(f).flow \in Sent
            /\ issued[f].turn <= issued[CookieOf(f).flow].turn
        BY <2>1 DEF NonceInv
      <3> QED
        BY <2>1, <2>2, <3>1 DEF CookieOf
    <2> QED
      BY <2>3, <2>4 DEF NonceInv, CookieOf
  <1>2. ASSUME NEW h \in Flows, RedirectToProvider(h) PROVE NonceInv'
    <2> DEFINE d == asked[h].browser
               q == asked[h].at.provider
               e == asked[h].client
    <2>1. /\ Sent' = Sent \cup {h} /\ h \notin Sent
          /\ issued'[h].turn = Cardinality(Sent) /\ issued'[h].since = flowClock
          /\ issued'[h].provider = q /\ asked'[h] = asked[h]
          /\ nonce' = [nonce EXCEPT ![d][<<q, e>>] = [flow |-> h, lapse |-> flowClock + NonceTtl]]
      BY <1>2, Redirects
    <2>2. \A f \in Sent : /\ issued'[f] = issued[f] /\ asked'[f] = asked[f]
                          /\ issued[f].turn \in Nat /\ issued[f].turn < Cardinality(Sent)
                          /\ asked[f].browser \in Browsers /\ asked[f].client \in RegClients
                          /\ issued[f].provider \in AuthProviders
      <3>1. \A f \in Sent : tab[f] # "new" /\ asked[f] \in Request /\ issued[f] \in State
        BY <1>0 DEF TabTypes, Sent
      <3> QED
        BY <1>0, <3>1, SentMoves DEF TurnInv, Request, State
    <2>3. d \in Browsers /\ q \in AuthProviders /\ e \in RegClients /\ h # NoFlow
      BY <1>2, Redirects, FlowAssumption DEF Request, Servers
    <2>4. ASSUME NEW b \in Browsers, NEW p \in AuthProviders, NEW c \in RegClients
          PROVE  nonce'[b][<<p, c>>] =
                   IF b = d /\ p = q /\ c = e THEN [flow |-> h, lapse |-> flowClock + NonceTtl]
                                              ELSE nonce[b][<<p, c>>]
      <3> DEFINE key == <<q, e>>
                 at == <<p, c>>
      <3>1. key \in CookieKeys /\ at \in CookieKeys /\ (at = key <=> p = q /\ c = e)
        BY <2>3 DEF CookieKeys
      <3>2. nonce' = [nonce EXCEPT ![d][key] = [flow |-> h, lapse |-> flowClock + NonceTtl]]
        BY <2>1
      <3> HIDE DEF key, at, d
      <3>3. nonce'[b][at] = IF b = d /\ at = key THEN [flow |-> h, lapse |-> flowClock + NonceTtl]
                                                 ELSE nonce[b][at]
        BY <1>0, <2>3, <3>1, <3>2 DEF CookieTypes
      <3> QED
        BY <3>1, <3>3 DEF at, d
    <2> HIDE DEF d, q, e
    <2>5. ASSUME NEW b \in Browsers, NEW p \in AuthProviders, NEW c \in RegClients,
                 nonce'[b][<<p, c>>].flow # NoFlow
          PROVE  LET n == nonce'[b][<<p, c>>]
                 IN  /\ n.flow \in Sent' /\ asked'[n.flow].browser = b
                     /\ asked'[n.flow].client = c
                     /\ issued'[n.flow].provider = p /\ n.lapse = issued'[n.flow].since + NonceTtl
      <3>1. CASE b = d /\ p = q /\ c = e
        BY <2>1, <2>4, <3>1 DEF d, e
      <3>2. CASE ~(b = d /\ p = q /\ c = e)
        BY <2>1, <2>2, <2>4, <2>5, <3>2 DEF NonceInv
      <3> QED
        BY <3>1, <3>2
    <2>6. ASSUME NEW f \in Sent'
          PROVE  LET g == nonce'[asked'[f].browser][<<issued'[f].provider, asked'[f].client>>].flow
                 IN  g \in Sent' /\ issued'[f].turn <= issued'[g].turn
      <3>1. CASE f = h
        BY <2>1, <2>3, <2>4, <3>1, SentCount DEF d, e
      <3>2. CASE f # h
        <4>1. f \in Sent /\ CookieOf(f).flow \in Sent
              /\ issued[f].turn <= issued[CookieOf(f).flow].turn
          BY <2>1, <3>2 DEF NonceInv
        <4>2. CASE asked[f].browser = d /\ issued[f].provider = q /\ asked[f].client = e
          BY <2>1, <2>2, <2>4, <4>1, <4>2, SentCount
        <4>3. CASE ~(asked[f].browser = d /\ issued[f].provider = q /\ asked[f].client = e)
          BY <2>1, <2>2, <2>4, <4>1, <4>3 DEF CookieOf
        <4> QED
          BY <4>2, <4>3
      <3> QED
        BY <3>1, <3>2
    <2> QED
      BY <2>5, <2>6 DEF NonceInv, CookieOf
  <1> QED
    BY <1>1, <1>2

\* A tab that took over a cookie stays ahead, and one that came later takes over nothing
\* from a callback that was there already.
LEMMA TakingOver ==
  ASSUME AuthorizeTypeOK, TurnInv, [AuthorizeNext]_flowVars,
         NEW f \in Sent, called'[f] = called[f], called[f].heard <= Cardinality(Sent),
         called[f].heard \in Nat
  PROVE  /\ \A g \in Sent : TakesOver(g, f) => g \in Sent' /\ TakesOver(g, f)'
         /\ (\A g \in Sent : ~TakesOver(g, f)) => \A g \in Sent' : ~TakesOver(g, f)'
  <1>0. TabTypes /\ Sent \subseteq Flows
    BY DEF AuthorizeTypeOK, Sent
  <1>1. \A g \in Sent : g \in Sent' /\ issued'[g] = issued[g] /\ asked'[g] = asked[g]
    BY <1>0, SentMoves
  <1>2. ASSUME NEW g \in Sent', g \notin Sent PROVE ~TakesOver(g, f)'
    <2>1. RedirectToProvider(g)
      BY <1>0, <1>2, SentMoves DEF Sent
    <2>2. issued'[g].turn = Cardinality(Sent)
      BY <1>2, <2>1, Redirects DEF Sent
    <2> QED
      BY <2>2, SentCount DEF TakesOver
  <1>3. \A g \in Sent : TakesOver(g, f) <=> TakesOver(g, f)'
    BY <1>1 DEF TakesOver
  <1> QED
    BY <1>1, <1>2, <1>3

LEMMA CalledNextInv ==
  /\ AuthorizeTypeOK /\ TurnInv /\ NonceInv /\ CalledInv /\ [AuthorizeNext]_flowVars
  => CalledInv'
  <1> SUFFICES ASSUME AuthorizeTypeOK, TurnInv, NonceInv, CalledInv, [AuthorizeNext]_flowVars,
                      NEW f \in Flows, tab'[f] \in {"callback", "code", "refused"}
               PROVE  /\ called'[f].heard <= Cardinality(Sent')
                      /\ called'[f].nonce = f =>
                           /\ called'[f].landed = asked'[f].browser
                           /\ \A g \in Sent' : ~TakesOver(g, f)'
                      /\ called'[f].nonce # f =>
                           \/ called'[f].landed # asked'[f].browser
                           \/ \E g \in Sent' : TakesOver(g, f)'
                           \/ called'[f].since >= issued'[f].since + NonceTtl
                      /\ tab'[f] = "code" => called'[f].nonce = f
                      /\ tab'[f] = "refused" =>
                           \/ called'[f].nonce # f
                           \/ called'[f].at.provider # issued'[f].provider
                           \/ flowClock' >= issued'[f].since + StateTtl
    BY DEF CalledInv
  <1>0. TabTypes /\ TabTypes' /\ RegistryTypes /\ Sent \subseteq Flows
    BY AuthorizeNextTypes DEF AuthorizeTypeOK, Sent
  <1>1. ASSUME NEW b \in Browsers, LogIn(f, b)
        PROVE  /\ called'[f].heard <= Cardinality(Sent')
               /\ called'[f].nonce = f =>
                    /\ called'[f].landed = asked'[f].browser
                    /\ \A g \in Sent' : ~TakesOver(g, f)'
               /\ called'[f].nonce # f =>
                    \/ called'[f].landed # asked'[f].browser
                    \/ \E g \in Sent' : TakesOver(g, f)'
                    \/ called'[f].since >= issued'[f].since + NonceTtl
               /\ tab'[f] = "callback"
    <2> DEFINE p == issued[f].provider
               c == asked[f].client
               n == nonce[b][<<p, c>>]
    <2>1. /\ tab[f] = "provider" /\ tab'[f] = "callback" /\ f \in Sent /\ Sent' = Sent
          /\ asked' = asked /\ issued' = issued
      BY <1>0, <1>1 DEF LogIn, Move, Sent, TabTypes
    <2>2. /\ called'[f].landed = b /\ called'[f].since = flowClock
          /\ called'[f].nonce = IF n.lapse > flowClock THEN n.flow ELSE NoFlow
          /\ called'[f].heard = Cardinality(Sent)
      BY <1>0, <1>1 DEF LogIn, TabTypes
    <2>3. p \in AuthProviders /\ c \in RegClients /\ f # NoFlow
      <3>1. asked[f] \in Request /\ issued[f] \in State
        BY <1>0, <2>1 DEF TabTypes
      <3> QED
        BY <3>1, FlowAssumption DEF Request, State
    <2>4. n.flow # NoFlow =>
            /\ n.flow \in Sent /\ asked[n.flow].browser = b /\ asked[n.flow].client = c
            /\ issued[n.flow].provider = p /\ n.lapse = issued[n.flow].since + NonceTtl
      BY <2>3 DEF NonceInv
    <2>5. \A g \in Sent : CookieOf(g).flow \in Sent /\ issued[g].turn <= issued[CookieOf(g).flow].turn
      BY DEF NonceInv
    <2>6. \A g \in Sent : issued[g].turn \in Nat /\ issued[g].turn < Cardinality(Sent)
                          /\ issued[g].since \in Nat
      BY <1>0 DEF TabTypes, State, TurnInv
    <2>7. n.flow # NoFlow => flowClock \in Nat /\ n.lapse \in Nat
      BY <1>0, <2>4, <2>6, FlowTtl DEF RegistryTypes
    <2>8. ASSUME called'[f].nonce = f
          PROVE  /\ asked[f].browser = b
                 /\ \A g \in Sent : ~TakesOver(g, f)'
      <3>1. n.flow = f
        BY <2>2, <2>3, <2>8
      <3>2. ASSUME NEW g \in Sent, TakesOver(g, f)' PROVE FALSE
        <4>1. /\ asked[g].browser = b /\ asked[g].client = c /\ issued[g].provider = p
              /\ issued[f].turn < issued[g].turn
          BY <2>1, <2>3, <2>4, <3>1, <3>2 DEF TakesOver
        <4>2. CookieOf(g).flow = f
          BY <3>1, <4>1 DEF CookieOf
        <4> QED
          BY <2>1, <2>5, <2>6, <4>1, <4>2
      <3> QED
        BY <2>3, <2>4, <3>1, <3>2
    <2>9. ASSUME called'[f].nonce # f, asked[f].browser = b
          PROVE  \/ \E g \in Sent : TakesOver(g, f)'
                 \/ flowClock >= issued[f].since + NonceTtl
      <3>1. /\ n.flow \in Sent /\ issued[f].turn <= issued[n.flow].turn /\ n.flow # NoFlow
        BY <2>1, <2>5, <2>9, <1>0, FlowAssumption DEF CookieOf
      <3>2. CASE n.flow = f
        BY <2>2, <2>4, <2>7, <2>9, <3>1, <3>2
      <3>3. CASE n.flow # f
        <4>1. issued[n.flow].turn # issued[f].turn
          BY <2>1, <3>1, <3>3 DEF TurnInv
        <4>2. issued[f].turn < issued[n.flow].turn /\ issued[n.flow].turn < Cardinality(Sent)
          BY <2>1, <2>6, <3>1, <4>1
        <4>3. PICK g \in Sent : g = n.flow
          BY <3>1
        <4>4. TakesOver(g, f)'
          BY <2>1, <2>2, <2>4, <2>9, <3>1, <4>2, <4>3 DEF TakesOver
        <4> QED
          BY <4>4
      <3> QED
        BY <3>2, <3>3
    <2>10. Cardinality(Sent) <= Cardinality(Sent')
      BY SentGrows
    <2> QED
      BY <2>1, <2>2, <2>8, <2>9, <2>10
  <1>2. CASE called'[f] = called[f] /\ QuietStep(f)
    <2>1. /\ tab[f] \in {"callback", "code", "refused"} /\ f \in Sent
          /\ tab'[f] = tab[f] \/ (tab[f] = "callback" /\ tab'[f] = IF Matches(f) THEN "code" ELSE "refused")
      BY <1>0, <1>2 DEF QuietStep, Sent
    <2>2. /\ asked'[f] = asked[f] /\ issued'[f] = issued[f]
      BY <1>0, <2>1, SentMoves
    <2>3. called[f] \in Callback /\ issued[f] \in State
      BY <1>0, <2>1 DEF TabTypes
    <2>4. /\ called[f].heard \in Nat /\ issued[f].since \in Nat /\ flowClock \in Nat
          /\ flowClock' \in Nat /\ flowClock <= flowClock'
      BY <1>0, <2>3, ClockMoves DEF Callback, State, RegistryTypes
    <2>5. Cardinality(Sent) \in Nat /\ Cardinality(Sent') \in Nat
          /\ Cardinality(Sent) <= Cardinality(Sent') /\ called[f].heard <= Cardinality(Sent)
      BY <2>1, SentCount, SentGrows, AuthorizeNextTypes DEF CalledInv, AuthorizeTypeOK
    <2>6. /\ called[f].nonce = f =>
               called[f].landed = asked[f].browser /\ \A g \in Sent : ~TakesOver(g, f)
          /\ called[f].nonce # f =>
               \/ called[f].landed # asked[f].browser
               \/ \E g \in Sent : TakesOver(g, f)
               \/ called[f].since >= issued[f].since + NonceTtl
      BY <2>1 DEF CalledInv
    <2>7. /\ \A g \in Sent : TakesOver(g, f) => g \in Sent' /\ TakesOver(g, f)'
          /\ (\A g \in Sent : ~TakesOver(g, f)) => \A g \in Sent' : ~TakesOver(g, f)'
      BY <1>2, <2>1, <2>4, <2>5, TakingOver
    <2>8. /\ tab'[f] = "code" => called[f].nonce = f
          /\ tab'[f] = "refused" =>
               \/ called[f].nonce # f
               \/ called[f].at.provider # issued[f].provider
               \/ flowClock' >= issued[f].since + StateTtl
      BY <2>1, <2>4, FlowTtl DEF CalledInv, Matches
    <2> QED
      BY <1>2, <2>2, <2>4, <2>5, <2>6, <2>7, <2>8
  <1>3. ~(\E b \in Browsers, c \in RegClients, r \in BOOLEAN : Begin(f, b, c, r))
        /\ ~Approve(f) /\ ~RedirectToProvider(f)
    BY <1>0 DEF Begin, Approve, RedirectToProvider, Move, TabTypes
  <1> QED
    BY <1>0, <1>1, <1>2, <1>3, LoudMoves

(* A code comes of an approval, in the tab that asked last                  *)
(* (oauth.ts:108-232, callback.ts:39-89).                                  *)
THEOREM CodesReachWhoApproved == AuthorizeSpec => []CodeReachesWhoApproved
  <1> DEFINE Inv == /\ AuthorizeTypeOK /\ RegistryInv /\ CookieInv /\ AskedInv /\ SentInv
                    /\ TurnInv /\ NonceInv /\ CalledInv
  <1>1. AuthorizeInit => Inv
    BY AuthorizeInitTypes, RegistryInitInv, ConsentInitInv, NonceInitInv
  <1>2. Inv /\ [AuthorizeNext]_flowVars => Inv'
    BY AuthorizeNextTypes, RegistryNextInv, CookieNextInv, AskedNextInv, SentNextInv,
       TurnNextInv, NonceNextInv, CalledNextInv
  <1>3. Inv => CodeIsForWhoApproved
    <2> SUFFICES ASSUME Inv, NEW f \in Flows, tab[f] = "code"
                 PROVE  /\ called[f].landed = asked[f].browser
                        /\ asked[f].registered /\ issued[f].since < lapse[asked[f].client]
                        /\ \E t \in 0 .. asked[f].since :
                             /\ <<asked[f].browser, issued[f].provider, asked[f].client, t>> \in approvals
                             /\ asked[f].since < t + ConsentTtl
      BY DEF CodeIsForWhoApproved
    <2>1. f \in Sent /\ tab[f] # "new" /\ asked[f] \in Request
      BY DEF Sent, AuthorizeTypeOK, TabTypes
    <2>2. called[f].landed = asked[f].browser
      BY DEF CalledInv
    <2>3. /\ issued[f].provider \in asked[f].consents /\ asked[f].registered
          /\ issued[f].since < lapse[asked[f].client]
      BY <2>1 DEF SentInv
    <2>4. ApprovedAt(approvals, asked[f].browser, issued[f].provider, asked[f].client, asked[f].since)
      BY <2>1, <2>3 DEF AskedInv
    <2>5. asked[f].since \in Nat
      BY <2>1 DEF Request
    <2> QED
      BY <2>2, <2>3, <2>4, <2>5 DEF ApprovedAt
  <1>4. Inv => OnlyTheLatestTabCompletes
    BY DEF OnlyTheLatestTabCompletes, CalledInv
  <1>5. AuthorizeSpec => []Inv
    BY <1>1, <1>2, PTL DEF AuthorizeSpec
  <1>6. Inv => CodeReachesWhoApproved
    BY <1>3, <1>4 DEF CodeReachesWhoApproved
  <1> QED
    BY <1>5, <1>6, PTL

=============================================================================
