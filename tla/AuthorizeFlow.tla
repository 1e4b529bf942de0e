---------------------------- MODULE AuthorizeFlow ----------------------------
(***************************************************************************)
(* The way to an authorization code: a browser's GET and POST of            *)
(* /oauth/:namespace/authorize (routes/oauth.ts), the provider's redirect   *)
(* to the callback (routes/callback.ts), and the dynamic registrations they *)
(* depend on, with the clients' authentication (client-handlers/dcr.ts).   *)
(*                                                                         *)
(* The gateway keeps nothing between the steps but the registrations in     *)
(* Redis: consent and nonce are cookies of the browser, the rest travels in *)
(* the encrypted state.  Every key and cookie carries the namespace, so one *)
(* server is modelled; its provider and scopes change with a rollout.      *)
(***************************************************************************)
EXTENDS Naturals, FiniteSets

CONSTANTS
  Browsers,
  Flows,         \* authorizations, each in a tab of its own
  RegClients,    \* clients that register dynamically
  Auths,         \* token requests that authenticate a client
  AuthProviders,
  Scopes,
  ClientTtl,     \* dcr.client_ttl
  StateTtl,      \* tokens.state_ttl
  NonceTtl,      \* maxAge of the nonce cookie, 15 minutes
  ConsentTtl,    \* maxAge of the consent cookie, 30 days
  NoFlow,        \* no nonce; what there is not yet
  MaxFlowClock   \* bound: last instant

ASSUME FlowAssumption ==
  /\ {ClientTtl, StateTtl, NonceTtl, ConsentTtl} \subseteq Nat \ {0}
  /\ MaxFlowClock \in Nat
  /\ IsFiniteSet(Flows) /\ NoFlow \notin Flows

VARIABLES
  flowClock,
  server,     \* the provider and scopes of the current configuration
  sliding,    \* dcr.refresh_ttl_on_use
  regStage,   \* client -> "new", "hashed" (its secret, in register) or "registered"
  told,       \* client -> client_secret_expires_at
  lapse,      \* client -> when its key in Redis lapses, 0 if it was never set
  consent,    \* browser -> its consent cookies: provider and client -> when it lapses
  nonce,      \* browser -> its nonce cookies: provider and client -> [flow, lapse]
  tab,        \* authorization -> its stage
  asked,      \* authorization -> its GET, as the replica that got it sees it
  issued,     \* authorization -> its state
  called,     \* authorization -> its callback, as the replica that got it sees it
  auth,       \* token request -> the stage of its client's authentication
  fetched,    \* token request -> the client it fetched, and when
  refreshed,  \* token request -> when it refreshed the registration
  approvals   \* history: <<browser, provider, client, instant>> of every approval

registryVars == <<regStage, told, lapse>>
cookieVars == <<consent, nonce>>
authVars == <<auth, fetched, refreshed>>
tabVars == <<tab, asked, issued, called>>
flowVars == <<flowClock, server, sliding, registryVars, cookieVars, tabVars, authVars, approvals>>

-----------------------------------------------------------------------------

Servers == [provider : AuthProviders, scope : Scopes]
CookieKeys == AuthProviders \X RegClients     \* getConsentKey, getNonceKey

\* registered: redirect_uri is one of the client's.  consents: the providers for which
\* the request carries this client's consent.
Request == [browser : Browsers, client : RegClients, registered : BOOLEAN,
            at : Servers, consents : SUBSET AuthProviders, since : Nat]

\* turn: history, how many states were issued before.
State == [provider : AuthProviders, scope : Scopes, since : Nat, turn : Nat]

\* nonce: the one the request carries.  heard: history, how many states were issued.
Callback == [landed : Browsers, since : Nat, at : Servers, nonce : Flows \cup {NoFlow}, heard : Nat]

AuthorizeInit ==
  /\ flowClock = 0
  /\ server \in Servers
  /\ sliding \in BOOLEAN
  /\ regStage = [c \in RegClients |-> "new"]
  /\ told = [c \in RegClients |-> 0] /\ lapse = [c \in RegClients |-> 0]
  /\ consent = [b \in Browsers |-> [k \in CookieKeys |-> 0]]
  /\ nonce = [b \in Browsers |-> [k \in CookieKeys |-> [flow |-> NoFlow, lapse |-> 0]]]
  /\ tab = [f \in Flows |-> "new"]
  /\ asked = [f \in Flows |-> NoFlow]
  /\ issued = [f \in Flows |-> NoFlow]
  /\ called = [f \in Flows |-> NoFlow]
  /\ auth = [a \in Auths |-> "new"]
  /\ fetched = [a \in Auths |-> NoFlow]
  /\ refreshed = [a \in Auths |-> 0]
  /\ approvals = {}

-----------------------------------------------------------------------------
(* Registrations.                                                          *)

\* store.get: Redis has the key until it lapses.
InRedis(c) == flowClock < lapse[c]

\* register, up to the store: bcrypt is awaited, then the expiry is computed.
RegisterHashes(c) ==
  /\ regStage[c] = "new"
  /\ regStage' = [regStage EXCEPT ![c] = "hashed"]
  /\ told' = [told EXCEPT ![c] = flowClock + ClientTtl]
  /\ UNCHANGED <<flowClock, server, sliding, lapse, cookieVars, tabVars, authVars, approvals>>

\* The key is set after what the client will be told was computed.
RegisterStores(c) ==
  /\ regStage[c] = "hashed"
  /\ regStage' = [regStage EXCEPT ![c] = "registered"]
  /\ lapse' = [lapse EXCEPT ![c] = flowClock + ClientTtl]
  /\ UNCHANGED <<flowClock, server, sliding, told, cookieVars, tabVars, authVars, approvals>>

\* Redis fails, the registration is answered with an error.
RegisterFails(c) ==
  /\ regStage[c] = "hashed"
  /\ regStage' = [regStage EXCEPT ![c] = "new"]
  /\ told' = [told EXCEPT ![c] = 0]
  /\ UNCHANGED <<flowClock, server, sliding, lapse, cookieVars, tabVars, authVars, approvals>>

AuthStep(a, from, to) == auth[a] = from /\ auth' = [auth EXCEPT ![a] = to]

\* validateClientAuth, up to the comparison of the secret, which is awaited.
FetchClient(a, c) ==
  /\ regStage[c] = "registered"
  /\ AuthStep(a, "new", IF InRedis(c) THEN "comparing" ELSE "refused")
  /\ fetched' = [fetched EXCEPT ![a] = [client |-> c, since |-> flowClock]]
  /\ UNCHANGED <<flowClock, server, sliding, registryVars, cookieVars, tabVars, refreshed, approvals>>

CompareSecret(a) ==
  /\ \/ AuthStep(a, "comparing", "refused")
     \/ AuthStep(a, "comparing", IF sliding THEN "refreshing" ELSE "accepted")
  /\ UNCHANGED <<flowClock, server, sliding, registryVars, cookieVars, tabVars,
                 fetched, refreshed, approvals>>

\* mutant: the new life is not a whole client_ttl
PexpireShort(c) ==
  lapse' = [lapse EXCEPT ![c] = IF InRedis(c) THEN flowClock + 1 ELSE lapse[c]]

\* PEXPIRE of a key that has lapsed meanwhile does nothing.
Pexpire(c) ==
  lapse' = [lapse EXCEPT ![c] = IF InRedis(c) THEN flowClock + ClientTtl ELSE lapse[c]]

RefreshClient(a) ==
  /\ AuthStep(a, "refreshing", "accepted")
  /\ Pexpire(fetched[a].client)
  /\ refreshed' = [refreshed EXCEPT ![a] = flowClock]
  /\ UNCHANGED <<flowClock, server, sliding, regStage, told, cookieVars, tabVars, fetched, approvals>>

-----------------------------------------------------------------------------
(* Authorizations.                                                         *)

Move(f, from, to) == tab[f] = from /\ tab' = [tab EXCEPT ![f] = to]

\* The authorizations that got a state.
Sent == {f \in Flows : tab[f] \in {"provider", "callback", "code", "refused", "given up"}}

\* The consent a request of browser b carries for client c.
Consents(b, c) == {p \in AuthProviders : consent[b][<<p, c>>] > flowClock}

\* A client sends its user to the gateway.
Begin(f, b, c, registered) ==
  /\ regStage[c] = "registered"
  /\ Move(f, "new", "asked")
  /\ asked' = [asked EXCEPT ![f] =
       [browser |-> b, client |-> c, registered |-> registered,
        at |-> server, consents |-> Consents(b, c), since |-> flowClock]]
  /\ UNCHANGED <<flowClock, server, sliding, registryVars, cookieVars, issued, called, authVars, approvals>>

\* loadClientMetadata
ClientLoads(f) == InRedis(asked[f].client) /\ asked[f].registered

Consented(f) == asked[f].at.provider \in asked[f].consents

\* GET /authorize of a client that is unknown, or not at this redirect_uri.
RefuseAuthorize(f) ==
  /\ Move(f, "asked", "failed")
  /\ ~ClientLoads(f)
  /\ UNCHANGED <<flowClock, server, sliding, registryVars, cookieVars,
                 asked, issued, called, authVars, approvals>>

\* GET /authorize without consent: the page is rendered.
RenderConsent(f) ==
  /\ Move(f, "asked", "consent")
  /\ ClientLoads(f) /\ ~Consented(f)
  /\ UNCHANGED <<flowClock, server, sliding, registryVars, cookieVars,
                 asked, issued, called, authVars, approvals>>

FlowKey(f) == <<asked[f].at.provider, asked[f].client>>

\* mutant: a nonce the browser has already is kept
SetNonceOnce(f) ==
  LET b == asked[f].browser
      old == nonce[b][FlowKey(f)]
  IN  nonce' = [nonce EXCEPT ![b][FlowKey(f)] =
                  IF old.lapse > flowClock THEN old ELSE [flow |-> f, lapse |-> flowClock + NonceTtl]]

\* res.cookie: the nonce replaces the one of an earlier authorization.
SetNonce(f) ==
  nonce' = [nonce EXCEPT ![asked[f].browser][FlowKey(f)] =
              [flow |-> f, lapse |-> flowClock + NonceTtl]]

\* GET /authorize with consent: state and nonce, and the redirect to the provider.
RedirectToProvider(f) ==
  /\ Move(f, "asked", "provider")
  /\ ClientLoads(f) /\ Consented(f)
  /\ issued' = [issued EXCEPT ![f] =
       [provider |-> asked[f].at.provider, scope |-> asked[f].at.scope,
        since |-> flowClock, turn |-> Cardinality(Sent)]]
  /\ SetNonce(f)
  /\ UNCHANGED <<flowClock, server, sliding, registryVars, consent, asked, called, authVars, approvals>>

\* POST /authorize with "denied", or with "approved" for a client that is gone.
Deny(f) ==
  /\ Move(f, "consent", "failed")
  /\ UNCHANGED <<flowClock, server, sliding, registryVars, cookieVars,
                 asked, issued, called, authVars, approvals>>

\* POST /authorize with "approved": the cookie is set, and the browser follows the
\* redirect to the GET with the cookies it has then.
Approve(f) ==
  LET b == asked[f].browser
      c == asked[f].client
  IN  /\ Move(f, "consent", "asked")
      /\ ClientLoads(f)
      /\ consent' = [consent EXCEPT ![b][<<server.provider, c>>] = flowClock + ConsentTtl]
      /\ approvals' = approvals \cup {<<b, server.provider, c, flowClock>>}
      /\ asked' = [asked EXCEPT ![f] =
           [browser |-> b, client |-> c, registered |-> asked[f].registered, at |-> server,
            consents |-> Consents(b, c) \cup {server.provider}, since |-> flowClock]]
      /\ UNCHANGED <<flowClock, server, sliding, registryVars, nonce, issued, called, authVars>>

\* The user has logged in at the provider, whose redirect reaches the callback from
\* browser b: the one the login began in, or another one that was handed the link.
LogIn(f, b) ==
  LET cookie == nonce[b][<<issued[f].provider, asked[f].client>>]
  IN  /\ Move(f, "provider", "callback")
      /\ called' = [called EXCEPT ![f] =
           [landed |-> b, since |-> flowClock, at |-> server,
            nonce |-> IF cookie.lapse > flowClock THEN cookie.flow ELSE NoFlow,
            heard |-> Cardinality(Sent)]]
      /\ UNCHANGED <<flowClock, server, sliding, registryVars, cookieVars,
                     asked, issued, authVars, approvals>>

\* The provider answers with an error, or never.
ProviderRefuses(f) ==
  /\ Move(f, "provider", "given up")
  /\ UNCHANGED <<flowClock, server, sliding, registryVars, cookieVars,
                 asked, issued, called, authVars, approvals>>

\* unwrapState and the comparisons of the callback.
Matches(f) ==
  /\ flowClock < issued[f].since + StateTtl
  /\ called[f].at.provider = issued[f].provider
  /\ called[f].nonce = f

\* The callback: wrapAuthCode and the redirect to the client, or a refusal.
FinishFlow(f) ==
  /\ Move(f, "callback", IF Matches(f) THEN "code" ELSE "refused")
  /\ UNCHANGED <<flowClock, server, sliding, registryVars, cookieVars,
                 asked, issued, called, authVars, approvals>>

-----------------------------------------------------------------------------

Rollout(s) ==
  /\ s # server /\ server' = s
  /\ UNCHANGED <<flowClock, sliding, registryVars, cookieVars, tabVars, authVars, approvals>>

FlowTick ==
  /\ flowClock < MaxFlowClock /\ flowClock' = flowClock + 1
  /\ UNCHANGED <<server, sliding, registryVars, cookieVars, tabVars, authVars, approvals>>

AuthorizeNext ==
  \/ \E c \in RegClients :
       \/ RegisterHashes(c) \/ RegisterStores(c) \/ RegisterFails(c)
       \/ \E a \in Auths : FetchClient(a, c)
       \/ \E f \in Flows, b \in Browsers, registered \in BOOLEAN : Begin(f, b, c, registered)
  \/ \E a \in Auths : CompareSecret(a) \/ RefreshClient(a)
  \/ \E f \in Flows :
       \/ RefuseAuthorize(f) \/ RenderConsent(f) \/ RedirectToProvider(f)
       \/ Approve(f) \/ Deny(f) \/ ProviderRefuses(f) \/ FinishFlow(f)
       \/ \E b \in Browsers : LogIn(f, b)
  \/ \E s \in Servers : Rollout(s)
  \/ FlowTick

AuthorizeSpec == AuthorizeInit /\ [][AuthorizeNext]_flowVars

-----------------------------------------------------------------------------
(* Properties.                                                             *)

RegistryTypes ==
  /\ flowClock \in Nat /\ server \in Servers /\ sliding \in BOOLEAN
  /\ regStage \in [RegClients -> {"new", "hashed", "registered"}]
  /\ told \in [RegClients -> Nat] /\ lapse \in [RegClients -> Nat]

CookieTypes ==
  /\ consent \in [Browsers -> [CookieKeys -> Nat]]
  /\ nonce \in [Browsers -> [CookieKeys -> [flow : Flows \cup {NoFlow}, lapse : Nat]]]
  /\ approvals \subseteq Browsers \X AuthProviders \X RegClients \X Nat

Tabs == {"new", "asked", "consent", "failed",
         "provider", "callback", "code", "refused", "given up"}

TabTypes ==
  /\ tab \in [Flows -> Tabs]
  /\ asked \in [Flows -> Request \cup {NoFlow}]
  /\ issued \in [Flows -> State \cup {NoFlow}]
  /\ called \in [Flows -> Callback \cup {NoFlow}]
  /\ \A f \in Flows :
       /\ tab[f] # "new" => asked[f] \in Request
       /\ f \in Sent => issued[f] \in State
       /\ tab[f] \in {"callback", "code", "refused"} => called[f] \in Callback

AuthTypes ==
  /\ auth \in [Auths -> {"new", "comparing", "refreshing", "accepted", "refused"}]
  /\ fetched \in [Auths -> [client : RegClients, since : Nat] \cup {NoFlow}]
  /\ \A a \in Auths : auth[a] # "new" => fetched[a] \in [client : RegClients, since : Nat]
  /\ refreshed \in [Auths -> Nat]

\* Types: the registrations, the cookies, and what each stage has.
AuthorizeTypeOK == RegistryTypes /\ CookieTypes /\ TabTypes /\ AuthTypes

\* A code is given in the browser that asked for it, to a client that was registered
\* when the user was sent to the provider, at an URI of its own, and a person approved
\* this client at this provider in this browser no longer ago than the consent lasts
\* (routes/oauth.ts:108-232, routes/callback.ts:39-89).
CodeIsForWhoApproved ==
  \A f \in Flows : tab[f] = "code" =>
    /\ called[f].landed = asked[f].browser
    /\ asked[f].registered /\ issued[f].since < lapse[asked[f].client]
    /\ \E t \in 0 .. asked[f].since :
         /\ <<asked[f].browser, issued[f].provider, asked[f].client, t>> \in approvals
         /\ asked[f].since < t + ConsentTtl

\* g got its state after f and took over the cookie before f's redirect came back.
TakesOver(g, f) ==
  /\ issued[f].turn < issued[g].turn /\ issued[g].turn < called[f].heard
  /\ asked[g].browser = asked[f].browser /\ asked[g].client = asked[f].client
  /\ issued[g].provider = issued[f].provider

\* Two authorizations of one client in one browser share a cookie: the later one takes
\* it over.  Of the two, one that was taken over before its redirect came back does not
\* complete, and a redirect that comes in time to the right browser under the same
\* provider is refused for nothing else (routes/oauth.ts:164-174, routes/callback.ts:66-72).
OnlyTheLatestTabCompletes ==
  \A f \in Flows :
    /\ tab[f] = "code" => \A g \in Sent : ~TakesOver(g, f)
    /\ tab[f] = "refused" =>
         \/ \E g \in Sent : TakesOver(g, f)
         \/ called[f].landed # asked[f].browser
         \/ called[f].at.provider # issued[f].provider
         \/ flowClock >= issued[f].since + StateTtl
         \/ called[f].since >= issued[f].since + NonceTtl

\* A registration is there until client_secret_expires_at, and, where it slides, for a
\* whole client_ttl after every use, unless it lapsed while that use was comparing the
\* secret (dcr.ts:103-129, 182-208).
RegistrationKeepsItsWord ==
  /\ \A c \in RegClients : regStage[c] = "registered" /\ flowClock < told[c] => InRedis(c)
  /\ \A a \in Auths : auth[a] = "accepted" /\ sliding =>
       LET c == fetched[a].client
       IN  \/ lapse[c] >= refreshed[a] + ClientTtl
           \/ fetched[a].since < lapse[c] /\ lapse[c] <= refreshed[a]

\* routes/oauth.ts:108-232 and routes/callback.ts:39-89: a code comes of an approval, in
\* the tab that asked last.
CodeReachesWhoApproved == CodeIsForWhoApproved /\ OnlyTheLatestTabCompletes

=============================================================================
