---------------------------- MODULE TokenEndpoint ----------------------------
(***************************************************************************)
(* POST /oauth/:namespace/token (mcp-gateway/src/routes/oauth.ts) over the *)
(* TokenService, with the upstream OAuth provider as its environment.      *)
(*                                                                         *)
(* A request is a chain of awaits: client authentication, decryption, the  *)
(* Redis EXISTS and SET of the replay check, the upstream grant, the user  *)
(* info lookup.  Every await is an interleaving point, so a request is a   *)
(* slot with a program counter and each stretch of code between two awaits *)
(* is an action.  Slots belong to any of the replicas, which share Redis.  *)
(***************************************************************************)
EXTENDS TokenService, FiniteSets

CONSTANTS
  Requests,       \* slots for token requests in flight
  ClientGrants,   \* client -> grant types its metadata allows
  CanRefresh,     \* providers with canRefresh
  CanExchange,    \* providers with canExchange
  ExpiresIn,      \* values of expires_in in upstream responses, 0 if absent
  NoRequest,      \* an idle slot
  MaxSecrets      \* bound: number of upstream codes and refresh tokens

GrantTypes == {"auth_code", "refresh_token", "token_exchange"}

ASSUME EndpointAssumption ==
  /\ ClientGrants \in [Clients -> SUBSET GrantTypes]
  /\ CanRefresh \subseteq Providers
  /\ CanExchange \subseteq Providers
  /\ ExpiresIn \subseteq Nat
  /\ MaxSecrets \in Nat

VARIABLES
  cfg,        \* namespace -> its server's provider and current scope hash
  pc,         \* slot -> the await its request is at
  req,        \* slot -> the request and what its handler has captured
  reply,      \* slot -> refresh secret in the upstream's response, 0 if none
  answer,     \* slot -> the last answer sent from it
  upstream,   \* upstream codes and refresh tokens the provider still honours
  secrets,    \* number of secrets the provider has issued
  (*************************************************************************)
  (* History variables.                                                    *)
  (*************************************************************************)
  grants,     \* authorizations that users or token exchanges have made
  firstLapse, \* jti -> lapse of the first mark SET on it, 0 if never marked
  late,       \* slot -> its replay check ran after the first mark
  redeemed    \* jti -> number of times its secret was sent upstream

serverVars  == <<cfg>>
slotVars    == <<pc, req, reply, answer, late>>
upVars      == <<upstream, secrets>>
historyVars == <<grants, firstLapse, redeemed>>
vars == <<tokenVars, serverVars, slotVars, upVars, historyVars>>

-----------------------------------------------------------------------------

ServerCfg == [provider : Providers, scope : ScopeHashes]

OneTimeTypes == {"auth_code", "refresh_token"}

(* A request in flight: where it was addressed, the server configuration   *)
(* of the process that took it, the authenticated client, the credential.  *)
Request ==
  [ns : Namespaces, server : ServerCfg, client : Clients,
   tok : {t \in Token : t.type \in OneTimeTypes}]

(* A token exchange has no credential of the gateway's.                    *)
Exchange == [ns : Namespaces, server : ServerCfg, client : Clients]

GrantPcs == {"exists", "set", "upstream", "userinfo"}
Pcs == GrantPcs \cup {"idle", "exchange"}

Authorization == [ns : Namespaces, base : BasePayload]

TypeOK ==
  /\ TokenServiceTypeOK
  /\ cfg \in [Namespaces -> ServerCfg]
  /\ pc \in [Requests -> Pcs]
  /\ req \in [Requests -> Request \cup Exchange \cup {NoRequest}]
  /\ \A r \in Requests :
       /\ pc[r] \in GrantPcs => req[r] \in Request /\ req[r].tok \in tokens
       /\ pc[r] = "exchange" => req[r] \in Exchange
  /\ reply \in [Requests -> Nat]
  /\ answer \in [Requests -> {"none", "ok", "error"}]
  /\ late \in [Requests -> BOOLEAN]
  /\ upstream \subseteq Nat
  /\ secrets \in Nat
  /\ grants \subseteq Authorization
  /\ firstLapse \in [Jtis -> Nat]
  /\ redeemed \in [Jtis -> Nat]

Init ==
  /\ TokenServiceInit
  /\ cfg \in [Namespaces -> ServerCfg]
  /\ pc = [r \in Requests |-> "idle"]
  /\ req = [r \in Requests |-> NoRequest]
  /\ reply = [r \in Requests |-> 0]
  /\ answer = [r \in Requests |-> "none"]
  /\ late = [r \in Requests |-> FALSE]
  /\ upstream = {}
  /\ secrets = 0
  /\ grants = {}
  /\ firstLapse = [j \in Jtis |-> 0]
  /\ redeemed = [j \in Jtis |-> 0]

-----------------------------------------------------------------------------
(* The slot of a request.                                                  *)

Goto(r, label) == pc' = [pc EXCEPT ![r] = label]

(* The response is sent and the slot is free again.                        *)
Answer(r, kind) ==
  /\ Goto(r, "idle")
  /\ req' = [req EXCEPT ![r] = NoRequest]
  /\ reply' = [reply EXCEPT ![r] = 0]
  /\ answer' = [answer EXCEPT ![r] = kind]
  /\ late' = [late EXCEPT ![r] = FALSE]

Base(provider, client, scope) ==
  [provider |-> provider, client |-> client, scope |-> scope]

(* The checks each grant makes before its first await on Redis: the client *)
(* may use the grant, the provider supports it, the credential decrypts.   *)
Admissible(ns, c, t) ==
  /\ t.type \in ClientGrants[c]
  /\ t.type = "refresh_token" => cfg[ns].provider \in CanRefresh
  /\ Decrypts(t, ns, t.type)

(* Client c has authenticated and presents one of the tokens it holds.     *)
Present(r, ns, c, t) ==
  /\ pc[r] = "idle"
  /\ t.type \in OneTimeTypes
  /\ Admissible(ns, c, t)
  /\ Goto(r, "exists")
  /\ req' = [req EXCEPT ![r] =
               [ns |-> ns, server |-> cfg[ns], client |-> c, tok |-> t]]
  /\ answer' = [answer EXCEPT ![r] = "none"]
  /\ UNCHANGED <<reply, late, tokenVars, serverVars, upVars, historyVars>>

PresentRefused(r, ns, c, t) ==
  /\ pc[r] = "idle"
  /\ t.type \in OneTimeTypes
  /\ ~ Admissible(ns, c, t)
  /\ Answer(r, "error")
  /\ UNCHANGED <<tokenVars, serverVars, upVars, historyVars>>

(* #checkJtiReplay up to the reply to EXISTS.                              *)
JtiExists(r) ==
  /\ pc[r] = "exists"
  /\ ~ JtiKeyExists(req[r].tok.jti)
  /\ Goto(r, "set")
  /\ late' = [late EXCEPT ![r] = firstLapse[req[r].tok.jti] # 0]
  /\ UNCHANGED <<req, reply, answer, tokenVars, serverVars, upVars, historyVars>>

JtiReplayed(r) ==
  /\ pc[r] = "exists"
  /\ JtiKeyExists(req[r].tok.jti)
  /\ Answer(r, "error")
  /\ UNCHANGED <<tokenVars, serverVars, upVars, historyVars>>

\* mutant: any client may redeem the credential
MatchesCredentialOfAnyClient(q) ==
  /\ q.tok.base.provider = q.server.provider
  /\ q.tok.type = "refresh_token" => q.tok.base.scope = q.server.scope

(* The provider, client and scope checks that follow the replay check.     *)
MatchesCredential(q) ==
  /\ q.tok.base.provider = q.server.provider
  /\ q.tok.base.client = q.client
  /\ q.tok.type = "refresh_token" => q.tok.base.scope = q.server.scope

(* Redis applies SET jti:<jti> for slot r.                                 *)
MarkJti(r) ==
  LET t == req[r].tok IN
  /\ jtiKey' = [jtiKey EXCEPT ![t.jti] = JtiKeyLapse(t)]
  /\ firstLapse' = [firstLapse EXCEPT ![t.jti] = IF @ = 0 THEN JtiKeyLapse(t) ELSE @]

\* mutant: the handler goes on without waiting for SET
JtiSetUnawaited(r) ==
  /\ pc[r] = "set"
  /\ IF MatchesCredential(req[r])
     THEN /\ Goto(r, "upstream")
          /\ UNCHANGED <<req, reply, answer, late>>
     ELSE Answer(r, "error")
  /\ UNCHANGED <<tokenVars, serverVars, upVars, historyVars>>

(* #checkJtiReplay after SET, and the handler on to the upstream call.     *)
JtiSet(r) ==
  /\ pc[r] = "set"
  /\ MarkJti(r)
  /\ IF MatchesCredential(req[r])
     THEN /\ Goto(r, "upstream")
          /\ UNCHANGED <<req, reply, answer, late>>
     ELSE Answer(r, "error")
  /\ UNCHANGED <<now, tokens, minted, serverVars, upVars, grants, redeemed>>

(* EXISTS or SET rejects: unwrapAuthCode and unwrapRefreshToken answer     *)
(* invalid_grant.  A SET whose reply was lost may have been applied.       *)
RedisFails(r) ==
  /\ pc[r] \in {"exists", "set"}
  /\ \/ UNCHANGED <<jtiKey, firstLapse>>
     \/ pc[r] = "set" /\ MarkJti(r)
  /\ Answer(r, "error")
  /\ UNCHANGED <<now, tokens, minted, serverVars, upVars, grants, redeemed>>

-----------------------------------------------------------------------------
(* The upstream provider.                                                  *)

Redeem(r) == redeemed' = [redeemed EXCEPT ![req[r].tok.jti] = @ + 1]

(* What the provider does with a secret it honours: a code is consumed, a  *)
(* refresh token is kept or replaced; a new refresh token may be issued.   *)
(* `issued` is the secret in its response, 0 if there is none.             *)
ProviderGrants(t, issued) ==
  /\ t.secret \in upstream
  /\ \/ /\ issued = 0
        /\ upstream' = IF t.type = "auth_code" THEN upstream \ {t.secret} ELSE upstream
        /\ UNCHANGED secrets
     \/ /\ secrets < MaxSecrets
        /\ issued = secrets + 1
        /\ secrets' = issued
        /\ upstream' = (upstream \ {t.secret}) \cup {issued}

(* authCodeGrant / refreshTokenGrant answers with tokens.                  *)
UpstreamGrant(r) ==
  /\ pc[r] = "upstream"
  /\ \E issued \in {0, secrets + 1} :
       /\ ProviderGrants(req[r].tok, issued)
       /\ reply' = [reply EXCEPT ![r] = issued]
  /\ Redeem(r)
  /\ Goto(r, "userinfo")
  /\ UNCHANGED <<req, answer, late, tokenVars, serverVars, grants, firstLapse>>

(* The provider refuses, cannot be reached, or grants and the response is  *)
(* lost: the handler throws and the client is answered with an error.      *)
UpstreamFails(r) ==
  /\ pc[r] = "upstream"
  /\ \/ UNCHANGED upVars
     \/ \E issued \in {0, secrets + 1} : ProviderGrants(req[r].tok, issued)
  /\ Redeem(r)
  /\ Answer(r, "error")
  /\ UNCHANGED <<tokenVars, serverVars, grants, firstLapse>>

\* mutant: a refresh without a new secret leaves the client without one
RefreshSecretDropped(q, issued) == issued

(* The refresh secret the client's new tokens carry: a refresh that brings *)
(* no new one hands the old one back.                                      *)
RefreshSecret(q, issued) ==
  IF q.tok.type = "refresh_token" /\ issued = 0 THEN q.tok.secret ELSE issued

(* getUserId answers and the handler wraps the token response.             *)
UserInfo(r) ==
  /\ pc[r] = "userinfo"
  /\ \E ttl \in ExpiresIn :
       WrapTokenResponse(req[r].ns,
         Base(req[r].server.provider, req[r].client, req[r].tok.base.scope),
         ttl, RefreshSecret(req[r], reply[r]))
  /\ Answer(r, "ok")
  /\ UNCHANGED <<now, jtiKey, serverVars, upVars, historyVars>>

UserInfoFails(r) ==
  /\ pc[r] = "userinfo"
  /\ Answer(r, "error")
  /\ UNCHANGED <<tokenVars, serverVars, upVars, historyVars>>

-----------------------------------------------------------------------------
(* Token exchange.                                                         *)

PresentSubject(r, ns, c) ==
  /\ pc[r] = "idle"
  /\ "token_exchange" \in ClientGrants[c]
  /\ cfg[ns].provider \in CanExchange
  /\ Goto(r, "exchange")
  /\ req' = [req EXCEPT ![r] = [ns |-> ns, server |-> cfg[ns], client |-> c]]
  /\ answer' = [answer EXCEPT ![r] = "none"]
  /\ UNCHANGED <<reply, late, tokenVars, serverVars, upVars, historyVars>>

(* getTokenExpiry and getUserId vouch for a subject token that has not     *)
(* expired: an access token with what is left of its life.                 *)
ExchangeSubject(r) ==
  LET base == Base(req[r].server.provider, req[r].client, req[r].server.scope) IN
  /\ pc[r] = "exchange"
  /\ \E left \in ExpiresIn \ {0} : WrapTokenResponse(req[r].ns, base, left, 0)
  /\ grants' = grants \cup {[ns |-> req[r].ns, base |-> base]}
  /\ Answer(r, "ok")
  /\ UNCHANGED <<now, jtiKey, serverVars, upVars, firstLapse, redeemed>>

ExchangeFails(r) ==
  /\ pc[r] = "exchange"
  /\ Answer(r, "error")
  /\ UNCHANGED <<tokenVars, serverVars, upVars, historyVars>>

-----------------------------------------------------------------------------
(* The environment.                                                        *)

(* The OAuth callback: a user has authorized c, the upstream has issued a  *)
(* code, and the gateway wraps it with the scope hash of the state token,  *)
(* which may be older than the server's current one.                       *)
Callback(ns, c, scope) ==
  LET base == Base(cfg[ns].provider, c, scope) IN
  /\ secrets < MaxSecrets
  /\ secrets' = secrets + 1
  /\ upstream' = upstream \cup {secrets + 1}
  /\ WrapAuthCode(ns, base, secrets + 1)
  /\ grants' = grants \cup {[ns |-> ns, base |-> base]}
  /\ UNCHANGED <<now, jtiKey, serverVars, slotVars, firstLapse, redeemed>>

(* A rollout changes a server's provider or scopes; requests in flight     *)
(* keep the configuration of the process that took them.                   *)
Redeploy(ns, s) ==
  /\ s # cfg[ns]
  /\ cfg' = [cfg EXCEPT ![ns] = s]
  /\ UNCHANGED <<tokenVars, slotVars, upVars, historyVars>>

(* The replica dies with the request; the client sees a broken connection. *)
Crash(r) ==
  /\ pc[r] # "idle"
  /\ Answer(r, "error")
  /\ UNCHANGED <<tokenVars, serverVars, upVars, historyVars>>

Pass == Tick /\ UNCHANGED <<serverVars, slotVars, upVars, historyVars>>

Advance(r) ==
  \/ JtiExists(r) \/ JtiReplayed(r) \/ JtiSet(r) \/ RedisFails(r)
  \/ UpstreamGrant(r) \/ UpstreamFails(r)
  \/ UserInfo(r) \/ UserInfoFails(r)
  \/ ExchangeSubject(r) \/ ExchangeFails(r)

Arrive(r) ==
  \E ns \in Namespaces, c \in Clients :
    \/ \E t \in tokens : Present(r, ns, c, t) \/ PresentRefused(r, ns, c, t)
    \/ PresentSubject(r, ns, c)

Next ==
  \/ \E r \in Requests : Arrive(r) \/ Advance(r) \/ Crash(r)
  \/ \E ns \in Namespaces, c \in Clients, scope \in ScopeHashes : Callback(ns, c, scope)
  \/ \E ns \in Namespaces, s \in ServerCfg : Redeploy(ns, s)
  \/ Pass

Spec == Init /\ [][Next]_vars

-----------------------------------------------------------------------------
(* Properties.                                                             *)

Admitted(r) == pc[r] \in {"set", "upstream", "userinfo"}

(* A request whose replay check ran after its credential had first been    *)
(* marked gets through only once that mark has lapsed, and when the        *)
(* credential is an authorization code, only because the code expired      *)
(* between its decryption and the check (unwrapAuthCode,                   *)
(* unwrapRefreshToken and #checkJtiReplay).                                *)
ReplayOnlyAfterLapse ==
  \A r \in Requests : Admitted(r) /\ late[r] =>
    LET t == req[r].tok IN
    /\ firstLapse[t.jti] <= now
    /\ t.type = "auth_code" => Expired(t)

(* Once the secret of a credential has been sent upstream, whatever failed *)
(* or crashed since, the credential is marked as used, and racing SETs do  *)
(* not remove the mark before its time (the SET is awaited before          *)
(* authCodeGrant or refreshTokenGrant is called).                          *)
MarkOutlivesRedemption ==
  \A j \in Jtis : redeemed[j] > 0 =>
    /\ firstLapse[j] # 0
    /\ now < firstLapse[j] => JtiKeyExists(j)

(* Every token a client can hold stems from an authorization of the same   *)
(* client with the same provider, namespace and scopes: no chain of code   *)
(* and refresh grants, by clients presenting each other's tokens at the    *)
(* wrong namespaces or after a rollout, changes whom a token is for.       *)
TokensTraceToAuthorization ==
  \A t \in tokens : [ns |-> t.ns, base |-> t.base] \in grants

(* When requests do not overlap, a refresh that is answered leaves the     *)
(* client with a refresh token that the provider still honours, whether or *)
(* not the provider sent a new one (the comment in refreshTokenHandler).   *)
RefreshAnswerUsable ==
  [][\A r \in Requests :
       pc[r] = "userinfo" /\ req[r].tok.type = "refresh_token" /\ answer'[r] = "ok" =>
         \E t \in tokens' \ tokens : t.type = "refresh_token" /\ t.secret \in upstream']_vars

(* What config.example.yml says of these two grants: they "are skipped      *)
(* (they have JTI replay protection)".  Codes and refresh tokens are        *)
(* redeemed once; EXISTS and SET being two round trips, and a refresh       *)
(* token outliving its mark, they may be redeemed again.                    *)
RedeemedOnce ==
  \A t \in tokens : t.type \in {"auth_code", "refresh_token"} => redeemed[t.jti] <= 1

-----------------------------------------------------------------------------
(* The inductive invariant behind the properties (TokenEndpointProofs).    *)

(* jtis are not reused, and the type of a token says whether it expires.   *)
TokenInv ==
  /\ \A t \in tokens : t.jti <= minted
  /\ \A s, t \in tokens : s.jti = t.jti => s = t
  /\ \A t \in tokens :
       /\ t.type = "auth_code" => t.exp # NoExp
       /\ t.type = "refresh_token" => t.exp = NoExp

(* How far a first mark can reach: to the expiry of its credential, or to  *)
(* DefaultJtiExp from now.                                                 *)
LapseBound(t) ==
  IF t.exp # NoExp THEN firstLapse[t.jti] = t.exp
                   ELSE firstLapse[t.jti] <= now + DefaultJtiExp

KeyInv ==
  /\ \A j \in Jtis : firstLapse[j] <= jtiKey[j]
  /\ \A j \in Jtis : redeemed[j] > 0 => firstLapse[j] # 0
  /\ \A j \in Jtis : j > minted => firstLapse[j] = 0
  /\ \A t \in tokens :
       t.type \in OneTimeTypes /\ firstLapse[t.jti] # 0 => LapseBound(t)

SlotInv ==
  \A r \in Requests :
    /\ pc[r] \in {"upstream", "userinfo"} => firstLapse[req[r].tok.jti] # 0
    /\ Admitted(r) /\ late[r] =>
         firstLapse[req[r].tok.jti] # 0 /\ firstLapse[req[r].tok.jti] <= now

(* From decryption on, a request is for the namespace of its credential,   *)
(* and beyond the checks for its provider and client too.                  *)
LineageInv ==
  \A r \in Requests :
    /\ pc[r] \in GrantPcs => req[r].ns = req[r].tok.ns
    /\ pc[r] \in {"upstream", "userinfo"} => MatchesCredential(req[r])

=============================================================================
