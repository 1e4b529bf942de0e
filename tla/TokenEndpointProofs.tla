------------------------- MODULE TokenEndpointProofs -------------------------
(***************************************************************************)
(* Proofs about TokenEndpoint, for every number of slots, clients, servers *)
(* and tokens.                                                             *)
(***************************************************************************)
EXTENDS TokenEndpoint, TLAPS

(***************************************************************************)
(* What the operators of TokenService build.                               *)
(***************************************************************************)

LEMMA JweType ==
  ASSUME minted \in Nat, NEW n \in Nat \ {0}, CanMint(n),
         NEW type \in TokenTypes, NEW ns \in Namespaces, NEW base \in BasePayload,
         NEW secret \in Nat, NEW exp \in Nat
  PROVE  Jwe(n, type, ns, base, secret, exp) \in Token
<1>1. minted + n \in Jtis
  BY BoundAssumption DEF CanMint, Jtis
<1> QED
  BY <1>1 DEF Jwe, Token

LEMMA WrapAuthCodeType ==
  ASSUME TokenServiceTypeOK, NEW ns \in Namespaces, NEW base \in BasePayload,
         NEW secret \in Nat, WrapAuthCode(ns, base, secret)
  PROVE  minted' \in Nat /\ tokens' \subseteq Token /\ tokens \subseteq tokens'
<1>1. Jwe(1, "auth_code", ns, base, secret, now + AuthCodeTtl) \in Token
  BY JweType, TtlAssumption DEF WrapAuthCode, TokenServiceTypeOK, TokenTypes
<1> QED
  BY <1>1 DEF WrapAuthCode, TokenServiceTypeOK

LEMMA WrapTokenResponseType ==
  ASSUME TokenServiceTypeOK, NEW ns \in Namespaces, NEW base \in BasePayload,
         NEW expiresIn \in Nat, NEW secret \in Nat,
         WrapTokenResponse(ns, base, expiresIn, secret)
  PROVE  minted' \in Nat /\ tokens' \subseteq Token /\ tokens \subseteq tokens'
<1>1. minted \in Nat /\ now \in Nat /\ tokens \subseteq Token
  BY DEF TokenServiceTypeOK
<1>2. now + AccessLife(expiresIn) \in Nat
  BY <1>1, TtlAssumption DEF AccessLife
<1>3. CanMint(2) => CanMint(1)
  BY <1>1, BoundAssumption DEF CanMint
<1>4. CASE secret = 0
  <2>1. Jwe(1, "access_token", ns, base, 0, now + AccessLife(expiresIn)) \in Token
    BY <1>1, <1>2, <1>4, JweType DEF WrapTokenResponse, TokenTypes
  <2> QED
    BY <1>1, <1>4, <2>1 DEF WrapTokenResponse
<1>5. CASE secret # 0
  <2>1. Jwe(1, "access_token", ns, base, 0, now + AccessLife(expiresIn)) \in Token
    BY <1>1, <1>2, <1>3, <1>5, JweType DEF WrapTokenResponse, TokenTypes
  <2>2. Jwe(2, "refresh_token", ns, base, secret, NoExp) \in Token
    BY <1>1, <1>5, JweType DEF WrapTokenResponse, TokenTypes, NoExp
  <2> QED
    BY <1>1, <1>5, <2>1, <2>2 DEF WrapTokenResponse
<1> QED
  BY <1>4, <1>5

LEMMA JtiKeyLapseType ==
  ASSUME TokenServiceTypeOK, NEW t \in Token
  PROVE  JtiKeyLapse(t) \in Nat /\ JtiKeyLapse(t) # 0
BY TtlAssumption DEF JtiKeyLapse, TokenServiceTypeOK, Token, NoExp

(***************************************************************************)
(* Type correctness.                                                       *)
(***************************************************************************)

LEMMA AnswerType ==
  ASSUME TypeOK, NEW r \in Requests, NEW kind \in {"ok", "error"},
         Answer(r, kind), tokens \subseteq tokens'
  PROVE  /\ pc' \in [Requests -> Pcs]
         /\ req' \in [Requests -> Request \cup Exchange \cup {NoRequest}]
         /\ \A s \in Requests :
              /\ pc'[s] \in GrantPcs => req'[s] \in Request /\ req'[s].tok \in tokens'
              /\ pc'[s] = "exchange" => req'[s] \in Exchange
         /\ reply' \in [Requests -> Nat]
         /\ answer' \in [Requests -> {"none", "ok", "error"}]
         /\ late' \in [Requests -> BOOLEAN]
BY DEF TypeOK, Answer, Goto, Pcs, GrantPcs

LEMMA GotoType ==
  ASSUME TypeOK, NEW r \in Requests, NEW label \in GrantPcs, pc[r] \in GrantPcs,
         Goto(r, label), UNCHANGED <<req, tokens>>
  PROVE  /\ pc' \in [Requests -> Pcs]
         /\ req' \in [Requests -> Request \cup Exchange \cup {NoRequest}]
         /\ \A s \in Requests :
              /\ pc'[s] \in GrantPcs => req'[s] \in Request /\ req'[s].tok \in tokens'
              /\ pc'[s] = "exchange" => req'[s] \in Exchange
BY DEF TypeOK, Goto, Pcs, GrantPcs

LEMMA RequestToken ==
  ASSUME TypeOK, NEW r \in Requests, pc[r] \in GrantPcs
  PROVE  /\ req[r].tok \in Token
         /\ req[r].tok \in tokens
         /\ req[r].tok.jti \in Jtis
         /\ req[r].tok.secret \in Nat
         /\ req[r].tok.type \in OneTimeTypes
         /\ req[r].tok.base \in BasePayload
         /\ req[r].ns \in Namespaces
         /\ req[r].client \in Clients
         /\ req[r].server \in ServerCfg
<1>1. req[r] \in Request /\ req[r].tok \in tokens
  BY DEF TypeOK
<1>2. req[r].tok \in Token /\ req[r].tok.type \in OneTimeTypes
  BY <1>1 DEF Request
<1> QED
  BY <1>1, <1>2 DEF Request, Token

LEMMA MarkJtiType ==
  ASSUME TypeOK, NEW r \in Requests, pc[r] \in GrantPcs, MarkJti(r)
  PROVE  jtiKey' \in [Jtis -> Nat] /\ firstLapse' \in [Jtis -> Nat]
<1>1. JtiKeyLapse(req[r].tok) \in Nat
  BY RequestToken, JtiKeyLapseType DEF TypeOK
<1> QED
  BY <1>1, RequestToken DEF MarkJti, TypeOK, TokenServiceTypeOK

LEMMA ProviderGrantsType ==
  ASSUME TypeOK, NEW t, NEW issued \in {0, secrets + 1}, ProviderGrants(t, issued)
  PROVE  upstream' \subseteq Nat /\ secrets' \in Nat /\ issued \in Nat
<1>1. secrets \in Nat /\ upstream \subseteq Nat /\ issued \in Nat
  BY DEF TypeOK
<1>2. secrets' \in Nat
  BY <1>1 DEF ProviderGrants
<1>3. upstream' \subseteq upstream \cup {issued}
  BY Zenon DEF ProviderGrants
<1> QED
  BY <1>1, <1>2, <1>3

LEMMA BaseType ==
  ASSUME NEW p \in Providers, NEW c \in Clients, NEW scope \in ScopeHashes
  PROVE  Base(p, c, scope) \in BasePayload
BY DEF Base, BasePayload

LEMMA TypeInit == Init => TypeOK
BY DEF Init, TokenServiceInit, TypeOK, TokenServiceTypeOK, Pcs, GrantPcs

LEMMA TypeStep == TypeOK /\ [Next]_vars => TypeOK'
<1> SUFFICES ASSUME TypeOK, [Next]_vars PROVE TypeOK'
  OBVIOUS
<1> USE DEF tokenVars, serverVars, slotVars, upVars, historyVars
<1>1. ASSUME NEW r \in Requests, NEW ns \in Namespaces, NEW c \in Clients,
             NEW t \in tokens, Present(r, ns, c, t)
      PROVE  TypeOK'
  <2>1. [ns |-> ns, server |-> cfg[ns], client |-> c, tok |-> t] \in Request
    BY <1>1 DEF Present, Request, TypeOK, TokenServiceTypeOK
  <2> QED
    BY <1>1, <2>1 DEF Present, Goto, TypeOK, TokenServiceTypeOK, Pcs, GrantPcs
<1>2. ASSUME NEW r \in Requests, NEW ns \in Namespaces, NEW c \in Clients,
             NEW t \in tokens, PresentRefused(r, ns, c, t)
      PROVE  TypeOK'
  BY <1>2, AnswerType DEF PresentRefused, TypeOK, TokenServiceTypeOK
<1>3. ASSUME NEW r \in Requests, NEW ns \in Namespaces, NEW c \in Clients,
             PresentSubject(r, ns, c)
      PROVE  TypeOK'
  <2>1. [ns |-> ns, server |-> cfg[ns], client |-> c] \in Exchange
    BY DEF Exchange, TypeOK
  <2> QED
    BY <1>3, <2>1 DEF PresentSubject, Goto, TypeOK, TokenServiceTypeOK, Pcs, GrantPcs
<1>4. ASSUME NEW r \in Requests, JtiExists(r)
      PROVE  TypeOK'
  <2>1. late' \in [Requests -> BOOLEAN]
    BY <1>4 DEF JtiExists, TypeOK
  <2>2. pc[r] \in GrantPcs
    BY <1>4 DEF JtiExists, GrantPcs
  <2> QED
    BY <1>4, <2>1, <2>2, GotoType DEF JtiExists, TypeOK, TokenServiceTypeOK, GrantPcs
<1>5. ASSUME NEW r \in Requests, JtiReplayed(r)
      PROVE  TypeOK'
  BY <1>5, AnswerType DEF JtiReplayed, TypeOK, TokenServiceTypeOK
<1>6. ASSUME NEW r \in Requests, JtiSet(r)
      PROVE  TypeOK'
  <2>1. pc[r] \in GrantPcs
    BY <1>6 DEF JtiSet, GrantPcs
  <2>2. jtiKey' \in [Jtis -> Nat] /\ firstLapse' \in [Jtis -> Nat]
    BY <1>6, <2>1, MarkJtiType DEF JtiSet
  <2>3. CASE MatchesCredential(req[r])
    BY <1>6, <2>1, <2>2, <2>3, GotoType DEF JtiSet, TypeOK, TokenServiceTypeOK, GrantPcs
  <2>4. CASE ~ MatchesCredential(req[r])
    BY <1>6, <2>2, <2>4, AnswerType DEF JtiSet, TypeOK, TokenServiceTypeOK
  <2> QED
    BY <2>3, <2>4
<1>7. ASSUME NEW r \in Requests, RedisFails(r)
      PROVE  TypeOK'
  <2>1. pc[r] \in GrantPcs
    BY <1>7 DEF RedisFails, GrantPcs
  <2>2. jtiKey' \in [Jtis -> Nat] /\ firstLapse' \in [Jtis -> Nat]
    BY <1>7, <2>1, MarkJtiType DEF RedisFails, TypeOK, TokenServiceTypeOK
  <2> QED
    BY <1>7, <2>2, AnswerType DEF RedisFails, TypeOK, TokenServiceTypeOK
<1>8. ASSUME NEW r \in Requests, UpstreamGrant(r)
      PROVE  TypeOK'
  <2>1. pc[r] \in GrantPcs
    BY <1>8 DEF UpstreamGrant, GrantPcs
  <2>2. redeemed' \in [Jtis -> Nat]
    BY <1>8, <2>1, RequestToken DEF UpstreamGrant, Redeem, TypeOK
  <2>3. /\ upstream' \subseteq Nat
        /\ secrets' \in Nat
        /\ reply' \in [Requests -> Nat]
    <3>1. PICK issued \in {0, secrets + 1} :
                 /\ ProviderGrants(req[r].tok, issued)
                 /\ reply' = [reply EXCEPT ![r] = issued]
      BY <1>8 DEF UpstreamGrant
    <3> QED
      BY <3>1, ProviderGrantsType DEF TypeOK
  <2> QED
    BY <1>8, <2>1, <2>2, <2>3, GotoType DEF UpstreamGrant, TypeOK, TokenServiceTypeOK, GrantPcs
<1>9. ASSUME NEW r \in Requests, UpstreamFails(r)
      PROVE  TypeOK'
  <2>1. pc[r] \in GrantPcs
    BY <1>9 DEF UpstreamFails, GrantPcs
  <2>2. redeemed' \in [Jtis -> Nat]
    BY <1>9, <2>1, RequestToken DEF UpstreamFails, Redeem, TypeOK
  <2>3. upstream' \subseteq Nat /\ secrets' \in Nat
    BY <1>9, ProviderGrantsType DEF UpstreamFails, TypeOK
  <2> QED
    BY <1>9, <2>2, <2>3, AnswerType DEF UpstreamFails, TypeOK, TokenServiceTypeOK
<1>10. ASSUME NEW r \in Requests, UserInfo(r)
       PROVE  TypeOK'
  <2> DEFINE base == Base(req[r].server.provider, req[r].client, req[r].tok.base.scope)
             secret == RefreshSecret(req[r], reply[r])
  <2>1. pc[r] \in GrantPcs
    BY <1>10 DEF UserInfo, GrantPcs
  <2>2. base \in BasePayload /\ secret \in Nat
    BY <2>1, RequestToken, BaseType DEF ServerCfg, BasePayload, RefreshSecret, TypeOK
  <2>3. PICK ttl \in ExpiresIn : WrapTokenResponse(req[r].ns, base, ttl, secret)
    BY <1>10 DEF UserInfo
  <2>4. minted' \in Nat /\ tokens' \subseteq Token /\ tokens \subseteq tokens'
    BY <2>1, <2>2, <2>3, RequestToken, WrapTokenResponseType, EndpointAssumption DEF TypeOK
  <2> QED
    BY <1>10, <2>4, AnswerType DEF UserInfo, TypeOK, TokenServiceTypeOK
<1>11. ASSUME NEW r \in Requests, UserInfoFails(r)
       PROVE  TypeOK'
  BY <1>11, AnswerType DEF UserInfoFails, TypeOK, TokenServiceTypeOK
<1>12. ASSUME NEW r \in Requests, ExchangeSubject(r)
       PROVE  TypeOK'
  <2> DEFINE base == Base(req[r].server.provider, req[r].client, req[r].server.scope)
  <2>1. req[r] \in Exchange
    BY <1>12 DEF ExchangeSubject, TypeOK
  <2>2. base \in BasePayload /\ req[r].ns \in Namespaces
    BY <2>1, BaseType DEF Exchange, ServerCfg
  <2>3. PICK left \in ExpiresIn \ {0} : WrapTokenResponse(req[r].ns, base, left, 0)
    BY <1>12 DEF ExchangeSubject
  <2>4. minted' \in Nat /\ tokens' \subseteq Token /\ tokens \subseteq tokens'
    BY <2>2, <2>3, WrapTokenResponseType, EndpointAssumption DEF TypeOK
  <2>5. grants' \subseteq Authorization
    BY <1>12, <2>2 DEF ExchangeSubject, Authorization, TypeOK
  <2> QED
    BY <1>12, <2>4, <2>5, AnswerType DEF ExchangeSubject, TypeOK, TokenServiceTypeOK
<1>13. ASSUME NEW r \in Requests, ExchangeFails(r)
       PROVE  TypeOK'
  BY <1>13, AnswerType DEF ExchangeFails, TypeOK, TokenServiceTypeOK
<1>14. ASSUME NEW r \in Requests, Crash(r)
       PROVE  TypeOK'
  BY <1>14, AnswerType DEF Crash, TypeOK, TokenServiceTypeOK
<1>15. ASSUME NEW ns \in Namespaces, NEW c \in Clients, NEW scope \in ScopeHashes,
              Callback(ns, c, scope)
       PROVE  TypeOK'
  <2> DEFINE base == Base(cfg[ns].provider, c, scope)
  <2>1. base \in BasePayload
    BY BaseType DEF TypeOK, ServerCfg
  <2>2. minted' \in Nat /\ tokens' \subseteq Token /\ tokens \subseteq tokens'
    BY <1>15, <2>1, WrapAuthCodeType DEF Callback, TypeOK
  <2>3. grants' \subseteq Authorization
    BY <1>15, <2>1 DEF Callback, Authorization, TypeOK
  <2> QED
    BY <1>15, <2>2, <2>3 DEF Callback, TypeOK, TokenServiceTypeOK
<1>16. ASSUME NEW ns \in Namespaces, NEW s \in ServerCfg, Redeploy(ns, s)
       PROVE  TypeOK'
  BY <1>16 DEF Redeploy, TypeOK, TokenServiceTypeOK
<1>17. CASE Pass
  BY <1>17 DEF Pass, Tick, TypeOK, TokenServiceTypeOK
<1>18. CASE UNCHANGED vars
  BY <1>18 DEF vars, TypeOK, TokenServiceTypeOK
<1> QED
  BY <1>1, <1>2, <1>3, <1>4, <1>5, <1>6, <1>7, <1>8, <1>9, <1>10, <1>11, <1>12,
     <1>13, <1>14, <1>15, <1>16, <1>17, <1>18 DEF Next, Arrive, Advance

(* Every variable keeps its type: a slot past the decryption holds a       *)
(* one-time credential the gateway minted, a jti is never out of range.    *)
THEOREM TypeCorrect == Spec => []TypeOK
BY TypeInit, TypeStep, PTL DEF Spec

(***************************************************************************)
(* Minting: every step keeps the tokens there are and adds tokens with     *)
(* fresh jtis only.                                                        *)
(***************************************************************************)

Minting ==
  /\ TokenInv'
  /\ minted <= minted'
  /\ tokens \subseteq tokens'
  /\ \A t \in tokens' \ tokens : t.jti > minted

LEMMA WrapAuthCodeMints ==
  ASSUME TypeOK, TokenInv, NEW ns, NEW base, NEW secret, WrapAuthCode(ns, base, secret)
  PROVE  Minting
<1>1. minted \in Nat /\ now \in Nat /\ \A t \in tokens : t.jti \in Nat
  BY BoundAssumption DEF TypeOK, TokenServiceTypeOK, Token, Jtis
<1> DEFINE new == Jwe(1, "auth_code", ns, base, secret, now + AuthCodeTtl)
<1>2. new.jti = minted + 1 /\ new.type = "auth_code" /\ new.exp = now + AuthCodeTtl
  BY DEF Jwe
<1>3. tokens' = tokens \cup {new} /\ minted' = minted + 1
  BY DEF WrapAuthCode
<1>4. new.exp # NoExp
  BY <1>1, <1>2, TtlAssumption DEF NoExp
<1> HIDE DEF new
<1> QED
  BY <1>1, <1>2, <1>3, <1>4 DEF Minting, TokenInv

LEMMA WrapTokenResponseMints ==
  ASSUME TypeOK, TokenInv, NEW ns, NEW base, NEW expiresIn, NEW secret,
         WrapTokenResponse(ns, base, expiresIn, secret)
  PROVE  Minting
<1>1. minted \in Nat /\ now \in Nat /\ \A t \in tokens : t.jti \in Nat
  BY BoundAssumption DEF TypeOK, TokenServiceTypeOK, Token, Jtis
<1> DEFINE access  == Jwe(1, "access_token", ns, base, 0, now + AccessLife(expiresIn))
           refresh == Jwe(2, "refresh_token", ns, base, secret, NoExp)
<1>2. /\ access.jti = minted + 1 /\ access.type = "access_token"
      /\ refresh.jti = minted + 2 /\ refresh.type = "refresh_token" /\ refresh.exp = NoExp
  BY DEF Jwe
<1>3. \/ tokens' = tokens \cup {access} /\ minted' = minted + 1
      \/ tokens' = tokens \cup {access, refresh} /\ minted' = minted + 2
  BY DEF WrapTokenResponse
<1> HIDE DEF access, refresh
<1> QED
  BY <1>1, <1>2, <1>3 DEF Minting, TokenInv

LEMMA StepMints ==
  ASSUME TypeOK, TokenInv, [Next]_vars
  PROVE  Minting
<1>1. UNCHANGED <<tokens, minted>> => Minting
  BY DEF Minting, TokenInv, TypeOK, TokenServiceTypeOK
<1>2. ASSUME NEW r \in Requests, Arrive(r) PROVE Minting
  BY <1>1, <1>2 DEF Arrive, Present, PresentRefused, PresentSubject, tokenVars
<1>3. ASSUME NEW r \in Requests, Crash(r) PROVE Minting
  BY <1>1, <1>3 DEF Crash, tokenVars
<1>4. ASSUME NEW r \in Requests, UserInfo(r) PROVE Minting
  BY <1>4, WrapTokenResponseMints DEF UserInfo
<1>5. ASSUME NEW r \in Requests, ExchangeSubject(r) PROVE Minting
  BY <1>5, WrapTokenResponseMints DEF ExchangeSubject
<1>6. ASSUME NEW r \in Requests, Advance(r), ~ UserInfo(r), ~ ExchangeSubject(r)
      PROVE  Minting
  BY <1>1, <1>6 DEF Advance, JtiExists, JtiReplayed, JtiSet, RedisFails, UpstreamGrant,
     UpstreamFails, UserInfoFails, ExchangeFails, tokenVars
<1>7. ASSUME NEW ns \in Namespaces, NEW c \in Clients, NEW scope \in ScopeHashes,
             Callback(ns, c, scope)
      PROVE  Minting
  BY <1>7, WrapAuthCodeMints DEF Callback
<1>8. ASSUME NEW ns \in Namespaces, NEW s \in ServerCfg, Redeploy(ns, s)
      PROVE  Minting
  BY <1>1, <1>8 DEF Redeploy, tokenVars
<1>9. CASE Pass
  BY <1>1, <1>9 DEF Pass, Tick
<1>10. CASE UNCHANGED vars
  BY <1>1, <1>10 DEF vars, tokenVars
<1> QED
  BY <1>2, <1>3, <1>4, <1>5, <1>6, <1>7, <1>8, <1>9, <1>10 DEF Next

(***************************************************************************)
(* The replay guard.                                                       *)
(***************************************************************************)

LEMMA KeyFrame ==
  ASSUME TypeOK, TypeOK', KeyInv, Minting, now <= now',
         UNCHANGED <<jtiKey, firstLapse, redeemed>>
  PROVE  KeyInv'
<1>1. \A j \in Jtis : j \in Nat /\ firstLapse[j] \in Nat
  BY BoundAssumption DEF TypeOK, Jtis
<1>2. now \in Nat /\ now' \in Nat /\ minted \in Nat /\ minted' \in Nat
  BY DEF TypeOK, TokenServiceTypeOK
<1>3. ASSUME NEW t \in tokens', t.type \in OneTimeTypes, firstLapse[t.jti] # 0
      PROVE  LapseBound(t)'
  <2>1. t.jti \in Jtis
    BY DEF TypeOK, TokenServiceTypeOK, Token
  <2>2. t \in tokens
    BY <1>3, <2>1 DEF KeyInv, Minting
  <2> QED
    BY <1>1, <1>2, <1>3, <2>1, <2>2, TtlAssumption DEF KeyInv, LapseBound
<1> QED
  BY <1>1, <1>2, <1>3 DEF KeyInv, Minting

\* A mark, once made, keeps its first lapse.
FirstLapseKept ==
  \A j \in Jtis : firstLapse[j] # 0 => firstLapse'[j] = firstLapse[j]

LEMMA KeyMark ==
  ASSUME TypeOK, KeyInv, TokenInv, NEW r \in Requests, pc[r] \in GrantPcs, MarkJti(r),
         UNCHANGED <<now, tokens, minted, redeemed>>
  PROVE  KeyInv' /\ FirstLapseKept /\ firstLapse'[req[r].tok.jti] # 0
<1> DEFINE t == req[r].tok
           lapse == JtiKeyLapse(t)
<1>1. t \in Token /\ t \in tokens /\ t.jti \in Jtis /\ t.type \in OneTimeTypes
  BY RequestToken
<1>2. lapse \in Nat /\ lapse # 0
  BY <1>1, JtiKeyLapseType DEF TypeOK
<1>3. /\ jtiKey' = [jtiKey EXCEPT ![t.jti] = lapse]
      /\ firstLapse' = [firstLapse EXCEPT ![t.jti] = IF @ = 0 THEN lapse ELSE @]
  BY DEF MarkJti
<1>4. jtiKey \in [Jtis -> Nat] /\ firstLapse \in [Jtis -> Nat] /\ now \in Nat
  BY DEF TypeOK, TokenServiceTypeOK
<1>5. lapse = IF t.exp # NoExp THEN t.exp ELSE now + DefaultJtiExp
  BY DEF JtiKeyLapse
<1>6. firstLapse'[t.jti] <= lapse
  BY <1>1, <1>2, <1>3, <1>4, <1>5 DEF KeyInv, LapseBound
<1>7. FirstLapseKept /\ firstLapse'[t.jti] # 0
  BY <1>1, <1>2, <1>3, <1>4 DEF FirstLapseKept
<1>8. \A j \in Jtis : firstLapse'[j] <= jtiKey'[j]
  BY <1>1, <1>2, <1>3, <1>4, <1>6 DEF KeyInv
<1>9. \A j \in Jtis : redeemed'[j] > 0 => firstLapse'[j] # 0
  BY <1>1, <1>2, <1>3, <1>4 DEF KeyInv
<1>10. \A j \in Jtis : j > minted' => firstLapse'[j] = 0
  <2>1. minted \in Nat /\ minted' = minted /\ t.jti <= minted
    BY <1>1 DEF TypeOK, TokenServiceTypeOK, TokenInv
  <2>2. \A j \in Jtis : j \in Nat
    BY BoundAssumption DEF Jtis
  <2>3. \A j \in Jtis : j > minted => j # t.jti
    BY <1>1, <2>1, <2>2
  <2> QED
    BY <1>1, <1>3, <1>4, <2>1, <2>3 DEF KeyInv
<1>11. ASSUME NEW s \in tokens', s.type \in OneTimeTypes, firstLapse'[s.jti] # 0
       PROVE  LapseBound(s)'
  <2>1. s \in tokens /\ s.jti \in Jtis
    BY DEF TypeOK, TokenServiceTypeOK, Token
  <2>2. CASE s = t
    BY <1>1, <1>2, <1>3, <1>4, <1>5, <2>2 DEF KeyInv, LapseBound, TokenInv
  <2>3. CASE s # t
    <3>1. s.jti # t.jti
      BY <1>1, <2>1, <2>3 DEF TokenInv
    <3> QED
      BY <1>1, <1>3, <1>4, <1>11, <2>1, <3>1 DEF KeyInv, LapseBound
  <2> QED
    BY <2>2, <2>3
<1> QED
  BY <1>7, <1>8, <1>9, <1>10, <1>11 DEF KeyInv

LEMMA SlotAnswer ==
  ASSUME TypeOK, SlotInv, NEW r \in Requests, NEW kind, Answer(r, kind),
         FirstLapseKept, now' = now
  PROVE  SlotInv'
<1> SUFFICES ASSUME NEW s \in Requests, pc'[s] \in GrantPcs
             PROVE  SlotInv!(s)'
  BY DEF SlotInv, Admitted, GrantPcs
<1>1. s # r /\ pc[s] = pc'[s] /\ req'[s] = req[s] /\ late'[s] = late[s]
  BY DEF Answer, Goto, TypeOK, GrantPcs
<1>2. req[s].tok.jti \in Jtis
  BY <1>1, RequestToken
<1> QED
  BY <1>1, <1>2 DEF SlotInv, FirstLapseKept, Admitted

LEMMA SlotFrame ==
  ASSUME TypeOK, SlotInv, now \in Nat, now' \in Nat, now <= now',
         UNCHANGED <<pc, req, late, firstLapse>>
  PROVE  SlotInv'
<1> SUFFICES ASSUME NEW s \in Requests, pc[s] \in GrantPcs
             PROVE  SlotInv!(s)'
  BY DEF SlotInv, Admitted, GrantPcs
<1>1. firstLapse[req[s].tok.jti] \in Nat
  BY RequestToken DEF TypeOK
<1> QED
  BY <1>1 DEF SlotInv, Admitted

LEMMA ReplayGuardStep ==
  ASSUME TypeOK, TypeOK', TokenInv, KeyInv, SlotInv, [Next]_vars
  PROVE  KeyInv' /\ SlotInv'
<1> USE DEF tokenVars, serverVars, slotVars, upVars, historyVars
<1>1. Minting
  BY StepMints
<1>2. now \in Nat /\ now' \in Nat /\ minted \in Nat
  BY DEF TypeOK, TokenServiceTypeOK
<1>3. UNCHANGED firstLapse => FirstLapseKept
  BY DEF FirstLapseKept
\* Actions that touch neither Redis nor the upstream, and only free a slot.
<1>4. ASSUME NEW r \in Requests, NEW kind, Answer(r, kind), now' = now,
             UNCHANGED <<jtiKey, firstLapse, redeemed>>
      PROVE  KeyInv' /\ SlotInv'
  BY <1>1, <1>2, <1>3, <1>4, KeyFrame, SlotAnswer
\* Actions that leave slots and marks alone.
<1>5. ASSUME now <= now', UNCHANGED <<pc, req, late, jtiKey, firstLapse, redeemed>>
      PROVE  KeyInv' /\ SlotInv'
  BY <1>1, <1>2, <1>5, KeyFrame, SlotFrame
<1>6. ASSUME NEW r \in Requests, NEW ns \in Namespaces, NEW c \in Clients,
             NEW t \in tokens, Present(r, ns, c, t)
      PROVE  KeyInv' /\ SlotInv'
  <2>1. KeyInv'
    BY <1>1, <1>2, <1>6, KeyFrame DEF Present
  <2>2. SlotInv'
    BY <1>6 DEF Present, Goto, SlotInv, Admitted, TypeOK
  <2> QED
    BY <2>1, <2>2
<1>7. ASSUME NEW r \in Requests, NEW ns \in Namespaces, NEW c \in Clients,
             PresentSubject(r, ns, c)
      PROVE  KeyInv' /\ SlotInv'
  <2>1. KeyInv'
    BY <1>1, <1>2, <1>7, KeyFrame DEF PresentSubject
  <2>2. SlotInv'
    BY <1>7 DEF PresentSubject, Goto, SlotInv, Admitted, TypeOK
  <2> QED
    BY <2>1, <2>2
<1>8. ASSUME NEW r \in Requests, JtiExists(r)
      PROVE  KeyInv' /\ SlotInv'
  <2>1. KeyInv'
    BY <1>1, <1>2, <1>8, KeyFrame DEF JtiExists
  <2>2. firstLapse[req[r].tok.jti] <= now
    <3>1. req[r].tok.jti \in Jtis
      BY <1>8, RequestToken DEF JtiExists, GrantPcs
    <3> QED
      BY <1>2, <1>8, <3>1 DEF JtiExists, JtiKeyExists, KeyInv, TypeOK, TokenServiceTypeOK
  <2>3. SlotInv'
    BY <1>8, <2>2 DEF JtiExists, Goto, SlotInv, Admitted, TypeOK
  <2> QED
    BY <2>1, <2>3
<1>9. ASSUME NEW r \in Requests, JtiSet(r)
      PROVE  KeyInv' /\ SlotInv'
  <2>1. KeyInv' /\ FirstLapseKept /\ firstLapse'[req[r].tok.jti] # 0
    BY <1>9, KeyMark DEF JtiSet, GrantPcs
  <2>2. CASE MatchesCredential(req[r])
    <3> SUFFICES ASSUME NEW s \in Requests, pc'[s] \in GrantPcs
                 PROVE  SlotInv!(s)'
      BY <2>1 DEF SlotInv, Admitted, GrantPcs
    <3>1. /\ req' = req /\ late' = late /\ now' = now
          /\ pc' = [pc EXCEPT ![r] = "upstream"]
      BY <1>9, <2>2 DEF JtiSet, Goto
    <3>2. pc[s] \in GrantPcs /\ req[s].tok.jti \in Jtis
      BY <1>9, <3>1, RequestToken DEF JtiSet, TypeOK, GrantPcs
    <3>3. CASE s = r
      BY <1>9, <2>1, <3>1, <3>2, <3>3 DEF JtiSet, SlotInv, Admitted, FirstLapseKept
    <3>4. CASE s # r
      BY <2>1, <3>1, <3>2, <3>4 DEF SlotInv, Admitted, FirstLapseKept, TypeOK
    <3> QED
      BY <3>3, <3>4
  <2>3. CASE ~ MatchesCredential(req[r])
    BY <1>9, <2>1, <2>3, SlotAnswer DEF JtiSet
  <2> QED
    BY <2>1, <2>2, <2>3
<1>10. ASSUME NEW r \in Requests, RedisFails(r)
       PROVE  KeyInv' /\ SlotInv'
  <2>1. CASE UNCHANGED <<jtiKey, firstLapse>>
    BY <1>4, <1>10, <2>1 DEF RedisFails
  <2>2. CASE pc[r] = "set" /\ MarkJti(r)
    <3>1. KeyInv' /\ FirstLapseKept
      BY <1>10, <2>2, KeyMark DEF RedisFails, GrantPcs
    <3> QED
      BY <1>10, <3>1, SlotAnswer DEF RedisFails
  <2> QED
    BY <1>10, <2>1, <2>2 DEF RedisFails
<1>11. ASSUME NEW r \in Requests, pc[r] = "upstream", Redeem(r),
              UNCHANGED <<tokenVars, firstLapse>>
       PROVE  KeyInv'
  <2>1. req[r].tok.jti \in Jtis /\ firstLapse[req[r].tok.jti] # 0
    BY <1>11, RequestToken DEF SlotInv, GrantPcs
  <2> QED
    BY <1>11, <2>1 DEF Redeem, KeyInv, LapseBound, TypeOK
<1>12. ASSUME NEW r \in Requests, UpstreamGrant(r)
       PROVE  KeyInv' /\ SlotInv'
  <2>1. KeyInv'
    BY <1>11, <1>12 DEF UpstreamGrant
  <2>2. SlotInv'
    BY <1>12 DEF UpstreamGrant, Goto, SlotInv, Admitted, TypeOK
  <2> QED
    BY <2>1, <2>2
<1>13. ASSUME NEW r \in Requests, UpstreamFails(r)
       PROVE  KeyInv' /\ SlotInv'
  BY <1>3, <1>11, <1>13, SlotAnswer DEF UpstreamFails
<1>14. ASSUME NEW r \in Requests, UserInfo(r)
       PROVE  KeyInv' /\ SlotInv'
  BY <1>4, <1>14 DEF UserInfo
<1>15. ASSUME NEW r \in Requests, ExchangeSubject(r)
       PROVE  KeyInv' /\ SlotInv'
  BY <1>4, <1>15 DEF ExchangeSubject
<1>16. ASSUME NEW r \in Requests,
              JtiReplayed(r) \/ UserInfoFails(r) \/ ExchangeFails(r) \/ Crash(r)
       PROVE  KeyInv' /\ SlotInv'
  BY <1>4, <1>16 DEF JtiReplayed, UserInfoFails, ExchangeFails, Crash
<1>17. ASSUME NEW r \in Requests, NEW ns \in Namespaces, NEW c \in Clients,
              NEW t \in tokens, PresentRefused(r, ns, c, t)
       PROVE  KeyInv' /\ SlotInv'
  BY <1>4, <1>17 DEF PresentRefused
<1>18. ASSUME NEW ns \in Namespaces, NEW c \in Clients, NEW scope \in ScopeHashes,
              Callback(ns, c, scope)
       PROVE  KeyInv' /\ SlotInv'
  BY <1>2, <1>5, <1>18 DEF Callback
<1>19. ASSUME NEW ns \in Namespaces, NEW s \in ServerCfg, Redeploy(ns, s)
       PROVE  KeyInv' /\ SlotInv'
  BY <1>2, <1>5, <1>19 DEF Redeploy
<1>20. CASE Pass
  BY <1>2, <1>5, <1>20 DEF Pass, Tick
<1>21. CASE UNCHANGED vars
  BY <1>2, <1>5, <1>21 DEF vars
<1> QED
  BY <1>6, <1>7, <1>8, <1>9, <1>10, <1>12, <1>13, <1>14, <1>15, <1>16, <1>17,
     <1>18, <1>19, <1>20, <1>21 DEF Next, Arrive, Advance

LEMMA ReplayGuard == Spec => [](TokenInv /\ KeyInv /\ SlotInv)
<1>1. Init => TokenInv /\ KeyInv /\ SlotInv
  BY DEF Init, TokenServiceInit, TokenInv, KeyInv, SlotInv, Admitted
<1>2. TypeOK /\ TypeOK' /\ (TokenInv /\ KeyInv /\ SlotInv) /\ [Next]_vars
        => (TokenInv /\ KeyInv /\ SlotInv)'
  BY ReplayGuardStep, StepMints DEF Minting
<1> QED
  BY <1>1, <1>2, TypeCorrect, PTL DEF Spec

(* A request whose replay check ran after the first mark on its credential *)
(* passes only when that mark has lapsed, whatever the number of slots.    *)
THEOREM ReplayOnlyAfterLapseHolds == Spec => []ReplayOnlyAfterLapse
<1>1. TypeOK /\ TokenInv /\ KeyInv /\ SlotInv => ReplayOnlyAfterLapse
  <2> SUFFICES ASSUME TypeOK, TokenInv, KeyInv, SlotInv, NEW r \in Requests,
                      Admitted(r), late[r]
               PROVE  LET t == req[r].tok IN
                      /\ firstLapse[t.jti] <= now
                      /\ t.type = "auth_code" => Expired(t)
    BY DEF ReplayOnlyAfterLapse
  <2> DEFINE t == req[r].tok
  <2>1. t \in tokens /\ t.type \in OneTimeTypes
    BY RequestToken DEF Admitted, GrantPcs
  <2>2. firstLapse[t.jti] # 0 /\ firstLapse[t.jti] <= now
    BY DEF SlotInv
  <2>3. LapseBound(t)
    BY <2>1, <2>2 DEF KeyInv
  <2> QED
    BY <2>1, <2>2, <2>3 DEF LapseBound, TokenInv, Expired
<1> QED
  BY <1>1, TypeCorrect, ReplayGuard, PTL

(* No failure, crash or race leaves a credential whose secret went         *)
(* upstream without its mark.                                              *)
THEOREM MarkOutlivesRedemptionHolds == Spec => []MarkOutlivesRedemption
<1>1. TypeOK /\ KeyInv => MarkOutlivesRedemption
  BY DEF TypeOK, TokenServiceTypeOK, KeyInv, MarkOutlivesRedemption, JtiKeyExists
<1> QED
  BY <1>1, TypeCorrect, ReplayGuard, PTL

(***************************************************************************)
(* Lineage.                                                                *)
(***************************************************************************)

\* The authorization a token stems from.
AuthorizationOf(t) == [ns |-> t.ns, base |-> t.base]

LEMMA WrapTokenResponseLineage ==
  ASSUME NEW ns, NEW base, NEW expiresIn, NEW secret,
         WrapTokenResponse(ns, base, expiresIn, secret), NEW t \in tokens'
  PROVE  t \in tokens \/ AuthorizationOf(t) = [ns |-> ns, base |-> base]
BY DEF WrapTokenResponse, Jwe, AuthorizationOf

LEMMA LineageStep ==
  ASSUME TypeOK, TypeOK', LineageInv, TokensTraceToAuthorization, [Next]_vars
  PROVE  LineageInv' /\ TokensTraceToAuthorization'
<1> USE DEF tokenVars, serverVars, slotVars, upVars, historyVars
<1>1. ASSUME NEW r \in Requests, NEW kind, Answer(r, kind)
      PROVE  LineageInv'
  BY <1>1 DEF Answer, Goto, LineageInv, MatchesCredential, TypeOK, GrantPcs
<1>2. ASSUME UNCHANGED <<pc, req>> PROVE LineageInv'
  BY <1>2 DEF LineageInv, MatchesCredential
<1>3. UNCHANGED tokens /\ grants \subseteq grants' => TokensTraceToAuthorization'
  BY DEF TokensTraceToAuthorization
<1>4. ASSUME NEW r \in Requests, NEW label \in {"set", "userinfo"}, Goto(r, label),
             UNCHANGED req, pc[r] \in GrantPcs, label = "userinfo" => pc[r] = "upstream"
      PROVE  LineageInv'
  BY <1>4 DEF Goto, LineageInv, MatchesCredential, TypeOK, GrantPcs
<1>5. ASSUME NEW r \in Requests, NEW ns \in Namespaces, NEW c \in Clients,
             NEW t \in tokens, Present(r, ns, c, t)
      PROVE  LineageInv' /\ TokensTraceToAuthorization'
  <2>1. LineageInv'
    BY <1>5 DEF Present, Admissible, Decrypts, Goto, LineageInv, MatchesCredential, TypeOK, GrantPcs
  <2> QED
    BY <1>3, <1>5, <2>1 DEF Present
<1>6. ASSUME NEW r \in Requests, NEW ns \in Namespaces, NEW c \in Clients,
             PresentSubject(r, ns, c)
      PROVE  LineageInv' /\ TokensTraceToAuthorization'
  <2>1. LineageInv'
    BY <1>6 DEF PresentSubject, Goto, LineageInv, MatchesCredential, TypeOK, GrantPcs
  <2> QED
    BY <1>3, <1>6, <2>1 DEF PresentSubject
<1>7. ASSUME NEW r \in Requests, NEW ns \in Namespaces, NEW c \in Clients,
             NEW t \in tokens, PresentRefused(r, ns, c, t)
      PROVE  LineageInv' /\ TokensTraceToAuthorization'
  BY <1>1, <1>3, <1>7 DEF PresentRefused
<1>8. ASSUME NEW r \in Requests, JtiExists(r)
      PROVE  LineageInv' /\ TokensTraceToAuthorization'
  BY <1>3, <1>4, <1>8 DEF JtiExists, GrantPcs
<1>9. ASSUME NEW r \in Requests, JtiSet(r)
      PROVE  LineageInv' /\ TokensTraceToAuthorization'
  <2>1. CASE MatchesCredential(req[r])
    <3>1. LineageInv'
      BY <1>9, <2>1 DEF JtiSet, Goto, LineageInv, MatchesCredential, TypeOK, GrantPcs
    <3> QED
      BY <1>3, <1>9, <3>1 DEF JtiSet
  <2>2. CASE ~ MatchesCredential(req[r])
    BY <1>1, <1>3, <1>9, <2>2 DEF JtiSet
  <2> QED
    BY <2>1, <2>2
<1>10. ASSUME NEW r \in Requests, UpstreamGrant(r)
       PROVE  LineageInv' /\ TokensTraceToAuthorization'
  BY <1>3, <1>4, <1>10 DEF UpstreamGrant, GrantPcs
<1>11. ASSUME NEW r \in Requests,
              \/ RedisFails(r) \/ UpstreamFails(r) \/ JtiReplayed(r)
              \/ UserInfoFails(r) \/ ExchangeFails(r) \/ Crash(r)
       PROVE  LineageInv' /\ TokensTraceToAuthorization'
  <2>1. UNCHANGED <<tokens, grants>> /\ Answer(r, "error")
    BY <1>11 DEF RedisFails, UpstreamFails, JtiReplayed, UserInfoFails, ExchangeFails, Crash
  <2> QED
    BY <1>1, <1>3, <2>1
<1>12. ASSUME NEW r \in Requests, UserInfo(r)
       PROVE  LineageInv' /\ TokensTraceToAuthorization'
  <2> DEFINE base == Base(req[r].server.provider, req[r].client, req[r].tok.base.scope)
  <2>1. pc[r] = "userinfo" /\ grants' = grants /\ Answer(r, "ok")
    BY <1>12 DEF UserInfo
  <2>2. req[r].tok \in tokens /\ req[r].tok.base \in BasePayload
    BY <2>1, RequestToken DEF GrantPcs
  <2>3. base = req[r].tok.base /\ req[r].ns = req[r].tok.ns
    BY <2>1, <2>2 DEF LineageInv, MatchesCredential, Base, BasePayload, GrantPcs
  <2>4. ASSUME NEW t \in tokens' PROVE [ns |-> t.ns, base |-> t.base] \in grants
    <3>1. t \in tokens \/ AuthorizationOf(t) = AuthorizationOf(req[r].tok)
      BY <1>12, <2>3, WrapTokenResponseLineage DEF UserInfo, AuthorizationOf
    <3> QED
      BY <2>2, <3>1 DEF TokensTraceToAuthorization, AuthorizationOf
  <2>5. TokensTraceToAuthorization'
    BY <2>1, <2>4 DEF TokensTraceToAuthorization
  <2> QED
    BY <1>1, <2>1, <2>5
<1>13. ASSUME NEW r \in Requests, ExchangeSubject(r)
       PROVE  LineageInv' /\ TokensTraceToAuthorization'
  <2> DEFINE base == Base(req[r].server.provider, req[r].client, req[r].server.scope)
  <2>1. Answer(r, "ok") /\ grants' = grants \cup {[ns |-> req[r].ns, base |-> base]}
    BY <1>13 DEF ExchangeSubject
  <2>2. ASSUME NEW t \in tokens' PROVE [ns |-> t.ns, base |-> t.base] \in grants'
    <3>1. t \in tokens \/ AuthorizationOf(t) = [ns |-> req[r].ns, base |-> base]
      BY <1>13, WrapTokenResponseLineage DEF ExchangeSubject
    <3> QED
      BY <2>1, <3>1 DEF TokensTraceToAuthorization, AuthorizationOf
  <2>3. TokensTraceToAuthorization'
    BY <2>2 DEF TokensTraceToAuthorization
  <2> QED
    BY <1>1, <2>1, <2>3
<1>14. ASSUME NEW ns \in Namespaces, NEW c \in Clients, NEW scope \in ScopeHashes,
              Callback(ns, c, scope)
       PROVE  LineageInv' /\ TokensTraceToAuthorization'
  <2> DEFINE base == Base(cfg[ns].provider, c, scope)
             new == Jwe(1, "auth_code", ns, base, secrets + 1, now + AuthCodeTtl)
  <2>1. tokens' = tokens \cup {new} /\ grants' = grants \cup {[ns |-> ns, base |-> base]}
    BY <1>14 DEF Callback, WrapAuthCode
  <2>2. new.ns = ns /\ new.base = base
    BY DEF Jwe
  <2>3. TokensTraceToAuthorization'
    <3> HIDE DEF base, new
    <3> QED
      BY <2>1, <2>2 DEF TokensTraceToAuthorization
  <2> QED
    BY <1>2, <1>14, <2>3 DEF Callback
<1>15. ASSUME NEW ns \in Namespaces, NEW s \in ServerCfg, Redeploy(ns, s)
       PROVE  LineageInv' /\ TokensTraceToAuthorization'
  BY <1>2, <1>3, <1>15 DEF Redeploy
<1>16. CASE Pass
  BY <1>2, <1>3, <1>16 DEF Pass, Tick
<1>17. CASE UNCHANGED vars
  BY <1>2, <1>3, <1>17 DEF vars
<1> QED
  BY <1>5, <1>6, <1>7, <1>8, <1>9, <1>10, <1>11, <1>12, <1>13, <1>14, <1>15, <1>16,
     <1>17 DEF Next, Arrive, Advance

(* Whatever sequence of code and refresh grants, at whatever namespaces    *)
(* and under whatever rollouts, a token is for whom it was authorized.     *)
THEOREM TokensTraceToAuthorizationHolds == Spec => []TokensTraceToAuthorization
<1>1. Init => LineageInv /\ TokensTraceToAuthorization
  BY DEF Init, TokenServiceInit, LineageInv, TokensTraceToAuthorization, GrantPcs
<1>2. TypeOK /\ TypeOK' /\ (LineageInv /\ TokensTraceToAuthorization) /\ [Next]_vars
        => (LineageInv /\ TokensTraceToAuthorization)'
  BY LineageStep
<1> QED
  BY <1>1, <1>2, TypeCorrect, PTL DEF Spec

(***************************************************************************)
(* What a refresh brings back, when requests do not overlap.               *)
(***************************************************************************)

(* Every refresh token carries a secret.  A request in flight has not been *)
(* answered; beyond the upstream's response it holds a secret the provider *)
(* honours: the new one, or the one it was refreshed with.                 *)
SecretsInv ==
  /\ \A t \in tokens : t.type = "refresh_token" => t.secret # 0
  /\ \A r \in Requests :
       /\ pc[r] # "idle" => answer[r] # "ok"
       /\ pc[r] = "userinfo" =>
            /\ reply[r] # 0 => reply[r] \in upstream
            /\ req[r].tok.type = "refresh_token" /\ reply[r] = 0 => req[r].tok.secret \in upstream

OneSlot == \A r, s \in Requests : r = s

LEMMA WrapTokenResponseSecret ==
  ASSUME NEW ns, NEW base, NEW expiresIn, NEW secret,
         WrapTokenResponse(ns, base, expiresIn, secret), NEW t \in tokens' \ tokens,
         t.type = "refresh_token"
  PROVE  t.secret = secret /\ secret # 0
BY DEF WrapTokenResponse, Jwe

(* A step of a slot keeps the secrets: it frees the slot, or goes on to    *)
(* where nothing is held yet.                                              *)
LEMMA SecretsStep ==
  ASSUME OneSlot, TypeOK, SecretsInv, [Next]_vars
  PROVE  SecretsInv'
<1> USE DEF tokenVars, serverVars, slotVars, upVars, historyVars
<1> DEFINE Carried == \A t \in tokens' : t.type = "refresh_token" => t.secret # 0
<1>1. ASSUME Carried, NEW r \in Requests, NEW kind, Answer(r, kind)
      PROVE  SecretsInv'
  <2>1. ASSUME NEW s \in Requests PROVE pc'[s] = "idle"
    BY <1>1, <2>1 DEF OneSlot, Answer, Goto, TypeOK
  <2> QED
    BY <1>1, <2>1 DEF SecretsInv
<1>2. UNCHANGED tokens => Carried
  BY DEF SecretsInv
<1>3. ASSUME UNCHANGED <<tokens, slotVars>>, upstream \subseteq upstream' PROVE SecretsInv'
  BY <1>3 DEF SecretsInv
<1>4. ASSUME NEW r \in Requests, NEW label \in {"exists", "exchange", "set", "upstream"},
             Goto(r, label), UNCHANGED tokens, answer'[r] # "ok"
      PROVE  SecretsInv'
  <2>1. ASSUME NEW s \in Requests PROVE pc'[s] = label /\ answer'[s] # "ok"
    BY <1>4, <2>1 DEF OneSlot, Goto, TypeOK
  <2> QED
    BY <1>2, <1>4, <2>1 DEF SecretsInv
<1>5. ASSUME NEW r \in Requests, NEW ns \in Namespaces, NEW c \in Clients, NEW t \in tokens,
             Present(r, ns, c, t) \/ PresentRefused(r, ns, c, t)
      PROVE  SecretsInv'
  <2>1. CASE Present(r, ns, c, t)
    <3>1. Goto(r, "exists") /\ UNCHANGED tokens /\ answer'[r] # "ok"
      BY <2>1 DEF Present, TypeOK
    <3> QED
      BY <1>4, <3>1
  <2> QED
    BY <1>1, <1>2, <1>5, <2>1 DEF PresentRefused
<1>6. ASSUME NEW r \in Requests, NEW ns \in Namespaces, NEW c \in Clients,
             PresentSubject(r, ns, c)
      PROVE  SecretsInv'
  <2>1. Goto(r, "exchange") /\ UNCHANGED tokens /\ answer'[r] # "ok"
    BY <1>6 DEF PresentSubject, TypeOK
  <2> QED
    BY <1>4, <2>1
<1>7. ASSUME NEW r \in Requests, JtiExists(r)
      PROVE  SecretsInv'
  <2>1. Goto(r, "set") /\ UNCHANGED tokens /\ answer'[r] # "ok"
    BY <1>7 DEF JtiExists, SecretsInv
  <2> QED
    BY <1>4, <2>1
<1>8. ASSUME NEW r \in Requests, JtiSet(r)
      PROVE  SecretsInv'
  <2>1. CASE MatchesCredential(req[r])
    <3>1. Goto(r, "upstream") /\ UNCHANGED tokens /\ answer'[r] # "ok"
      BY <1>8, <2>1 DEF JtiSet, SecretsInv
    <3> QED
      BY <1>4, <3>1
  <2>2. CASE ~ MatchesCredential(req[r])
    BY <1>1, <1>2, <1>8, <2>2 DEF JtiSet
  <2> QED
    BY <2>1, <2>2
<1>9. ASSUME NEW r \in Requests, UpstreamGrant(r)
      PROVE  SecretsInv'
  <2>1. PICK issued \in {0, secrets + 1} :
          ProviderGrants(req[r].tok, issued) /\ reply' = [reply EXCEPT ![r] = issued]
    BY <1>9 DEF UpstreamGrant
  <2>2. /\ pc[r] = "upstream" /\ Goto(r, "userinfo")
        /\ UNCHANGED <<tokens, req, answer>> /\ reply'[r] = issued
    BY <1>9, <2>1 DEF UpstreamGrant, TypeOK
  <2>3. issued # 0 => issued \in upstream'
    BY <2>1 DEF ProviderGrants, TypeOK
  <2>4. req[r].tok.type = "refresh_token" /\ issued = 0 => req[r].tok.secret \in upstream'
    BY <2>1 DEF ProviderGrants, TypeOK
  <2>5. ASSUME NEW s \in Requests PROVE s = r
    BY DEF OneSlot
  <2> QED
    BY <1>2, <2>2, <2>3, <2>4, <2>5 DEF SecretsInv
<1>10. ASSUME NEW r \in Requests,
              \/ RedisFails(r) \/ UpstreamFails(r) \/ JtiReplayed(r)
              \/ UserInfoFails(r) \/ ExchangeFails(r) \/ Crash(r)
       PROVE  SecretsInv'
  <2>1. UNCHANGED tokens /\ Answer(r, "error")
    BY <1>10 DEF RedisFails, UpstreamFails, JtiReplayed, UserInfoFails, ExchangeFails, Crash
  <2> QED
    BY <1>1, <1>2, <2>1
<1>11. ASSUME NEW r \in Requests, UserInfo(r) \/ ExchangeSubject(r)
       PROVE  SecretsInv'
  <2>1. PICK ns, base, ttl, secret : WrapTokenResponse(ns, base, ttl, secret)
    BY <1>11 DEF UserInfo, ExchangeSubject
  <2>2. Carried
    BY <2>1, WrapTokenResponseSecret DEF SecretsInv
  <2> QED
    BY <1>1, <1>11, <2>2 DEF UserInfo, ExchangeSubject
<1>12. ASSUME NEW ns \in Namespaces, NEW c \in Clients, NEW scope \in ScopeHashes,
              Callback(ns, c, scope)
       PROVE  SecretsInv'
  <2>1. upstream \subseteq upstream' /\ UNCHANGED slotVars
    BY <1>12 DEF Callback
  <2>2. Carried
    BY <1>12 DEF Callback, WrapAuthCode, Jwe, SecretsInv
  <2> QED
    BY <2>1, <2>2 DEF SecretsInv
<1>13. ASSUME NEW ns \in Namespaces, NEW s \in ServerCfg, Redeploy(ns, s)
       PROVE  SecretsInv'
  BY <1>3, <1>13 DEF Redeploy
<1>14. CASE Pass \/ UNCHANGED vars
  BY <1>3, <1>14 DEF Pass, Tick, vars
<1> QED
  BY <1>5, <1>6, <1>7, <1>8, <1>9, <1>10, <1>11, <1>12, <1>13, <1>14 DEF Next, Arrive, Advance

(* The answer to a refresh brings a refresh token with a secret that the   *)
(* provider honours.                                                       *)
LEMMA RefreshAnswered ==
  ASSUME OneSlot, TypeOK, TokenInv, SecretsInv, Next, NEW r \in Requests,
         pc[r] = "userinfo", req[r].tok.type = "refresh_token", answer'[r] = "ok"
  PROVE  \E t \in tokens' \ tokens : t.type = "refresh_token" /\ t.secret \in upstream'
<1> USE DEF tokenVars, serverVars, slotVars, upVars, historyVars
<1> DEFINE new == RefreshSecret(req[r], reply[r])
           jwe(ns, base) == Jwe(2, "refresh_token", ns, base, new, NoExp)
<1>1. UserInfo(r)
  <2>1. answer[r] # "ok"
    BY DEF SecretsInv
  <2>2. ASSUME NEW s \in Requests PROVE s = r
    BY DEF OneSlot
  <2>3. ~ Answer(r, "error")
    BY DEF Answer, TypeOK
  <2>4. answer' # answer
    BY <2>1
  <2>5. PICK s \in Requests : Arrive(s) \/ Advance(s) \/ Crash(s)
    BY <2>4 DEF Next, Callback, Redeploy, Pass
  <2>6. s = r
    BY <2>2
  <2>7. ~ Arrive(r) /\ ~ Crash(r)
    BY <2>3 DEF Arrive, Present, PresentRefused, PresentSubject, Crash
  <2> QED
    BY <2>3, <2>5, <2>6, <2>7 DEF Advance, JtiExists, JtiReplayed, JtiSet, RedisFails, UpstreamGrant,
       UpstreamFails, UserInfoFails, ExchangeSubject, ExchangeFails
<1>2. PICK ns, base, ttl : WrapTokenResponse(ns, base, ttl, new)
  BY <1>1 DEF UserInfo
<1>3. req[r].tok \in tokens
  BY DEF TypeOK, GrantPcs
<1>4. new # 0 /\ new \in upstream
  BY <1>3 DEF RefreshSecret, SecretsInv
<1>5. jwe(ns, base) \in tokens'
  BY <1>2, <1>4 DEF WrapTokenResponse
<1>6. jwe(ns, base).jti = minted + 2 /\ jwe(ns, base).type = "refresh_token" /\ jwe(ns, base).secret = new
  BY DEF Jwe
<1>7. jwe(ns, base) \notin tokens
  <2>1. minted \in Nat /\ \A t \in tokens : t.jti <= minted
    BY DEF TokenInv, TypeOK, TokenServiceTypeOK
  <2>2. ~ (minted + 2 <= minted)
    BY <2>1
  <2> QED
    BY <1>6, <2>1, <2>2
<1>8. upstream' = upstream
  BY <1>1 DEF UserInfo
<1> QED
  BY <1>4, <1>5, <1>6, <1>7, <1>8

(* A client whose requests do not overlap has, after every refresh that is *)
(* answered, a refresh token the provider honours, whether or not the      *)
(* provider rotates (refreshTokenHandler), for all clients and providers.  *)
THEOREM RefreshStaysUsable ==
  ASSUME OneSlot
  PROVE  Spec => RefreshAnswerUsable
<1>1. Init => SecretsInv
  BY DEF Init, TokenServiceInit, SecretsInv
<1>2. TypeOK /\ SecretsInv /\ [Next]_vars => SecretsInv'
  BY SecretsStep
<1>3. TypeOK /\ TokenInv /\ SecretsInv /\ [Next]_vars =>
        [\A r \in Requests :
           pc[r] = "userinfo" /\ req[r].tok.type = "refresh_token" /\ answer'[r] = "ok" =>
             \E t \in tokens' \ tokens : t.type = "refresh_token" /\ t.secret \in upstream']_vars
  BY RefreshAnswered
<1> QED
  BY <1>1, <1>2, <1>3, TypeCorrect, ReplayGuard, PTL DEF Spec, RefreshAnswerUsable

=============================================================================
