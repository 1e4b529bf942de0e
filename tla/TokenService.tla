---------------------------- MODULE TokenService ----------------------------
(***************************************************************************)
(* The gateway's TokenService (mcp-gateway/src/oauth/token.ts).            *)
(*                                                                         *)
(* Everything the gateway hands to a client is a JWE: an encrypted record  *)
(* that carries an upstream secret, the provider and client it was minted  *)
(* for, an audience (namespace and type), perhaps an expiry, and a random  *)
(* jti.  The only server-side state is one Redis key per jti, written when *)
(* a one-time credential is presented.  Encryption itself is abstracted: a *)
(* client can present a token the gateway minted and no other.             *)
(***************************************************************************)
EXTENDS Naturals

CONSTANTS
  Namespaces,      \* routing namespaces, one per configured MCP server
  Providers,       \* configured OAuth providers
  Clients,         \* client ids known to the client metadata handlers
  ScopeHashes,     \* values of McpServer.scopeHash()
  AuthCodeTtl,     \* config.auth_code_ttl
  AccessTokenTtl,  \* config.access_token_ttl
  DefaultJtiExp,   \* defaultJtiExp, the life of a mark on a token without exp
  MaxTokens,       \* bound: number of JWEs minted in a behaviour
  MaxTime          \* bound: last instant of the clock

ASSUME TtlAssumption ==
  /\ AuthCodeTtl \in Nat \ {0}
  /\ AccessTokenTtl \in Nat \ {0}
  /\ DefaultJtiExp \in Nat \ {0}

ASSUME BoundAssumption == MaxTokens \in Nat \ {0} /\ MaxTime \in Nat

VARIABLES
  now,        \* the clock the replicas and Redis share
  tokens,     \* every JWE minted so far, each of which a client may hold
  minted,     \* number of JWEs minted, the source of fresh jtis
  jtiKey      \* Redis: instant at which the key jti:<jti> lapses, 0 if never set

tokenVars == <<now, tokens, minted, jtiKey>>

-----------------------------------------------------------------------------

Jtis == 1..MaxTokens

TokenTypes == {"auth_code", "access_token", "refresh_token"}

\* A token without an exp claim (refresh tokens); the code tests `payload.exp`.
NoExp == 0

(* What a JWE says about who it is for (BasePayload).                      *)
BasePayload == [provider : Providers, client : Clients, scope : ScopeHashes]

Token ==
  [jti : Jtis, type : TokenTypes, ns : Namespaces, base : BasePayload,
   secret : Nat, exp : Nat]

TokenServiceTypeOK ==
  /\ now \in Nat
  /\ minted \in Nat
  /\ tokens \subseteq Token
  /\ jtiKey \in [Jtis -> Nat]

TokenServiceInit ==
  /\ now = 0
  /\ minted = 0
  /\ tokens = {}
  /\ jtiKey = [j \in Jtis |-> 0]

-----------------------------------------------------------------------------

Expired(t) == t.exp # NoExp /\ t.exp <= now

(* jwtDecrypt with an audience: the token was minted for this namespace    *)
(* and this use, and has not expired when it is read.                      *)
Decrypts(t, ns, type) ==
  /\ t.ns = ns
  /\ t.type = type
  /\ ~ Expired(t)

JtiKeyForgotten(j) == FALSE     \* mutant: the key is not looked up

(* Redis EXISTS jti:<jti>: a key is there until its expiry passes.         *)
JtiKeyExists(j) == jtiKey[j] > now

(* The lapse of the mark SET by a presentation of t: with t's own expiry   *)
(* (EXAT) or, for a token that never expires, after the default (PX).      *)
JtiKeyLapse(t) ==
  IF t.exp # NoExp THEN t.exp ELSE now + DefaultJtiExp

\* mutant: jtis are counted from zero
JweFromZero(n, type, ns, base, secret, exp) ==
  [jti |-> minted + n - 1, type |-> type, ns |-> ns, base |-> base,
   secret |-> secret, exp |-> exp]

(* The n-th JWE of this step.                                              *)
Jwe(n, type, ns, base, secret, exp) ==
  [jti |-> minted + n, type |-> type, ns |-> ns, base |-> base,
   secret |-> secret, exp |-> exp]

CanMint(n) == minted + n <= MaxTokens

(* wrapAuthCode                                                            *)
WrapAuthCode(ns, base, secret) ==
  /\ CanMint(1)
  /\ tokens' = tokens \cup
       {Jwe(1, "auth_code", ns, base, secret, now + AuthCodeTtl)}
  /\ minted' = minted + 1

(* The life of a minted access token: the upstream's expires_in when it is *)
(* given and not zero, the configured default otherwise.                   *)
AccessLife(expiresIn) == IF expiresIn = 0 THEN AccessTokenTtl ELSE expiresIn

(* wrapTokenResponse: an access token, and, if the upstream response has a *)
(* refresh secret (0 when it has none), a refresh token without an expiry. *)
WrapTokenResponse(ns, base, expiresIn, refreshSecret) ==
  LET access  == Jwe(1, "access_token", ns, base, 0, now + AccessLife(expiresIn))
      refresh == Jwe(2, "refresh_token", ns, base, refreshSecret, NoExp)
  IN IF refreshSecret = 0
     THEN /\ CanMint(1)
          /\ tokens' = tokens \cup {access}
          /\ minted' = minted + 1
     ELSE /\ CanMint(2)
          /\ tokens' = tokens \cup {access, refresh}
          /\ minted' = minted + 2

(* Time passes: Redis keys and tokens expire.                              *)
Tick ==
  /\ now < MaxTime
  /\ now' = now + 1
  /\ UNCHANGED <<tokens, minted, jtiKey>>

=============================================================================
