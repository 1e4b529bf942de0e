\* Two racing redemptions of one code, before anything can lapse.
SPECIFICATION Spec
CONSTANTS
  c1 = c1
  c2 = c2
  NoRequest = NoRequest
  Clients = {c1, c2}
  Namespaces = {n1}
  Providers = {p1}
  ScopeHashes = {s1}
  CanRefresh = {p1}
  CanExchange = {}
  ClientGrants <- MCAllGrants
  Requests = {r1, r2}
  ExpiresIn = {0}
  AuthCodeTtl = 1
  AccessTokenTtl = 1
  DefaultJtiExp = 2
  MaxTokens = 3
  MaxTime = 0
  MaxSecrets = 2
INVARIANTS
  RedeemedOnce
