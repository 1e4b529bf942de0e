\* Two requests in flight over codes and refresh tokens of two clients, and exchanges.
SPECIFICATION Spec
SYMMETRY Symmetry
CONSTANTS
  c1 = c1
  c2 = c2
  NoRequest = NoRequest
  Clients = {c1, c2}
  Namespaces = {n1}
  Providers = {p1}
  ScopeHashes = {s1}
  CanRefresh = {p1}
  CanExchange = {p1}
  ClientGrants <- MCAllGrants
  Requests = {r1, r2}
  ExpiresIn = {1}
  AuthCodeTtl = 1
  AccessTokenTtl = 1
  DefaultJtiExp = 1
  MaxTokens = 3
  MaxTime = 2
  MaxSecrets = 2
INVARIANTS
  TypeOK
  ReplayOnlyAfterLapse
  MarkOutlivesRedemption
