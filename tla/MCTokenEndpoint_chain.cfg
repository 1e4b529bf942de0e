\* One request at a time: chains of refreshes of two clients, scopes changing.
SPECIFICATION Spec
SYMMETRY ClientSymmetry
CONSTANTS
  c1 = c1
  c2 = c2
  NoRequest = NoRequest
  Clients = {c1, c2}
  Namespaces = {n1}
  Providers = {p1}
  ScopeHashes = {s1, s2}
  CanRefresh = {p1}
  CanExchange = {}
  ClientGrants <- MCAllGrants
  Requests = {r1}
  ExpiresIn = {0}
  AuthCodeTtl = 1
  AccessTokenTtl = 1
  DefaultJtiExp = 1
  MaxTokens = 5
  MaxTime = 1
  MaxSecrets = 3
INVARIANTS
  TokensTraceToAuthorization
PROPERTIES
  RefreshAnswerUsable
