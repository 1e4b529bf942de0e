SPECIFICATION MCSpec
CONSTANTS
  Parts = {"tracking", "slack", "memory", "checkpoints", "login", "authorize", "clients"}
  r1 = r1
  r2 = r2
  f1 = f1
  f2 = f2
  b1 = b1
  x1 = x1
  s1 = s1
  m1 = m1
  m2 = m2
  p1 = p1
  g1 = g1
  i1 = i1
  i2 = i2
  w1 = w1
  Sessions = {s1, s2}
  Runs = {r1, r2}
  Ratings = {f1, f2}
  Backfills = {b1}
  Scripts = {x1}
  RowLimit = 1
  MaxCalls = 1
  MaxTrouble = 1
  Posts = {m1, m2}
  SEEN_TTL = 0
  SEEN_MAX = 1
  MaxDeliveries = 2
  MaxClock = 1
  MaxCrashes = 1
  Consoles = {c1, c2}
  Threads = {t1}
  NoThread = NoThread
  MaxTurns = 3
  MaxWall = 1
  MaxCheckpoints = 4
  MaxBatches = 2
  MaxWrites = 2
  Logins = {l1, l2}
  Processes = {p1, p2}
  NoLogin = NoLogin
  MaxProbes = 1
  Browsers = {w1, w2}
  Flows = {i1, i2}
  RegClients = {k1}
  Auths = {a1, a2}
  AuthProviders = {g1, g2}
  Scopes = {q1}
  ClientTtl = 2
  StateTtl = 2
  NonceTtl = 1
  ConsentTtl = 2
  NoFlow = NoFlow
  MaxFlowClock = 2
SYMMETRY ConsoleSymmetry
INVARIANTS
  ServicesTypeOK
  TablesTellTheWrites
  CallsAreCountedOnce
  QuestionsAreAnsweredOnce
  TurnsAreKept
  RunGoesOnWhereItWas
  RedirectReachesItsLogin
  CodeReachesWhoApproved
  RegistrationKeepsItsWord
CHECK_DEADLOCK FALSE
