SPECIFICATION Spec
CONSTANTS
  p1 = p1
  p2 = p2
  Procs = {p1, p2}
  MaxGrants = 3
  Carries = {TRUE}
  MaxTroubles = 0
SYMMETRY ProcSymmetry
INVARIANTS
  TypeOK
  CacheNotBurnt
