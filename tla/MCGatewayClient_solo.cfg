SPECIFICATION FairSpec
CONSTANTS
  p1 = p1
  p2 = p2
  Procs = {p1}
  MaxGrants = 3
  Carries = {TRUE, FALSE}
  MaxTroubles = 2
PROPERTIES
  RunsOnce
  LoginLasts
  EntryPointsReturn
