SPECIFICATION MCSpec
CONSTANTS
  search = search
  delete = delete
  in = in
  out = out
  r1 = r1
  r2 = r2
  s1 = s1
  s2 = s2
  NoTool = NoTool
  NoRecord = NoRecord
  NoRun = NoRun
  Tools <- MCTools
  Risk <- MCRisk
  Live = {search}
  Validated = {search}
  Repos = {in, out}
  Envs <- MCEnvs
  Plans <- MCPlans
  Runs = {r1, r2}
  Sessions = {s1, s2}
  Failures = TRUE
INVARIANTS
  TypeOK
  
  CompletedMeansExecuted
  
PROPERTY
  PromptReturns
CHECK_DEADLOCK FALSE
