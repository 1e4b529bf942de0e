SPECIFICATION GraphSpec
CONSTANTS
  search = search
  info = info
  quota = quota
  tag = tag
  promote = promote
  delete = delete
  in = in
  out = out
  r1 = r1
  NoTool = NoTool
  NoRecord = NoRecord
  Tools <- MCTools
  Risk <- MCRisk
  Live = {search, info}
  Validated = {search}
  Repos = {in, out}
  Envs <- MCEnvs
  Runs = {r1}
  Plans <- MCPlans
INVARIANT
  DeniedReadNeverRuns
CHECK_DEADLOCK FALSE
