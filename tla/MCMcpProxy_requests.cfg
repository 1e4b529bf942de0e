\* Two requests of every kind, and answers of up to two messages.
SPECIFICATION FairSpec
CONSTANTS
  limited = limited
  plain = plain
  gauged = gauged
  open = open
  gone = gone
  u1 = u1
  u2 = u2
  c1 = c1
  get = get
  put = put
  r1 = r1
  r2 = r2
  NoToken = NoToken
  NoUser = NoUser
  Requests = {r1, r2}
  Namespaces <- MCNamespaces
  Protected = {limited, plain, gauged}
  IdToken = {plain}
  Tools = {get, put}
  AllLimit <- MCAllLimit
  ToolLimit <- MCToolLimit
  ReportOnly = {gauged}
  Inputs <- MCInputs
  Answers <- MCAnswers
INVARIANTS
  TypeOK
  LimitsHold
  SamplesTellTheOutcome
PROPERTIES
  AnswerEndsSpan
CHECK_DEADLOCK FALSE
