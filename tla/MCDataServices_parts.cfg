SPECIFICATION MCSpec
CONSTANTS
  Parts = {"optimizer", "search", "guard", "scan", "documents", "tokens"}
  s1 = s1
  s2 = s2
  Chats <- MCChats
  Adapters = {"langchain", "openai", "generic"}
  Presets = {"minimal", "balanced", "aggressive", "summarizing"}
  REQUEST = "Request"
  FINDINGS = "Findings"
  SUMMARY = "summary"
  NoCall = "none"
  MAX_CHARS = 2
  MaxTokens = 8
  Window = 3
  KeepRecent = 3
  Scores = {0, 1}
  ArtRepos = {"a", "b"}
  Artifacts <- MCArtifacts
  Intents <- MCIntents
  DirectCalls <- MCDirect
  AgentScopes = {{}, {"a"}}
  ServerScopes = {{}, {"a"}}
  AgentMax = 3
  ServerCaps = {0, 2, 9}
  HARD_CEILING = 5
  Hint = "manifest.json"
  Readable = {"b"}
  None = None
  Secrets = {"key", "assignment"}
  Severity <- MCSeverity
  Policies <- MCPolicies
  Requests <- MCRequests
  Evidence <- MCEvidence
  Forms = {"dict", "object"}
  Registered <- MCRegistered
  Snapshots <- MCSnapshots
  AlertAt = 50
  Servers = {s1, s2}
  Words = {"w"}
  Modes = {"secure", "open", "service"}
  Zones <- MCZones
  Lifetime = 3
  MaxDriveCalls = 3
  MaxEdits = 1
  MaxDriveClock = 5
INVARIANTS
  DataTypeOK
  ConversationStaysWhole
  OverBudgetForAReason
  SearchIsWhatWasAsked
  GuardStopsWhatItFinds
  ScanFindsWhatIsThere
  DocumentsHoldTheirText
  CredentialsFit
CHECK_DEADLOCK FALSE
