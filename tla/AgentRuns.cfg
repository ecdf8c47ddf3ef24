SPECIFICATION Spec
CONSTANTS
  r1 = r1
  r2 = r2
  s1 = s1
  NoSess = NoSess
  Runs = {r1, r2}
  Session <- BothSessions
  NoSession = NoSess
  Tools <- ToolSet
  Script <- Scripts
  MaxIterations = 2
  MaxTotalTokens = 3
  HistoryWindow = 3
  KeepRecent = 2
  TopK = 1
  HasMemory = TRUE
  HasOutput = TRUE
  FreshIds = TRUE
  StepRetries = 0
  MaxFaults = 1
  None = None
INVARIANTS
  RequestsWellFormed
  GatedNeedsApproval
  ReplaysAskTheSame
  HistoryCarriesOver
PROPERTIES
  RunsEnd
