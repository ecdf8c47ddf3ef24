SPECIFICATION Spec
CONSTANTS
  None = None
  Off = Off
  Scenarios <- MCScenarios
  Configs <- MCConfigs
  Stoppers = {"s1"}
  Signals = {"SIGINT"}
  Producers = {"p1", "p2", "p3", "p4"}
  Keyed = {"p2", "p4"}
  Items <- MCItems
  Ticks = {"t1"}
  Operators = {"o1"}
  Triggers = {"r1", "r2"}
  Callers = {"m1"}
  Attempts = {"a1"}
  Watchers = {"w1"}
  Cancellers = {"k1"}
  Steps <- MCSteps
  Safe <- MCSafe
  Results <- MCResults
  Jobs = {1, 2, 3, 4}
  MaxPending = 2
  MaxAttempts = 2
  DlqThreshold = 1
  DeadLimit = 2
  MaxStarts = 2
  MaxReturns = 2
CHECK_DEADLOCK FALSE
INVARIANTS
  PendingBounded
  FinalUpdateComplete
  JournalReadsBack
PROPERTIES
  AlertsFollowGrowth
  CallsSettle
