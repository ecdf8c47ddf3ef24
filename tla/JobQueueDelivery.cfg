SPECIFICATION FairSpec
CONSTANTS
  Nodes = {n1, n2}
  MaxJobs = 1
  Producers = {p1}
  Slack = 0
  PushOpts <- PlainOpts
  TKeys = {}
  NoKey = NoKey
  NoLimit = NoLimit
  k1 = k1
  k2 = k2
  Concurrency = 2
  HandlerBatch = 1
  ClaimBatch = 1
  KeyLimit = NoLimit
  Fair = FALSE
  RateLimited = FALSE
  Lease = 0
  BackoffDelays = {1}
  Backend = "sqlite"
  Pausing = TRUE
  MaxRequeues = 1
  MaxStops = 1
INVARIANT UniqueClaims RetryBudget
PROPERTY FencedTransitions KeepsPromise JobsSettle
CHECK_DEADLOCK FALSE
