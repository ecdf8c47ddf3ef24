SPECIFICATION Spec
CONSTANTS
  Nodes = {n1}
  MaxJobs = 3
  Producers = {p1, p2}
  Slack = 1
  PushOpts <- ShapedOpts
  TKeys = {k1}
  NoKey = NoKey
  NoLimit = NoLimit
  k1 = k1
  k2 = k2
  Concurrency = 1
  HandlerBatch = 2
  ClaimBatch = 2
  KeyLimit = 2
  Fair = TRUE
  RateLimited = TRUE
  Lease = 0
  BackoffDelays = {0}
  Backend = "postgres"
  Pausing = FALSE
  MaxRequeues = 0
  MaxStops = 0
INVARIANT KeyLimitHolds DebounceCollapses SlotsSpaced
PROPERTY FairShare
CHECK_DEADLOCK FALSE
VIEW Seen
SYMMETRY ProducerSymmetry
CONSTRAINT FirstClaims
