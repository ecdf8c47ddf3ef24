SPECIFICATION FairSpec
CONSTANTS
  Calls = {c1, c2, c3, c4}
  Threshold = 2
  ResetTimeout = 2
  HalfOpenMax = 2
  MaxConcurrent = 3
  MaxOutages = 2
INVARIANT ProbesBounded
PROPERTY Recovers
