SPECIFICATION FairSpec
CONSTANTS
  Nodes = {n1, n2}
  Defs <- MixedDefs
  MaxInterval = 2
  MaxCatchup = 2
  MaxTime = 3
  Nobody = Nobody
  MaxFaults = 1
INVARIANT  OneProcessSerialises
PROPERTY DueTicksTaken
CHECK_DEADLOCK FALSE
