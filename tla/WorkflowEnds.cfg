SPECIFICATION FairSpec
CONSTANTS
  Procs = {p1, p2}
  Workflows = {"order", "ship", "audit"}
  Entry = {"order"}
  Program <- EveryProgram
  On <- EveryOn
  Events = {"paid"}
  Payloads = {"m1", "m2"}
  NoMatch = NoMatch
  Keys = {"k"}
  NoKey = NoKey
  MaxStepTries = 2
  MaxRuns = 3
  MaxSteps = 2
  JobsPerRun = 5
  MaxFaults = 0
  MaxTriggers = 1
  MaxCancels = 0
  MaxEmits = 1
  Collects = TRUE
PROPERTY RunsEnd
CHECK_DEADLOCK FALSE
