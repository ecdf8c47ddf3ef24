SPECIFICATION Spec
CONSTANTS
  Procs = {p1, p2}
  Workflows = {"order", "ship", "label"}
  Entry = {"order"}
  Program <- WaitProgram
  On <- WaitOn
  Events = {"paid"}
  Payloads = {"m1"}
  NoMatch = NoMatch
  Keys = {"k"}
  NoKey = NoKey
  MaxStepTries = 2
  MaxRuns = 3
  MaxSteps = 1
  JobsPerRun = 3
  MaxFaults = 1
  MaxTriggers = 2
  MaxCancels = 1
  MaxEmits = 1
  Collects = FALSE
SYMMETRY ProcSymmetry
CONSTRAINT RaceFirst
INVARIANT OneRunPerKey ChildrenStayCancelled
PROPERTY JournalImmutable
CHECK_DEADLOCK FALSE
