SPECIFICATION FairSpec
CONSTANTS
  Procs = {p1, p2}
  Workflows = {"order"}
  Entry = {"order"}
  Program <- StepProgram
  On <- StepOn
  Events = {}
  Payloads = {}
  NoMatch = NoMatch
  Keys = {"k"}
  NoKey = NoKey
  MaxStepTries = 2
  MaxRuns = 1
  MaxSteps = 1
  JobsPerRun = 5
  MaxFaults = 1
  MaxTriggers = 1
  MaxCancels = 0
  MaxEmits = 0
  Collects = FALSE
PROPERTY RunsEnd
CHECK_DEADLOCK FALSE
