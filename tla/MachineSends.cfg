SPECIFICATION Spec
CONSTANTS
  Procs = {p1, p2}
  States = {"open", "paid", "shipped"}
  Events = {"advance", "reopen"}
  Initial = "open"
  Transitions <- OrderTransitions
  NoState = NoState
  Backend = "sqlite"
  Host <- OwnProcess
  MaxHistory = 5
  MaxTime = 2
SYMMETRY ProcSymmetry
CHECK_DEADLOCK FALSE
INVARIANT HistoryExplains ConflictMeansProgress
