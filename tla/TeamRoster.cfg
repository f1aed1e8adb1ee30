CONSTANTS
  Procs = {p1, p2}
  None = None
  StartWorkers = 2
  StartTasks = 1
  MaxWorkers = 3
  MaxCalls = 3
  MaxCrashes = 1
SPECIFICATION Spec
INVARIANTS RosterIsTrue
PROPERTIES NoTaskOverwritten ShutdownSparesOpenTasks RejectionsAreFresh GoneUntilStarted
SYMMETRY ProcSymmetry
CHECK_DEADLOCK FALSE
