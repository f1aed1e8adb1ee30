CONSTANTS
  Tasks = {t1}
  Workers = {w1}
  Procs = {p1}
  Monitors = {m1, m2}
  None = None
  InitialDeps <- MCInitialDeps
  InitialOwner <- MCInitialOwner
  EditDeps = {}
  Suspendable = {}
  MaxVersion = 3
  MaxCrashes = 1
  MaxEvents = 2
SPECIFICATION FairMonitorSpec
INVARIANTS ViewsAreNeverAhead
PROPERTIES CrashedCompletionIsAnnounced
CHECK_DEADLOCK FALSE
