CONSTANTS
  t1 = t1
  t2 = t2
  w1 = w1
  w2 = w2
  None = None
  Tasks = {t1, t2}
  Workers = {w1, w2}
  Procs = {p1, p2}
  InitialDeps <- MCInitialDeps
  InitialOwner <- MCInitialOwner
  EditDeps <- MCEditDeps
  Suspendable = {}
  MaxVersion = 3
  MaxCrashes = 1
SPECIFICATION Spec
INVARIANTS EventsMatchTasks
PROPERTIES TerminalIsFinal RunningLeaseIsExclusive NoLostUpdate ClaimedOnlyWhenReady ImplementsTaskClaims
SYMMETRY ProcSymmetry
CHECK_DEADLOCK FALSE
