\* Three processes, one of which may die, none of which is slow.
CONSTANTS
  Procs = {p1, p2, p3}
  None = None
  Suspendable = {}
  MaxCrashes = 1
SPECIFICATION FairSpec
PROPERTIES LockStaysWhileHeld DeadHolderIsReplaced ExclusiveUnlessRecoveriesOverlap
