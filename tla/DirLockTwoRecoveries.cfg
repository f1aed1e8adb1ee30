\* Three processes, one of which may die: two waiters find its lock stale.
CONSTANTS
  Procs = {p1, p2, p3}
  None = None
  Suspendable = {}
  MaxCrashes = 1
SPECIFICATION Spec
INVARIANT MutualExclusion
SYMMETRY ProcSymmetry
