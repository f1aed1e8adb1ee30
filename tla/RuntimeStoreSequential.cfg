\* One exec after another; the exec budget is the only reason to stop.
CONSTANTS
  Procs = {p1}
  Owners = {o1, o2}
  Requests = {r1, r2}
  Messages = {m1}
  Cursors = {c1}
  None = None
  Compacting = {TRUE, FALSE}
  MaxCommands = 4
  MaxCrashes = 0
SPECIFICATION Spec
INVARIANTS TypeOK FilesAgree
SYMMETRY DataSymmetry
CHECK_DEADLOCK FALSE
