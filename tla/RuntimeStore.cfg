\* Execs that overlap and may be killed; the exec budget is the only reason to stop.
CONSTANTS
  Procs = {p1, p2}
  Owners = {o1}
  Requests = {r1}
  Messages = {}
  Cursors = {}
  None = None
  Compacting = {TRUE, FALSE}
  MaxCommands = 3
  MaxCrashes = 1
SPECIFICATION FairSpec
INVARIANTS LoadsSeeWholeLogs DispatchLogIsLegal
PROPERTIES LogStaysWhileRead ExecsEnd
CHECK_DEADLOCK FALSE
