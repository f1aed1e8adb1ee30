SPECIFICATION Spec
CONSTANTS
    Procs = {p1, p2}
    Sessions = {s1, s2}
    Root = Root
    None = None
    Modes = {"ralplan", "ralph", "team"}
    MaxCalls = 3
    MaxCrashes = 1
SYMMETRY Symmetry
INVARIANTS TypeOK ActiveModesAreCompatible ListsFollowFiles
CHECK_DEADLOCK FALSE
