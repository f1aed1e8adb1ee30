SPECIFICATION Spec
CONSTANTS
    Procs = {p1, p2}
    Keys = {k1, k2}
    Messages = {m1, m2, m3}
    None = None
    MaxCalls = 4
    MaxFaults = 2
    MaxCrashes = 1
SYMMETRY Symmetry
INVARIANTS LogIsTrue OneUndeliveredCopy
PROPERTIES DeliveredStaysDelivered
CHECK_DEADLOCK FALSE
