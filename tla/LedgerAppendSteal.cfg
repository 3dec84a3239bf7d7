SPECIFICATION Spec
CONSTANTS
    Procs = {p1, p2, p3}
    Genesis = Genesis
    StaleSeconds = 2
    TimeoutSeconds = 1
    MaxHold = 2
    MaxStart = 4
    MaxCrashes = 1
INVARIANTS Exclusive
SYMMETRY Symmetric
CHECK_DEADLOCK FALSE
