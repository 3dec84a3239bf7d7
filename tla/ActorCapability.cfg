SPECIFICATION Spec
CONSTANTS
    Procs = {p1, p2}
    Secrets = {s1, s2}
    Scopes = {rotate, act}
    Rotate = rotate
    StaleSeconds = 1
    TTL = 1
    Leeway = 1
    MaxTokens = 3
    MaxTime = 2
    MaxFaults = 1
SYMMETRY Symmetric
CHECK_DEADLOCK FALSE
INVARIANTS
    SpentOnce
    ReceiptsStayValid
    RotationsKept
