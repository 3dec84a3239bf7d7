\* Violated: a crash between the quarantine of a late result and the safe stop.
CONSTANTS
    Brokers = {b1}
    None = None
    WaitLimit = 1
    Budgets <- LateBudgets
SPECIFICATION Spec
PROPERTIES
    LateRevokes
CHECK_DEADLOCK FALSE
