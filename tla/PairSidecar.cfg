CONSTANTS
    Brokers = {b1}
    None = None
    WaitLimit = 1
    Budgets <- MCBudgets
SPECIFICATION Spec
INVARIANTS
    RoundsSound
PROPERTIES
    PairCloses
\* A task that is closed stays closed.
CHECK_DEADLOCK FALSE
