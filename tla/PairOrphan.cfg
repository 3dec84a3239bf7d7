\* Violated: a broker dies between the two halves of Move-Item.
CONSTANTS
    Brokers = {b1}
    None = None
    WaitLimit = 1
    Budgets <- OrphanBudgets
SPECIFICATION Spec
PROPERTIES
    OrphansClose
CHECK_DEADLOCK FALSE
