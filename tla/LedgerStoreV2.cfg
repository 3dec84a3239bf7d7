SPECIFICATION FairSpec
CONSTANTS
    s1 = s1
    s2 = s2
    t1 = t1
    t2 = t2
    request = request
    other = other
    Stores <- MCStores
    Txs <- MCTxs
    Bodies <- MCBodies
    Dispatches <- MCDispatches
    MaxEvents = 2
    Budgets <- MCBudgets
INVARIANTS
    StoreReconcilable
    AnswersStayTrue
PROPERTIES
    ImplementsExactlyOnce
    PreparedResolves
CHECK_DEADLOCK FALSE
