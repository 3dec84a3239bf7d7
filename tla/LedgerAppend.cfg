SPECIFICATION FairSpec
CONSTANTS
    Procs = {p1, p2, p3}
    Genesis = Genesis
    StaleSeconds = 2
    TimeoutSeconds = 1
    MaxHold = 2
    MaxStart = 5
    MaxCrashes = 2
INVARIANTS OneWriter RobberyNeedsDeath ReturnedEventsVerify
PROPERTIES AppendEnds UnreadableIsFrozen ImplementsLedger
CHECK_DEADLOCK FALSE
