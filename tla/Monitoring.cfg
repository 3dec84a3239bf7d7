SPECIFICATION MonitorSpec
CONSTANTS
    Ranks = {1, 2}
    HistoryLimit = 2
    NoSnapshot = NoSnapshot
    MaxEvents = 1
    MaxSequence = 5
    MaxFaults = 2
INVARIANTS
    DashboardInOrder
PROPERTY PublisherRecovers
CHECK_DEADLOCK FALSE
