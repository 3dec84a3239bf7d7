SPECIFICATION Spec
CONSTANTS
    Clients = {c1, c2}
    Threads = {t1, t2}
    None = None
    Editors = {c1}
    Uid <- OneAccount
    FileCount = 2
    MaxLeases = 1
    MaxNoncesPerUid = 3
    MaxNonces = 3
    MaxTombstones = 1
    RequestTTL = 0
    LeaseTTL = 1
    PruneSlack = 0
    MaxTime = 2
    Budgets <- Faults
SYMMETRY ThreadSymmetry
CHECK_DEADLOCK FALSE
INVARIANTS
    HeldSnapshotIntact
    ProofMeansGone
    TablesAgree
