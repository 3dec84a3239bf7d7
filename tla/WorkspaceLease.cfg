SPECIFICATION Spec
CONSTANTS
    worker = worker
    verifier = verifier
    orchestrator = orchestrator
    t1 = t1
    t2 = t2
    Procs = {p1, p2}
    Tasks = {t1}
    Agents <- MCAgents
    Nobody = Nobody
    Orchestrator = orchestrator
    Verifiers <- MCVerifiers
    Owner <- MCOwner
    Prereqs <- MCPrereqs
    Identity <- MCIdentity
    CreationLock = CreationLock
    Reasons = {"r1", "r2"}
    OsIsolationProven = TRUE
    Operations = {"add_task", "claim", "start", "heartbeat", "block", "submit", "recover_lease", "recover_lease.force"}
    StaleSeconds = 1
    LeaseSeconds = 1
    MaxHold = 1
    MaxRun = 1
    MaxClock = 3
    MaxEvents = 5
    MaxSecrets = 2
    MaxCrashes = 1
    MaxTimeouts = 1
SYMMETRY Symmetric
INVARIANTS ProjectionFollowsLedger SignedHistoryLegal LeaseFenced
CHECK_DEADLOCK FALSE
