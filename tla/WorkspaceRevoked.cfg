SPECIFICATION Spec
CONSTANTS
    worker = worker
    verifier = verifier
    orchestrator = orchestrator
    t1 = t1
    t2 = t2
    Procs = {p1}
    Tasks = {t1, t2}
    Agents <- MCAgents
    Nobody = Nobody
    Orchestrator = orchestrator
    Verifiers <- MCVerifiers
    Owner <- MCOwner
    Prereqs <- MCPrereqs
    Identity <- MCIdentity
    CreationLock = CreationLock
    Reasons = {"r1", "r2"}
    OsIsolationProven = TRUE
    Operations = {"add_task", "claim", "start", "submit", "verify", "restate"}
    StaleSeconds = 1
    LeaseSeconds = 4
    MaxHold = 1
    MaxRun = 1
    MaxClock = 2
    MaxEvents = 9
    MaxSecrets = 4
    MaxCrashes = 0
    MaxTimeouts = 0
INVARIANTS ClaimsHonourRevocation
CHECK_DEADLOCK FALSE
