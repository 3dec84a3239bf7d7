SPECIFICATION Spec
CONSTANTS
    worker = worker
    verifier = verifier
    orchestrator = orchestrator
    t1 = t1
    t2 = t2
    Procs = {p1, p2}
    Tasks = {t1}
    Agents <- MCAgents
    Nobody = Nobody
    Orchestrator = orchestrator
    Verifiers <- MCVerifiers
    Owner <- MCOwner
    Prereqs <- MCPrereqs
    Identity <- MCIdentity
    CreationLock = CreationLock
    Reasons = {"r1", "r2"}
    OsIsolationProven = TRUE
    Operations = {"add_task", "claim", "start", "submit", "verify"}
    StaleSeconds = 1
    LeaseSeconds = 4
    MaxHold = 1
    MaxRun = 1
    MaxClock = 4
    MaxEvents = 0
    MaxSecrets = 3
    MaxCrashes = 1
    MaxTimeouts = 0
INVARIANTS VerdictFinal
CHECK_DEADLOCK FALSE
