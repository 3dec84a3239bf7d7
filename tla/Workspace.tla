----------------------------- MODULE Workspace -----------------------------
(***************************************************************************)
(* The task lifecycle of workspace.py: every operation that changes a task *)
(* takes the task's lock file, reads the task file (the projection) and,   *)
(* where it needs it, the signed ledger, decides, appends an event to the  *)
(* ledger, writes the task file, and unlinks the lock file.  These are     *)
(* separate steps here: other processes run in between, time passes, and a *)
(* process may die after any of them.  One ledger append is one step       *)
(* (LedgerAppend takes it apart).                                          *)
(***************************************************************************)
EXTENDS Naturals, Sequences, Independence

CONSTANTS
    Procs,             \* processes that run workspace operations
    Tasks, Agents,
    Nobody,            \* no agent
    Orchestrator,      \* config["orchestrator"]
    Verifiers,         \* agents whose role is verifier or orchestrator
    Owner,             \* the owner each task is created with
    Prereqs,           \* the prerequisites each task is created with
    Identity,          \* the identity each agent was registered with
    CreationLock,      \* locks/task-create.lock
    Reasons,           \* reasons given to restate_verification
    OsIsolationProven, \* authority.status()["actor_os_isolation_proven"]
    Operations,        \* the operations that are called in this instance
    StaleSeconds,      \* FileLock(stale_seconds)
    LeaseSeconds,      \* duration of a lease
    MaxHold,           \* longest time a live process holds a task lock
    MaxRun,            \* the same for verify, which runs the validations inside
    MaxClock, MaxEvents, MaxSecrets, MaxCrashes, MaxTimeouts   \* bounds

ASSUME ConstantsAssumption ==
    /\ Orchestrator \in Agents /\ Verifiers \subseteq Agents /\ Nobody \notin Agents
    /\ Owner \in [Tasks -> Agents]
    /\ Prereqs \in [Tasks -> SUBSET Tasks]
    /\ CreationLock \notin Tasks
    /\ OsIsolationProven \in BOOLEAN
    /\ StaleSeconds \in Nat /\ LeaseSeconds \in Nat \ {0}
    /\ MaxHold \in Nat /\ MaxRun \in Nat
    /\ MaxClock \in Nat /\ MaxEvents \in Nat /\ MaxSecrets \in Nat
    /\ MaxCrashes \in Nat /\ MaxTimeouts \in Nat

VARIABLES
    clock,      \* seconds, from 1
    lockMtime,  \* st_mtime of each lock file, 0 when there is no file
    ledger,     \* the signed events
    projection, \* the task files
    secrets,    \* how many lease tokens and run ids have been drawn
    delivered,  \* lease tokens that claim has returned to their worker
    pc, job,    \* where each process is, and what it holds in memory
    crashes,    \* processes that have died
    timeouts,   \* ledger appends that have raised LockTimeout
    condemned,  \* the lock whose file a waiting process has found stale and is
                \* about to unlink, as a set of at most one
    robbed,     \* history: a waiter has unlinked the lock file of a live process
    torn        \* history: a process has died after it signed a version of a
                \* task and before it wrote the task file

vars == <<clock, lockMtime, ledger, projection, secrets, delivered, pc, job, crashes, timeouts,
          condemned, robbed, torn>>

Locks == Tasks \union {CreationLock}

TASK_STATES == {"pending", "claimed", "running", "blocked", "submitted",
                "verified", "rejected", "archived"}

TRANSITIONS ==
    [pending   |-> {"claimed", "submitted"},
     claimed   |-> {"running", "blocked"},
     running   |-> {"blocked", "submitted"},
     blocked   |-> {"pending"},
     submitted |-> {"verified", "rejected"},
     rejected  |-> {"pending"},
     verified  |-> {"archived"},
     archived  |-> {}]

\* A drawn secret is a number never drawn before; token 0 is no lease and
\* run 0 no verification run.
Lease == [holder : Agents \union {Nobody}, token : Nat, expires : Nat]
NoLease == [holder |-> Nobody, token |-> 0, expires |-> 0]

\* A task record without its constant and descriptive fields.
Task == [state : TASK_STATES \union {"absent"}, revision : Nat, attempt : Nat,
         lease : Lease, run : Nat]
NoTask == [state |-> "absent", revision |-> 0, attempt |-> 0,
           lease |-> NoLease, run |-> 0]

TerminalActions == {"verification.failed", "task.verified", "task.rejected"}
Actions == {"task.created", "task.claimed", "task.started", "task.heartbeat", "task.blocked",
            "task.submitted", "task.lease_recovered", "task.lease_force_recovered",
            "verification.started", "verification.restatement"} \union TerminalActions

Statuses == {"verification_disputed", "verification_revoked"}
NoNote == [target |-> 0, status |-> "none", reason |-> "none"]

\* task is the snapshot in the payload, NoTask when there is none.  token is
\* not in the code's event: it is the lease token the caller presented.
Event == [action : Actions, actor : Agents, id : Tasks, task : Task,
          run : Nat, attempt : Nat, token : Nat,
          note : [target : Nat, status : Statuses \union {"none"},
                  reason : Reasons \union {"none"}]]

MkEvent(action, actor, t, task) ==
    [action |-> action, actor |-> actor, id |-> t, task |-> task, run |-> 0,
     attempt |-> task.attempt, token |-> 0, note |-> NoNote]

\* Steps that append: before the task file is written, before the validations
\* of verify, or with nothing to follow.
Appending == {"append", "begin", "record"}

OpNames == {"add_task", "claim", "start", "heartbeat", "block", "submit", "recover_lease",
            "recover_lease.force", "verify", "reconcile", "restate"}

\* The local variables of one operation: the event it is about to append and
\* the record it is about to write.
Job == [op : OpNames, id : Tasks, lock : Locks, since : Nat, event : Event, task : Task]
NoJob == [op |-> "none"]

-----------------------------------------------------------------------------
(* model.py *)

CanMove(task, target) == target \in TRANSITIONS[task.state]

\* Mutant of Moved: the revision stays.
Moved_SameRevision(task, target) == [task EXCEPT !.state = target]

\* transition(): the copy it returns, before the keyword updates.
Moved(task, target) == [task EXCEPT !.state = target, !.revision = @ + 1]

LeaseExpired(task) == task.lease.token # 0 /\ clock >= task.lease.expires

-----------------------------------------------------------------------------
(* Reading the ledger *)

IsSnapshot(e, t) == e.id = t /\ e.task # NoTask

\* Index i holds the latest signed snapshot of t.
IsLatest(i, t) ==
    /\ i \in 1..Len(ledger) /\ IsSnapshot(ledger[i], t)
    /\ \A j \in (i + 1)..Len(ledger) : ~IsSnapshot(ledger[j], t)

\* Index i holds the latest task.submitted event of t.
IsLatestSubmission(i, t) ==
    LET Submission(e) == e.id = t /\ e.action = "task.submitted"
    IN /\ i \in 1..Len(ledger) /\ Submission(ledger[i])
       /\ \A j \in (i + 1)..Len(ledger) : ~Submission(ledger[j])

\* find_verification_run
Starts(r) == {i \in 1..Len(ledger) :
                ledger[i].run = r /\ ledger[i].action = "verification.started"}
Terminals(r) == {i \in 1..Len(ledger) :
                   ledger[i].run = r /\ ledger[i].action \in TerminalActions}

-----------------------------------------------------------------------------
(* The frame of every operation *)

Init ==
    /\ clock = 1
    /\ lockMtime = [l \in Locks |-> 0]
    /\ ledger = <<>>
    /\ projection = [t \in Tasks |-> NoTask]
    /\ secrets = 0
    /\ delivered = {}
    /\ pc = [p \in Procs |-> "idle"]
    /\ job = [p \in Procs |-> NoJob]
    /\ crashes = 0
    /\ timeouts = 0
    /\ condemned = [p \in Procs |-> {}]
    /\ robbed = FALSE
    /\ torn = FALSE

\* The lock file is created and the operation has decided what to append and
\* what to write; `at` is the step it takes next.
Enter(p, op, t, lock, at, event, task) ==
    /\ op \in Operations
    /\ pc[p] = "idle" /\ condemned[p] = {}
    /\ lockMtime[lock] = 0
    /\ lockMtime' = [lockMtime EXCEPT ![lock] = clock]
    /\ pc' = [pc EXCEPT ![p] = at]
    /\ job' = [job EXCEPT ![p] = [op |-> op, id |-> t, lock |-> lock, since |-> clock,
                                  event |-> event, task |-> task]]
    /\ UNCHANGED <<clock, ledger, projection, delivered, crashes, timeouts, condemned, robbed, torn>>

\* Mutant: the task file is not written after the append.
EnterUpdate_NoWrite(p, op, t, lock, event) == Enter(p, op, t, lock, "record", event, event.task)

\* An operation that appends a snapshot and then writes the same record.
EnterUpdate(p, op, t, lock, event) == Enter(p, op, t, lock, "append", event, event.task)

-----------------------------------------------------------------------------
(* The operations, up to their decision *)

add_task(p, t) ==
    LET record == [NoTask EXCEPT !.state = "pending", !.revision = 1]
    IN /\ projection[t] = NoTask
       /\ t \notin Prereqs[t]
       /\ \A u \in Prereqs[t] : projection[u] # NoTask
       /\ EnterUpdate(p, "add_task", t, CreationLock,
                      MkEvent("task.created", Orchestrator, t, record))
       /\ UNCHANGED secrets

\* Mutant: a submission counts as a verification.
PrerequisitesSatisfied_Submitted(t) ==
    \A u \in Prereqs[t] : projection[u].state \in {"submitted", "verified", "archived"}

\* _unsatisfied_prerequisites is empty.
PrerequisitesSatisfied(t) ==
    \A u \in Prereqs[t] : projection[u].state \in {"verified", "archived"}

claim(p, t) ==
    LET task  == projection[t]
        lease == [holder |-> Owner[t], token |-> secrets + 1, expires |-> clock + LeaseSeconds]
        new   == [Moved(task, "claimed") EXCEPT !.attempt = @ + 1, !.lease = lease]
    IN /\ secrets < MaxSecrets
       /\ task.state = "pending"
       /\ PrerequisitesSatisfied(t)
       /\ secrets' = secrets + 1
       /\ EnterUpdate(p, "claim", t, t,
                      [MkEvent("task.claimed", Owner[t], t, new) EXCEPT !.token = secrets + 1])

\* Mutant: the token is not compared.
CheckLease_AnyToken(t, token) ==
    projection[t].lease.holder = Owner[t] /\ ~LeaseExpired(projection[t])

\* _check_lease: the caller holds the lease, the token it presents is the
\* lease's, and the lease is healthy.
CheckLease(t, token) ==
    /\ projection[t].lease.holder = Owner[t]
    /\ projection[t].lease.token = token
    /\ ~LeaseExpired(projection[t])

\* start, heartbeat, block and submit: a worker presents a token it was given.
WorkerEvent(action, t, token, new) ==
    [MkEvent(action, Owner[t], t, new) EXCEPT !.token = token]

start(p, t, token) ==
    /\ CheckLease(t, token)
    /\ CanMove(projection[t], "running")
    /\ EnterUpdate(p, "start", t, t,
                   WorkerEvent("task.started", t, token, Moved(projection[t], "running")))
    /\ UNCHANGED secrets

heartbeat(p, t, token) ==
    /\ Len(ledger) < MaxEvents
    /\ CheckLease(t, token)
    /\ projection[t].state \in {"claimed", "running"}
    /\ EnterUpdate(p, "heartbeat", t, t,
                   WorkerEvent("task.heartbeat", t, token,
                     [projection[t] EXCEPT !.lease.expires = clock + LeaseSeconds]))
    /\ UNCHANGED secrets

block(p, t, token) ==
    /\ CheckLease(t, token)
    /\ CanMove(projection[t], "blocked")
    /\ EnterUpdate(p, "block", t, t,
                   WorkerEvent("task.blocked", t, token,
                     [Moved(projection[t], "blocked") EXCEPT !.lease = NoLease]))
    /\ UNCHANGED secrets

submit(p, t, token) ==
    /\ CheckLease(t, token)
    /\ CanMove(projection[t], "submitted")
    /\ EnterUpdate(p, "submit", t, t,
                   WorkerEvent("task.submitted", t, token,
                     [Moved(projection[t], "submitted") EXCEPT !.lease = NoLease]))
    /\ UNCHANGED secrets

\* Mutant: only a claim counts as liveness evidence.
RecoverableEvidence_ClaimOnly(t) ==
    \E i \in 1..Len(ledger) :
        IsLatest(i, t) /\ ledger[i].task = projection[t] /\ ledger[i].action = "task.claimed"

\* The task file is the latest signed snapshot, which is liveness evidence of
\* the lease holder.
RecoverableEvidence(t) ==
    \E i \in 1..Len(ledger) :
        /\ IsLatest(i, t)
        /\ ledger[i].task = projection[t]
        /\ ledger[i].action \in {"task.claimed", "task.started", "task.heartbeat"}
        /\ ledger[i].actor = projection[t].lease.holder

recover_lease(p, t, force) ==
    LET task == projection[t]
        requeued == [Moved(Moved(task, "blocked"), "pending") EXCEPT !.lease = NoLease]
    IN /\ RecoverableEvidence(t)
       /\ task.state \in {"claimed", "running"}
       /\ task.lease.token # 0
       /\ IF force THEN OsIsolationProven ELSE LeaseExpired(task)
       /\ EnterUpdate(p, IF force THEN "recover_lease.force" ELSE "recover_lease", t, t,
                      MkEvent(IF force THEN "task.lease_force_recovered"
                                       ELSE "task.lease_recovered",
                              Orchestrator, t, requeued))
       /\ UNCHANGED secrets

\* Mutant: only the agent itself is refused.
Independent_OtherActor(w, v) == w # v

\* The identities of the submission and of the verifier are independent.
Independent(w, v) == evaluate_independence(Identity[w], Identity[v])

\* verify, up to appending verification.started: a verifier that is
\* independent of the worker that submitted, and a fresh run id.
verify(p, t, v) ==
    LET task == projection[t]
        started == [MkEvent("verification.started", v, t, NoTask)
                      EXCEPT !.run = secrets + 1, !.attempt = task.attempt]
    IN /\ secrets < MaxSecrets
       /\ v \in Verifiers
       /\ task.state = "submitted"
       /\ \E i \in 1..Len(ledger) :
            IsLatestSubmission(i, t) /\ Independent(ledger[i].actor, v)
       /\ OsIsolationProven
       /\ secrets' = secrets + 1
       /\ Enter(p, "verify", t, t, "begin", started, task)

\* The validations, the attestation and the archive succeed: the terminal
\* event and the new record are built from the task read at the beginning.
Validated(p, target) ==
    LET started == job[p].event
        new == [Moved(job[p].task, target) EXCEPT !.run = started.run]
    IN /\ pc[p] = "validate"
       /\ CanMove(job[p].task, target)
       /\ pc' = [pc EXCEPT ![p] = "append"]
       /\ job' = [job EXCEPT
            ![p].event = [MkEvent(IF target = "verified" THEN "task.verified" ELSE "task.rejected",
                                  started.actor, started.id, new) EXCEPT !.run = started.run],
            ![p].task = new]
       /\ UNCHANGED <<clock, lockMtime, ledger, projection, secrets, delivered, crashes, timeouts, condemned, robbed, torn>>

FailedEvent(actor, started) ==
    [started EXCEPT !.action = "verification.failed", !.actor = actor]

\* One of these stages raises: _record_verification_failure reads the ledger
\* again, and appends verification.failed unless the run has a terminal event.
ValidationFails(p) ==
    LET started == job[p].event
    IN /\ pc[p] = "validate"
       /\ IF Terminals(started.run) = {}
          THEN /\ pc' = [pc EXCEPT ![p] = "record"]
               /\ job' = [job EXCEPT ![p].event = FailedEvent(started.actor, started)]
          ELSE /\ pc' = [pc EXCEPT ![p] = "release"]
               /\ UNCHANGED job
       /\ UNCHANGED <<clock, lockMtime, ledger, projection, secrets, delivered, crashes, timeouts, condemned, robbed, torn>>

\* Where reconcile_verification goes on after its decision.  Mutants: it closes
\* the run whatever the ledger says, or only rebuilds the task file.
ReconcileStep_Always(r) == "append"
ReconcileStep_Never(r) == "write"
ReconcileStep(r) == IF Terminals(r) = {} THEN "append" ELSE "write"

\* Close a run that has no terminal event, then rebuild the task file from
\* the latest signed snapshot.
reconcile_verification(p, t, r) ==
    /\ OsIsolationProven
    /\ \E s \in Starts(r), i \in 1..Len(ledger) :
         /\ Starts(r) = {s} /\ \A k, m \in Terminals(r) : k = m
         /\ \A k \in Starts(r) \union Terminals(r) : ledger[k].id = t
         /\ \A k \in Terminals(r) : ledger[k].attempt = ledger[s].attempt
         /\ IsLatest(i, t)
         /\ Enter(p, "reconcile", t, t, ReconcileStep(r),
                  FailedEvent(Orchestrator, ledger[s]), ledger[i].task)
    /\ UNCHANGED secrets

\* Index i holds the latest restatement of the verification event at k.
IsLatestRestatement(i, k) ==
    /\ i \in 1..Len(ledger) /\ ledger[i].note.target = k
    /\ \A j \in (i + 1)..Len(ledger) : ledger[j].note.target # k

\* Mutant: a revocation may be restated for another reason.
MayRestate_Revoked(old, new) == old # new

\* Repeating the latest restatement appends nothing; a revocation is final.
MayRestate(old, new) == old # new /\ old.status # "verification_revoked"

restate_verification(p, t, k, status, reason) ==
    LET note == [target |-> k, status |-> status, reason |-> reason]
    IN /\ Len(ledger) < MaxEvents
       /\ OsIsolationProven
       /\ projection[t] # NoTask
       /\ ledger[k].action = "task.verified" /\ ledger[k].id = t
       /\ \A i \in 1..Len(ledger) : IsLatestRestatement(i, k) =>
            MayRestate(ledger[i].note, note)
       /\ Enter(p, "restate", t, t, "record",
                [MkEvent("verification.restatement", Orchestrator, t, NoTask)
                   EXCEPT !.note = note, !.attempt = ledger[k].attempt],
                NoTask)
       /\ UNCHANGED secrets

-----------------------------------------------------------------------------
(* The steps after the decision *)

\* Ledger.append; what follows is the write of the task file, the validations
\* of verify, or the release of the lock.
AppendStep(p) ==
    /\ pc[p] \in Appending
    /\ ledger' = Append(ledger, job[p].event)
    /\ pc' = [pc EXCEPT ![p] = CASE pc[p] = "append" -> "write"
                                 [] pc[p] = "begin"  -> "validate"
                                 [] pc[p] = "record" -> "release"]
    /\ UNCHANGED <<clock, lockMtime, projection, secrets, delivered, job, crashes, timeouts, condemned, robbed, torn>>

\* Ledger.append raises LockTimeout: the exception leaves the operation, which
\* only unlinks its lock file.
AppendFails(p) ==
    /\ timeouts < MaxTimeouts
    /\ pc[p] \in Appending
    /\ timeouts' = timeouts + 1
    /\ pc' = [pc EXCEPT ![p] = "abort"]
    /\ UNCHANGED <<clock, lockMtime, ledger, projection, secrets, delivered, job, crashes, condemned, robbed, torn>>

\* atomic_write_json of the task file.
WriteProjection(p) ==
    /\ pc[p] = "write"
    /\ projection' = [projection EXCEPT ![job[p].id] = job[p].task]
    /\ pc' = [pc EXCEPT ![p] = "release"]
    /\ UNCHANGED <<clock, lockMtime, ledger, secrets, delivered, job, crashes, timeouts, condemned, robbed, torn>>

\* FileLock.release unlinks the path, whoever created the file that is there;
\* then the operation returns, claim with its token, or raises.
Release(p) ==
    /\ pc[p] \in {"release", "abort"}
    /\ lockMtime' = [lockMtime EXCEPT ![job[p].lock] = 0]
    /\ pc' = [pc EXCEPT ![p] = "idle"]
    /\ delivered' = delivered \union
                      (IF pc[p] = "release" /\ job[p].op = "claim" THEN {job[p].task.lease.token} ELSE {})
    /\ job' = [job EXCEPT ![p] = NoJob]
    /\ UNCHANGED <<clock, ledger, projection, secrets, crashes, timeouts, condemned, robbed, torn>>

\* A process dies; its lock file stays.  The bound on the time leaves room for
\* the file to go stale.
Crash(p) ==
    /\ crashes < MaxCrashes
    /\ clock + StaleSeconds < MaxClock
    /\ pc[p] # "idle"
    /\ crashes' = crashes + 1
    /\ torn' = (torn \/ pc[p] = "write")
    /\ pc' = [pc EXCEPT ![p] = "idle"]
    /\ job' = [job EXCEPT ![p] = NoJob]
    /\ UNCHANGED <<clock, lockMtime, ledger, projection, secrets, delivered, timeouts,
                   condemned, robbed>>

IsStale(mtime) == clock - mtime > StaleSeconds

\* _remove_if_stale of a process that waits for lock l, first half: stat finds
\* the file too old.  Only the verdict is kept.
FindStale(p, l) ==
    /\ pc[p] = "idle" /\ condemned[p] = {}
    /\ lockMtime[l] # 0
    /\ IsStale(lockMtime[l])
    /\ condemned' = [condemned EXCEPT ![p] = {l}]
    /\ UNCHANGED <<clock, lockMtime, ledger, projection, secrets, delivered, pc, job, crashes,
                   timeouts, robbed, torn>>

\* A live process is inside an operation under lock l.
Held(l) == \E q \in Procs : pc[q] # "idle" /\ job[q].lock = l

\* _remove_if_stale, second half: unlink whatever file is there now.
UnlinkStale(p, l) ==
    /\ l \in condemned[p]
    /\ lockMtime' = [lockMtime EXCEPT ![l] = 0]
    /\ condemned' = [condemned EXCEPT ![p] = {}]
    /\ robbed' = (robbed \/ Held(l))
    /\ UNCHANGED <<clock, ledger, projection, secrets, delivered, pc, job, crashes, timeouts, torn>>

HoldLimit(p) == IF job[p].op = "verify" THEN MaxRun ELSE MaxHold

Tick ==
    /\ clock < MaxClock
    /\ \A p \in Procs : pc[p] # "idle" => clock + 1 - job[p].since <= HoldLimit(p)
    /\ clock' = clock + 1
    /\ UNCHANGED <<lockMtime, ledger, projection, secrets, delivered, pc, job, crashes, timeouts, condemned, robbed, torn>>

WorkerCall(p, t) ==
    \E token \in delivered :
        \/ start(p, t, token)
        \/ heartbeat(p, t, token)
        \/ block(p, t, token)
        \/ submit(p, t, token)

OrchestratorCall(p, t) ==
    \/ add_task(p, t)
    \/ \E force \in BOOLEAN : recover_lease(p, t, force)
    \/ \E r \in 1..secrets : reconcile_verification(p, t, r)
    \/ \E k \in 1..Len(ledger), status \in Statuses, reason \in Reasons :
         restate_verification(p, t, k, status, reason)

Call(p) ==
    /\ pc[p] = "idle"
    /\ \E t \in Tasks :
         \/ claim(p, t)
         \/ WorkerCall(p, t)
         \/ \E v \in Verifiers : verify(p, t, v)
         \/ OrchestratorCall(p, t)

Validation(p) == ValidationFails(p) \/ \E target \in {"verified", "rejected"} : Validated(p, target)

Progress(p) == AppendStep(p) \/ WriteProjection(p) \/ Validation(p) \/ Release(p)

Next ==
    \/ Tick
    \/ \E p \in Procs, l \in Locks : FindStale(p, l) \/ UnlinkStale(p, l)
    \/ \E p \in Procs : Call(p) \/ Progress(p) \/ AppendFails(p) \/ Crash(p)

Spec == Init /\ [][Next]_vars

\* Time passes, waiters poll, and a live process finishes its operation.  The
\* orchestrator retries recover_lease while a lease stays expired, and
\* reconcile_verification while doctor reports an unfinished run.
Fairness ==
    /\ WF_vars(Tick)
    /\ \A l \in Locks : /\ WF_vars(\E p \in Procs : FindStale(p, l))
                        /\ \A p \in Procs : WF_vars(UnlinkStale(p, l))
    /\ \A p \in Procs : WF_vars(Progress(p))
    /\ \A t \in Tasks : WF_vars(\E p \in Procs : recover_lease(p, t, FALSE))
    /\ \A t \in Tasks, r \in 1..MaxSecrets :
         SF_vars(\E p \in Procs : reconcile_verification(p, t, r))

FairSpec == Spec /\ Fairness

-----------------------------------------------------------------------------
(* Properties *)

TypeOK ==
    /\ clock \in Nat \ {0}
    /\ lockMtime \in [Locks -> Nat]
    /\ ledger \in Seq(Event)
    /\ projection \in [Tasks -> Task]
    /\ secrets \in Nat
    /\ delivered \subseteq Nat
    /\ pc \in [Procs -> {"idle", "validate", "write", "release", "abort"} \union Appending]
    /\ job \in [Procs -> Job \union {NoJob}]
    /\ \A p \in Procs : pc[p] # "idle" => job[p] \in Job
    /\ crashes \in Nat /\ timeouts \in Nat
    /\ condemned \in [Procs -> SUBSET Locks]
    /\ robbed \in BOOLEAN /\ torn \in BOOLEAN

\* No accident that the lock file and the two writes cannot take: no live
\* process has lost its lock to a waiter (Undisturbed), and none has died
\* between signing a version of a task and writing the task file (Orderly).
Undisturbed == ~robbed
Orderly == ~robbed /\ ~torn

\* The task file is the latest signed snapshot, except while the process that
\* has just signed a new one is about to write it (audit_projections).  It holds
\* through deaths at any other point, take-overs and LockTimeouts.
ProjectionFollowsLedger ==
    Orderly =>
        \A t \in Tasks :
            /\ projection[t] # NoTask => \E i \in 1..Len(ledger) : IsLatest(i, t)
            /\ \A i \in 1..Len(ledger) : IsLatest(i, t) =>
                 \/ projection[t] = ledger[i].task
                 \/ \E p \in Procs : pc[p] = "write" /\ job[p].id = t
                                    /\ job[p].task = ledger[i].task

\* The step from one signed snapshot of a task to the next is one the state
\* table allows: a heartbeat changes no state, a recovery makes two moves, and
\* the attempt grows with each claim and with nothing else.
LegalSuccessor(old, e) ==
    LET new == e.task
    IN /\ \/ /\ e.action = "task.heartbeat"
             /\ new.state = old.state /\ new.revision = old.revision
          \/ /\ e.action \in {"task.lease_recovered", "task.lease_force_recovered"}
             /\ CanMove(old, "blocked") /\ new.state = "pending"
             /\ new.revision = old.revision + 2
          \/ CanMove(old, new.state) /\ new.revision = old.revision + 1
       /\ new.attempt = old.attempt + IF e.action = "task.claimed" THEN 1 ELSE 0

LegalHistory ==
    \A t \in Tasks, j \in 1..Len(ledger) :
        IsSnapshot(ledger[j], t) /\ ledger[j].action # "task.created" =>
            \E i \in 1..(j - 1) :
                /\ IsSnapshot(ledger[i], t)
                /\ \A k \in (i + 1)..(j - 1) : ~IsSnapshot(ledger[k], t)
                /\ LegalSuccessor(ledger[i].task, ledger[j])

\* Each signed version of a task follows the one before it by a legal move, over
\* any sequence of operations, deaths and take-overs (TRANSITIONS of model.py).
SignedHistoryLegal == Orderly => LegalHistory

\* The token behind each worker event is the one of the last claim, and no
\* recovery was signed since that claim.
TokensCurrent ==
    \A i \in 1..Len(ledger) :
        ledger[i].action \in {"task.started", "task.heartbeat", "task.blocked", "task.submitted"} =>
            \E c \in 1..(i - 1) :
                /\ ledger[c].action = "task.claimed"
                /\ ledger[c].id = ledger[i].id
                /\ ledger[c].token = ledger[i].token
                /\ \A j \in (c + 1)..(i - 1) : ledger[j].id = ledger[i].id =>
                     ledger[j].action \notin {"task.claimed", "task.lease_recovered",
                                             "task.lease_force_recovered"}

\* A worker that lost its lease, by expiry and recovery or by force, can no longer
\* sign anything for the task, whoever claims it next (_check_lease).
LeaseFenced == Orderly => TokensCurrent

\* audit_verification_runs: a run has one started event, every terminal event
\* follows it and is of the same task and attempt, and there is at most one,
\* unless a waiter robbed the process that was to sign it.
OneTerminalPerRun ==
    \A r \in 1..secrets :
        /\ \A i, j \in Starts(r) : i = j
        /\ \A i \in Terminals(r) : \E s \in Starts(r) :
             s < i /\ ledger[s].id = ledger[i].id /\ ledger[s].attempt = ledger[i].attempt
        /\ Undisturbed => \A i, j \in Terminals(r) : i = j

\* docs/RECOVERY_LIFECYCLE_KO.md, line 14: exactly one of the three terminal
\* events can exist for a run.
SingleTerminal == \A r \in 1..secrets : \A i, j \in Terminals(r) : i = j

\* Each verdict is by an agent independent of the worker of the last submission
\* signed before it, which is of the same attempt.
JudgedIndependently ==
    \A i \in 1..Len(ledger) : ledger[i].action \in {"task.verified", "task.rejected"} =>
        \E s \in 1..(i - 1) :
            /\ ledger[s].action = "task.submitted" /\ ledger[s].id = ledger[i].id
            /\ ledger[s].attempt = ledger[i].attempt
            /\ evaluate_independence(Identity[ledger[s].actor], Identity[ledger[i].actor])
            /\ \A j \in (s + 1)..(i - 1) :
                 ~(ledger[j].action = "task.submitted" /\ ledger[j].id = ledger[i].id)

\* No agent judges its own work or that of an agent it is not independent of,
\* whatever is submitted and verified again meanwhile (verify).
VerdictIndependent == Undisturbed => JudgedIndependently

\* Work on a task is only claimed after every prerequisite was signed as
\* verified, although claim looks at other tasks' files without their locks.
PrerequisitesVerified ==
    \A i \in 1..Len(ledger) : ledger[i].action = "task.claimed" =>
        \A u \in Prereqs[ledger[i].id] :
            \E j \in 1..(i - 1) : ledger[j].action = "task.verified" /\ ledger[j].id = u

\* The same, but by the effective status: the verification relied on was not
\* revoked before the claim was signed (restate_verification's docstring).
ClaimsHonourRevocation ==
    \A i \in 1..Len(ledger) : ledger[i].action = "task.claimed" =>
        \A u \in Prereqs[ledger[i].id] :
            \E j \in 1..(i - 1) :
                /\ ledger[j].action = "task.verified" /\ ledger[j].id = u
                /\ \A k \in (j + 1)..(i - 1) :
                     ~(ledger[k].note.target = j /\ ledger[k].note.status = "verification_revoked")

\* A task signed as verified is not signed as rejected afterwards: verified
\* leads to archived only (TRANSITIONS).
VerdictFinal ==
    \A i, j \in 1..Len(ledger) :
        i < j /\ ledger[i].action = "task.verified" /\ ledger[j].action = "task.rejected" =>
            ledger[i].id # ledger[j].id

NothingAfterRevocation ==
    \A i, j \in 1..Len(ledger) :
        i < j /\ ledger[i].note.status = "verification_revoked" =>
            ledger[j].note.target # ledger[i].note.target

\* A revocation is never followed by another restatement of the same event, of
\* whatever status and reason (restate_verification).
RevocationFinal == Undisturbed => NothingAfterRevocation

\* recover_lease: a lease that has expired does not stay on its task for ever.
ExpiredLeaseRecovered ==
    \A t \in Tasks : LeaseExpired(projection[t]) ~> ~LeaseExpired(projection[t])

\* The same with process deaths: an expired lease only stays when the task file
\* has fallen behind the ledger, which a death between the two writes causes.
InSync(t) == \E i \in 1..Len(ledger) : IsLatest(i, t) /\ ledger[i].task = projection[t]

ExpiredLeaseSettled ==
    \A t \in Tasks :
        LeaseExpired(projection[t]) ~> (~LeaseExpired(projection[t]) \/ []~InSync(t))

\* reconcile_verification: a run that was started is eventually closed, also
\* when the process that ran it has died.
StartedRunClosed ==
    \A r \in 1..MaxSecrets : Starts(r) # {} ~> Terminals(r) # {}
=============================================================================
