-------------------------- MODULE WorkspaceProofs --------------------------
(***************************************************************************)
(* Theorems about Workspace, about TrustProjection's readings of its       *)
(* ledger, and about the identities of Independence and IdentityRegistry:  *)
(* for every set of tasks, agents and processes, every lease, stale and    *)
(* hold time, and any number of deaths and of locks that are taken over.   *)
(***************************************************************************)
EXTENDS TrustProjection, IdentityRegistry, FiniteSetTheorems, NaturalsInduction,
        WellFoundedInduction, TLAPS

-----------------------------------------------------------------------------
(* Types of the values the operations build *)

LEMMA NoTaskType == NoLease \in Lease /\ NoTask \in Task
BY DEF NoLease, Lease, NoTask, Task, TASK_STATES

LEMMA MovedType ==
    ASSUME NEW task \in Task, NEW target \in TASK_STATES
    PROVE  Moved(task, target) \in Task
<1>1. task.revision + 1 \in Nat
  BY DEF Task
<1>2. \A n \in Nat : [task EXCEPT !.state = target, !.revision = n] \in Task
  BY DEF Task
<1>. QED BY <1>1, <1>2 DEF Moved

LEMMA MkEventType ==
    ASSUME NEW action \in Actions, NEW actor \in Agents, NEW t \in Tasks, NEW task \in Task
    PROVE  MkEvent(action, actor, t, task) \in Event
BY DEF MkEvent, Event, NoNote, Task

LEMMA EventNumbersType ==
    ASSUME NEW e \in Event, NEW n \in Nat, NEW m \in Nat
    PROVE  /\ [e EXCEPT !.token = n] \in Event
           /\ [e EXCEPT !.run = n] \in Event
           /\ [e EXCEPT !.run = n, !.attempt = m] \in Event
BY DEF Event

LEMMA FailedEventType ==
    ASSUME NEW e \in Event, NEW actor \in Agents
    PROVE  FailedEvent(actor, e) \in Event
<1>1. "verification.failed" \in Actions
  BY DEF Actions, TerminalActions
<1>. QED BY <1>1 DEF FailedEvent, Event

LEMMA TaskUpdateType ==
    ASSUME NEW task \in Task, NEW lease \in Lease, NEW n \in Nat
    PROVE  /\ [task EXCEPT !.lease = lease] \in Task
           /\ [task EXCEPT !.attempt = @ + 1, !.lease = lease] \in Task
           /\ [task EXCEPT !.run = n] \in Task
           /\ [task EXCEPT !.lease.expires = n] \in Task
<1>1. task.attempt + 1 \in Nat
  BY DEF Task
<1>2. [task EXCEPT !.attempt = @ + 1, !.lease = lease] \in Task
  BY <1>1 DEF Task
<1>3. [task EXCEPT !.lease.expires = n] \in Task
  BY DEF Task, Lease
<1>. QED BY <1>2, <1>3 DEF Task

LEMMA EnterType ==
    ASSUME TypeOK, NEW p \in Procs, NEW op \in OpNames, NEW t \in Tasks,
           NEW lock \in Locks, NEW at \in Appending \union {"write"},
           NEW event \in Event, NEW task \in Task,
           Enter(p, op, t, lock, at, event, task), secrets' \in Nat
    PROVE  TypeOK'
<1>1. [op |-> op, id |-> t, lock |-> lock, since |-> clock, event |-> event, task |-> task]
        \in Job
  BY DEF Job, TypeOK
<1>2. job' \in [Procs -> Job \union {NoJob}]
  BY <1>1 DEF Enter, TypeOK
<1>3. \A q \in Procs : pc'[q] # "idle" => job'[q] \in Job
  BY <1>1 DEF Enter, TypeOK
<1>. QED BY <1>2, <1>3 DEF Enter, TypeOK, Appending

LEMMA EnterUpdateType ==
    ASSUME TypeOK, NEW p \in Procs, NEW op \in OpNames, NEW t \in Tasks,
           NEW lock \in Locks, NEW event \in Event,
           EnterUpdate(p, op, t, lock, event), secrets' \in Nat
    PROVE  TypeOK'
<1>1. event.task \in Task
  BY DEF Event
<1>. QED BY <1>1, EnterType DEF EnterUpdate, Appending

-----------------------------------------------------------------------------
(* Type correctness *)

LEMMA CallType ==
    ASSUME TypeOK, NEW p \in Procs, Call(p)
    PROVE  TypeOK'
<1>. USE ConstantsAssumption DEF Actions, OpNames
<1>1. PICK t \in Tasks : \/ claim(p, t)
                         \/ WorkerCall(p, t)
                         \/ \E v \in Verifiers : verify(p, t, v)
                         \/ OrchestratorCall(p, t)
  BY DEF Call
<1>2. /\ projection[t] \in Task /\ t \in Locks /\ CreationLock \in Locks
      /\ Owner[t] \in Agents /\ secrets \in Nat /\ clock \in Nat
      /\ projection[t].lease \in Lease
  BY DEF TypeOK, Locks, Task
<1>3. CASE claim(p, t)
  <2>. DEFINE lease == [holder |-> Owner[t], token |-> secrets + 1,
                        expires |-> clock + LeaseSeconds]
              new == [Moved(projection[t], "claimed") EXCEPT !.attempt = @ + 1, !.lease = lease]
              event == [MkEvent("task.claimed", Owner[t], t, new) EXCEPT !.token = secrets + 1]
  <2>1. lease \in Lease
    BY <1>2 DEF Lease
  <2>2. Moved(projection[t], "claimed") \in Task
    BY <1>2, MovedType DEF TASK_STATES
  <2>3. new \in Task
    BY <2>1, <2>2, TaskUpdateType
  <2>4. MkEvent("task.claimed", Owner[t], t, new) \in Event
    BY <1>2, <2>3, MkEventType
  <2>5. event \in Event
    <3>1. secrets + 1 \in Nat
      BY <1>2
    <3>. QED BY <2>4, <3>1, EventNumbersType
  <2>6. EnterUpdate(p, "claim", t, t, event) /\ secrets' = secrets + 1
    BY <1>3 DEF claim
  <2>. HIDE DEF event
  <2>. QED BY <1>2, <2>5, <2>6, EnterUpdateType
<1>4. CASE WorkerCall(p, t)
  <2>1. PICK token \in delivered : \/ start(p, t, token) \/ heartbeat(p, t, token)
                                   \/ block(p, t, token) \/ submit(p, t, token)
    BY <1>4 DEF WorkerCall
  <2>2. ASSUME NEW op \in OpNames, NEW action \in Actions, NEW new \in Task,
               EnterUpdate(p, op, t, t, WorkerEvent(action, t, token, new)),
               UNCHANGED secrets
        PROVE  TypeOK'
    <3>1. token \in Nat
      BY DEF TypeOK
    <3>2. WorkerEvent(action, t, token, new) \in Event
      BY <1>2, <3>1, MkEventType, EventNumbersType DEF WorkerEvent
    <3>. QED BY <1>2, <2>2, <3>2, EnterUpdateType
  <2>3. \A target \in TASK_STATES :
           /\ Moved(projection[t], target) \in Task
           /\ [Moved(projection[t], target) EXCEPT !.lease = NoLease] \in Task
    BY <1>2, MovedType, TaskUpdateType, NoTaskType
  <2>4. CASE start(p, t, token)
    <3>. DEFINE new == Moved(projection[t], "running")
    <3>1. new \in Task
      BY <2>3 DEF TASK_STATES
    <3>2. EnterUpdate(p, "start", t, t, WorkerEvent("task.started", t, token, new))
          /\ UNCHANGED secrets
      BY <2>4 DEF start
    <3>. HIDE DEF new
    <3>. QED BY <2>2, <3>1, <3>2
  <2>5. CASE heartbeat(p, t, token)
    <3>. DEFINE new == [projection[t] EXCEPT !.lease.expires = clock + LeaseSeconds]
    <3>1. clock + LeaseSeconds \in Nat
      BY <1>2
    <3>2. new \in Task
      BY <1>2, <3>1, TaskUpdateType
    <3>3. EnterUpdate(p, "heartbeat", t, t, WorkerEvent("task.heartbeat", t, token, new))
          /\ UNCHANGED secrets
      BY <2>5 DEF heartbeat
    <3>. HIDE DEF new
    <3>. QED BY <2>2, <3>2, <3>3
  <2>6. CASE block(p, t, token)
    <3>. DEFINE new == [Moved(projection[t], "blocked") EXCEPT !.lease = NoLease]
    <3>1. new \in Task
      BY <2>3 DEF TASK_STATES
    <3>2. EnterUpdate(p, "block", t, t, WorkerEvent("task.blocked", t, token, new))
          /\ UNCHANGED secrets
      BY <2>6 DEF block
    <3>. HIDE DEF new
    <3>. QED BY <2>2, <3>1, <3>2
  <2>7. CASE submit(p, t, token)
    <3>. DEFINE new == [Moved(projection[t], "submitted") EXCEPT !.lease = NoLease]
    <3>1. new \in Task
      BY <2>3 DEF TASK_STATES
    <3>2. EnterUpdate(p, "submit", t, t, WorkerEvent("task.submitted", t, token, new))
          /\ UNCHANGED secrets
      BY <2>7 DEF submit
    <3>. HIDE DEF new
    <3>. QED BY <2>2, <3>1, <3>2
  <2>. QED BY <2>1, <2>4, <2>5, <2>6, <2>7
<1>5. ASSUME NEW v \in Verifiers, verify(p, t, v) PROVE TypeOK'
  <2>. DEFINE event == [MkEvent("verification.started", v, t, NoTask)
                          EXCEPT !.run = secrets + 1, !.attempt = projection[t].attempt]
  <2>1. projection[t].attempt \in Nat /\ v \in Agents /\ secrets + 1 \in Nat
    BY <1>2 DEF Task
  <2>2. MkEvent("verification.started", v, t, NoTask) \in Event
    BY <2>1, NoTaskType, MkEventType
  <2>3. event \in Event
    BY <1>2, <2>1, <2>2, EventNumbersType
  <2>4. Enter(p, "verify", t, t, "begin", event, projection[t]) /\ secrets' = secrets + 1
    BY <1>5 DEF verify
  <2>. HIDE DEF event
  <2>. QED BY <1>2, <2>1, <2>3, <2>4, EnterType DEF Appending
<1>6. CASE OrchestratorCall(p, t)
  <2>1. CASE add_task(p, t)
    <3>. DEFINE record == [NoTask EXCEPT !.state = "pending", !.revision = 1]
    <3>1. record \in Task
      BY NoTaskType DEF Task, TASK_STATES
    <3>2. MkEvent("task.created", Orchestrator, t, record) \in Event
      BY <3>1, MkEventType
    <3>3. EnterUpdate(p, "add_task", t, CreationLock,
                      MkEvent("task.created", Orchestrator, t, record)) /\ UNCHANGED secrets
      BY <2>1 DEF add_task
    <3>. HIDE DEF record
    <3>. QED BY <1>2, <3>2, <3>3, EnterUpdateType
  <2>2. ASSUME NEW force \in BOOLEAN, recover_lease(p, t, force) PROVE TypeOK'
    <3>. DEFINE requeued == [Moved(Moved(projection[t], "blocked"), "pending")
                               EXCEPT !.lease = NoLease]
                action == IF force THEN "task.lease_force_recovered"
                                   ELSE "task.lease_recovered"
                op == IF force THEN "recover_lease.force" ELSE "recover_lease"
    <3>1. requeued \in Task
      BY <1>2, MovedType, TaskUpdateType, NoTaskType DEF TASK_STATES
    <3>2. action \in {"task.lease_force_recovered", "task.lease_recovered"}
          /\ op \in {"recover_lease.force", "recover_lease"}
      OBVIOUS
    <3>3. EnterUpdate(p, op, t, t, MkEvent(action, Orchestrator, t, requeued))
          /\ UNCHANGED secrets
      BY <2>2 DEF recover_lease
    <3>. HIDE DEF action, op, requeued
    <3>4. action \in Actions /\ op \in OpNames
      BY <3>2 DEF Actions, OpNames
    <3>5. MkEvent(action, Orchestrator, t, requeued) \in Event
      BY <3>1, <3>4, MkEventType
    <3>. QED BY <1>2, <3>3, <3>4, <3>5, EnterUpdateType
  <2>3. ASSUME NEW r \in 1..secrets, reconcile_verification(p, t, r) PROVE TypeOK'
    <3>1. PICK s \in Starts(r), i \in 1..Len(ledger) :
            Enter(p, "reconcile", t, t, ReconcileStep(r),
                  FailedEvent(Orchestrator, ledger[s]), ledger[i].task)
      BY <2>3 DEF reconcile_verification
    <3>2. ledger[s] \in Event /\ ledger[i] \in Event
      BY DEF Starts, TypeOK
    <3>3. FailedEvent(Orchestrator, ledger[s]) \in Event /\ ledger[i].task \in Task
      BY <3>2, FailedEventType DEF Event
    <3>4. ReconcileStep(r) \in Appending \union {"write"}
      BY DEF ReconcileStep, Appending
    <3>5. secrets' = secrets
      BY <2>3 DEF reconcile_verification
    <3>. QED BY <1>2, <3>1, <3>3, <3>4, <3>5, EnterType
  <2>4. ASSUME NEW k \in 1..Len(ledger), NEW status \in Statuses, NEW reason \in Reasons,
               restate_verification(p, t, k, status, reason)
        PROVE  TypeOK'
    <3>. DEFINE note == [target |-> k, status |-> status, reason |-> reason]
                event == [MkEvent("verification.restatement", Orchestrator, t, NoTask)
                            EXCEPT !.note = note, !.attempt = ledger[k].attempt]
    <3>1. ledger[k] \in Event
      BY DEF TypeOK
    <3>2. ledger[k].attempt \in Nat /\ k \in Nat
      BY <3>1 DEF Event
    <3>3. MkEvent("verification.restatement", Orchestrator, t, NoTask) \in Event
      BY NoTaskType, MkEventType
    <3>4. event \in Event
      BY <3>2, <3>3 DEF Event
    <3>5. Enter(p, "restate", t, t, "record", event, NoTask) /\ secrets' = secrets
      BY <2>4 DEF restate_verification
    <3>. HIDE DEF event
    <3>. QED BY <1>2, <3>4, <3>5, NoTaskType, EnterType DEF Appending
  <2>. QED BY <1>6, <2>1, <2>2, <2>3, <2>4 DEF OrchestratorCall
<1>. QED BY <1>1, <1>3, <1>4, <1>5, <1>6

LEMMA ProgressType ==
    ASSUME TypeOK, NEW p \in Procs, Progress(p)
    PROVE  TypeOK'
<1>0. pc[p] # "idle"
  BY DEF Progress, AppendStep, WriteProjection, Validation, Validated, ValidationFails,
         Release, Appending
<1>1. /\ job[p] \in Job /\ job[p].event \in Event /\ job[p].task \in Task
      /\ job[p].id \in Tasks /\ job[p].lock \in Locks
  BY <1>0 DEF TypeOK, Job
<1>2. CASE AppendStep(p)
  BY <1>1, <1>2 DEF AppendStep, TypeOK, Appending
<1>3. CASE WriteProjection(p)
  BY <1>1, <1>3 DEF WriteProjection, TypeOK, Appending
<1>4. CASE Release(p)
  <2>1. job[p].task.lease.token \in Nat
    BY <1>1 DEF Task, Lease
  <2>. QED BY <1>1, <1>4, <2>1 DEF Release, TypeOK, Appending
<1>5. CASE ValidationFails(p)
  <2>. DEFINE event == FailedEvent(job[p].event.actor, job[p].event)
  <2>1. event \in Event
    BY <1>1, FailedEventType DEF Event
  <2>2. /\ \/ pc' = [pc EXCEPT ![p] = "record"] /\ job' = [job EXCEPT ![p].event = event]
           \/ pc' = [pc EXCEPT ![p] = "release"] /\ job' = job
        /\ UNCHANGED <<clock, lockMtime, ledger, projection, secrets, delivered, crashes, timeouts,
                       condemned, robbed, torn>>
    BY <1>5 DEF ValidationFails
  <2>. HIDE DEF event
  <2>3. [job[p] EXCEPT !.event = event] \in Job
    BY <1>1, <2>1 DEF Job
  <2>4. job' \in [Procs -> Job \union {NoJob}] /\ \A q \in Procs : q # p => job'[q] = job[q]
    BY <2>2, <2>3 DEF TypeOK
  <2>5. job'[p] \in Job
    BY <1>1, <2>2, <2>3 DEF TypeOK
  <2>. QED BY <2>2, <2>4, <2>5 DEF TypeOK, Appending
<1>6. ASSUME NEW target \in {"verified", "rejected"}, Validated(p, target) PROVE TypeOK'
  <2>. DEFINE new == [Moved(job[p].task, target) EXCEPT !.run = job[p].event.run]
              action == IF target = "verified" THEN "task.verified" ELSE "task.rejected"
              event == [MkEvent(action, job[p].event.actor, job[p].event.id, new)
                          EXCEPT !.run = job[p].event.run]
  <2>1. job[p].event.run \in Nat /\ job[p].event.actor \in Agents /\ job[p].event.id \in Tasks
    BY <1>1 DEF Event
  <2>2. Moved(job[p].task, target) \in Task
    BY <1>1, MovedType DEF TASK_STATES
  <2>3. new \in Task
    BY <2>1, <2>2, TaskUpdateType, NoTaskType
  <2>4. action \in Actions
    BY DEF Actions, TerminalActions
  <2>5. job' = [job EXCEPT ![p].event = event, ![p].task = new]
    BY <1>6 DEF Validated
  <2>. HIDE DEF new, action
  <2>6. MkEvent(action, job[p].event.actor, job[p].event.id, new) \in Event
    BY <2>1, <2>3, <2>4, MkEventType
  <2>7. event \in Event
    BY <2>1, <2>6, EventNumbersType
  <2>. HIDE DEF event
  <2>8. [job[p] EXCEPT !.event = event, !.task = new] \in Job
    BY <1>1, <2>3, <2>7 DEF Job
  <2>9. job'[p] = [job[p] EXCEPT !.event = event, !.task = new]
        /\ \A q \in Procs : q # p => job'[q] = job[q]
    BY <2>5 DEF TypeOK
  <2>10. job' \in [Procs -> Job \union {NoJob}]
    BY <2>5, <2>8 DEF TypeOK
  <2>. QED BY <1>6, <2>8, <2>9, <2>10 DEF Validated, TypeOK, Appending
<1>. QED BY <1>2, <1>3, <1>4, <1>5, <1>6 DEF Progress, Validation

\* The types of all variables are preserved by every operation, crash and tick.
THEOREM TypeCorrect == Spec => []TypeOK
<1>1. Init => TypeOK
  <2>. SUFFICES ASSUME Init PROVE TypeOK
    OBVIOUS
  <2>1. robbed \in BOOLEAN /\ torn \in BOOLEAN
    BY Zenon DEF Init
  <2>. QED BY <2>1, NoTaskType, ConstantsAssumption DEF Init, TypeOK, Locks, Appending
<1>2. TypeOK /\ [Next]_vars => TypeOK'
  <2>. SUFFICES ASSUME TypeOK, [Next]_vars PROVE TypeOK'
    OBVIOUS
  <2>1. CASE Tick
    BY <2>1 DEF Tick, TypeOK
  <2>2. ASSUME NEW p \in Procs, NEW l \in Locks, FindStale(p, l) PROVE TypeOK'
    BY <2>2 DEF FindStale, TypeOK
  <2>6. ASSUME NEW p \in Procs, NEW l \in Locks, UnlinkStale(p, l) PROVE TypeOK'
    <3>1. robbed' \in BOOLEAN
      BY <2>6 DEF UnlinkStale
    <3>. QED BY <2>6, <3>1 DEF UnlinkStale, TypeOK
  <2>3. ASSUME NEW p \in Procs, Crash(p) PROVE TypeOK'
    <3>1. torn' \in BOOLEAN
      BY <2>3 DEF Crash
    <3>. QED BY <2>3, <3>1 DEF Crash, TypeOK
  <2>4. CASE UNCHANGED vars
    BY <2>4 DEF vars, TypeOK
  <2>5. ASSUME NEW p \in Procs, AppendFails(p) PROVE TypeOK'
    BY <2>5 DEF AppendFails, Appending, TypeOK
  <2>. QED BY <2>1, <2>2, <2>3, <2>4, <2>5, <2>6, CallType, ProgressType DEF Next
<1>. QED BY <1>1, <1>2, PTL DEF Spec

-----------------------------------------------------------------------------
(* What a call leaves in memory, in one formula for all operations *)

\* States in which a task satisfies the prerequisites that name it.
Done == {"verified", "archived"}

RunActions == TerminalActions \union {"verification.started"}

CallEffect(p) ==
    LET new == job'[p]
        e == new.event
    IN /\ pc[p] = "idle" /\ pc'[p] \in Appending \union {"write"}
       /\ \A q \in Procs : q # p => pc'[q] = pc[q] /\ job'[q] = job[q]
       /\ lockMtime[new.lock] = 0
       /\ lockMtime' = [lockMtime EXCEPT ![new.lock] = clock]
       /\ new.since = clock
       /\ UNCHANGED <<clock, ledger, projection, delivered, crashes, timeouts, condemned, robbed, torn>>
       /\ secrets' \in {secrets, secrets + 1}
       /\ \/ /\ e.action \notin RunActions
             /\ pc'[p] \in {"append", "record"}
             /\ e.action = "task.claimed" => PrerequisitesSatisfied(e.id)
             /\ new.task.state \notin Done /\ e.task.state \notin Done
          \/ /\ e.action = "verification.started" /\ pc'[p] = "begin"
             /\ e.run = secrets + 1 /\ secrets' = secrets + 1
             /\ e.id = new.lock /\ new.id = new.lock /\ e.attempt = new.task.attempt
             /\ new.task.state = "submitted" /\ e.task = NoTask
          \/ /\ e.action = "verification.failed" /\ pc'[p] \in {"append", "write"}
             /\ \E s \in Starts(e.run) : /\ ledger[s].id = e.id /\ ledger[s].attempt = e.attempt
                                         /\ ledger[s].task = e.task
             /\ e.id = new.lock /\ new.id = new.lock
             /\ e.run \in 1..secrets
             /\ pc'[p] = "append" => Terminals(e.run) = {}
             /\ \E i \in 1..Len(ledger) : ledger[i].id = new.id /\ ledger[i].task = new.task

\* What Enter leaves in memory, and what it leaves alone.
Entered(p, t, lock, at, event, task) ==
    /\ job'[p].event = event /\ job'[p].task = task /\ job'[p].id = t
    /\ job'[p].lock = lock /\ job'[p].since = clock
    /\ pc[p] = "idle" /\ pc'[p] = at
    /\ \A q \in Procs : q # p => pc'[q] = pc[q] /\ job'[q] = job[q]
    /\ lockMtime[lock] = 0 /\ lockMtime' = [lockMtime EXCEPT ![lock] = clock]
    /\ UNCHANGED <<clock, ledger, projection, delivered, crashes, timeouts, condemned, robbed, torn>>

LEMMA EnterFrame ==
    ASSUME TypeOK, NEW p \in Procs, NEW op, NEW t, NEW lock, NEW at, NEW event, NEW task,
           Enter(p, op, t, lock, at, event, task)
    PROVE  Entered(p, t, lock, at, event, task)
<1>1. job'[p] = [op |-> op, id |-> t, lock |-> lock, since |-> clock,
                 event |-> event, task |-> task]
  BY DEF Enter, TypeOK
<1>2. \A q \in Procs : q # p => pc'[q] = pc[q] /\ job'[q] = job[q]
  BY DEF Enter, TypeOK
<1>3. pc'[p] = at
  BY DEF Enter, TypeOK
<1>. QED BY <1>1, <1>2, <1>3 DEF Enter, Entered

LEMMA MovedFields ==
    ASSUME NEW task \in Task, NEW target \in TASK_STATES
    PROVE  /\ Moved(task, target).state = target
           /\ Moved(task, target).attempt = task.attempt
<1>1. task.revision + 1 \in Nat
  BY DEF Task
<1>2. \A n \in Nat : /\ [task EXCEPT !.state = target, !.revision = n].state = target
                     /\ [task EXCEPT !.state = target, !.revision = n].attempt = task.attempt
  BY DEF Task
<1>. QED BY <1>1, <1>2 DEF Moved

\* The fields of an event built by MkEvent, also after a token is put in.
LEMMA MkEventFields ==
    ASSUME NEW action \in Actions, NEW actor \in Agents, NEW t \in Tasks, NEW task \in Task,
           NEW token \in Nat
    PROVE  LET e == MkEvent(action, actor, t, task)
               f == [e EXCEPT !.token = token]
           IN /\ e.action = action /\ e.id = t /\ e.task = task
              /\ f.action = action /\ f.id = t /\ f.task = task
<1>. DEFINE e == MkEvent(action, actor, t, task)
<1>1. e.action = action /\ e.id = t /\ e.task = task
  BY DEF MkEvent
<1>2. e \in Event
  BY MkEventType
<1>. HIDE DEF e
<1>3. [e EXCEPT !.token = token].action = e.action
      /\ [e EXCEPT !.token = token].id = e.id
      /\ [e EXCEPT !.token = token].task = e.task
  BY <1>2 DEF Event
<1>4. e = MkEvent(action, actor, t, task)
  BY DEF e
<1>. QED BY <1>1, <1>3, <1>4

LEMMA PlainCall ==
    ASSUME TypeOK, NEW p \in Procs, NEW op, NEW t, NEW lock, NEW at \in {"append", "record"},
           NEW event, NEW task, Enter(p, op, t, lock, at, event, task),
           event.action \notin RunActions, task.state \notin Done, event.task.state \notin Done,
           event.action = "task.claimed" => PrerequisitesSatisfied(event.id),
           secrets' \in {secrets, secrets + 1}
    PROVE  CallEffect(p)
<1>1. Entered(p, t, lock, at, event, task)
  BY EnterFrame
<1>. QED BY <1>1 DEF Entered, CallEffect, Appending

\* The same for the operations that append and write one record.
LEMMA PlainUpdate ==
    ASSUME TypeOK, NEW p \in Procs, NEW op, NEW t \in Tasks, NEW lock,
           NEW event, NEW action \in Actions, NEW task \in Task,
           event.action = action, event.id = t, event.task = task,
           EnterUpdate(p, op, t, lock, event),
           action \notin RunActions, task.state \notin Done,
           action = "task.claimed" => PrerequisitesSatisfied(t),
           secrets' \in {secrets, secrets + 1}
    PROVE  CallEffect(p)
<1>1. Enter(p, op, t, lock, "append", event, task)
  BY DEF EnterUpdate
<1>. QED BY <1>1, PlainCall

LEMMA CallEffects ==
    ASSUME TypeOK, NEW p \in Procs, Call(p)
    PROVE  CallEffect(p)
<1>1. PICK t \in Tasks : \/ claim(p, t)
                         \/ WorkerCall(p, t)
                         \/ \E v \in Verifiers : verify(p, t, v)
                         \/ OrchestratorCall(p, t)
  BY DEF Call
<1>. USE ConstantsAssumption DEF Actions, RunActions, TerminalActions, Done
<1>2. /\ projection[t] \in Task /\ Owner[t] \in Agents /\ secrets \in Nat /\ clock \in Nat
      /\ secrets + 1 \in Nat /\ clock + LeaseSeconds \in Nat
  BY DEF TypeOK
<1>3. CASE claim(p, t)
  <2>. DEFINE lease == [holder |-> Owner[t], token |-> secrets + 1,
                        expires |-> clock + LeaseSeconds]
              new == [Moved(projection[t], "claimed") EXCEPT !.attempt = @ + 1, !.lease = lease]
              event == [MkEvent("task.claimed", Owner[t], t, new) EXCEPT !.token = secrets + 1]
  <2>1. lease \in Lease
    BY <1>2 DEF Lease
  <2>2. Moved(projection[t], "claimed") \in Task
        /\ Moved(projection[t], "claimed").state = "claimed"
    BY <1>2, MovedType, MovedFields DEF TASK_STATES
  <2>3. new \in Task
    BY <2>1, <2>2, TaskUpdateType
  <2>4. new.state = "claimed"
    BY <2>2 DEF Task
  <2>5. EnterUpdate(p, "claim", t, t, event) /\ secrets' = secrets + 1
        /\ PrerequisitesSatisfied(t)
    BY <1>3 DEF claim
  <2>. HIDE DEF new
  <2>6. event.action = "task.claimed" /\ event.id = t /\ event.task = new
    BY <1>2, <2>3, MkEventFields
  <2>. HIDE DEF event
  <2>. QED BY <2>3, <2>4, <2>5, <2>6, PlainUpdate
<1>4. CASE WorkerCall(p, t)
  <2>1. PICK token \in delivered : \/ start(p, t, token) \/ heartbeat(p, t, token)
                                   \/ block(p, t, token) \/ submit(p, t, token)
    BY <1>4 DEF WorkerCall
  <2>2. ASSUME NEW op, NEW action, NEW new \in Task,
               EnterUpdate(p, op, t, t, WorkerEvent(action, t, token, new)),
               UNCHANGED secrets,
               action \in {"task.started", "task.heartbeat", "task.blocked", "task.submitted"},
               new.state \notin Done
        PROVE  CallEffect(p)
    <3>. DEFINE event == WorkerEvent(action, t, token, new)
    <3>1. event.action = action /\ event.id = t /\ event.task = new
      <4>1. token \in Nat
        BY DEF TypeOK
      <4>. QED BY <1>2, <2>2, <4>1, MkEventFields DEF WorkerEvent
    <3>. HIDE DEF event
    <3>2. EnterUpdate(p, op, t, t, event) /\ secrets' = secrets
      BY <2>2 DEF event
    <3>. QED BY <2>2, <3>1, <3>2, PlainUpdate
  <2>3. CASE start(p, t, token)
    <3>. DEFINE new == Moved(projection[t], "running")
    <3>1. new \in Task /\ new.state = "running"
      BY <1>2, MovedType, MovedFields DEF TASK_STATES
    <3>2. EnterUpdate(p, "start", t, t, WorkerEvent("task.started", t, token, new))
          /\ UNCHANGED secrets
      BY <2>3 DEF start
    <3>. HIDE DEF new
    <3>. QED BY <2>2, <3>1, <3>2
  <2>4. CASE heartbeat(p, t, token)
    <3>. DEFINE new == [projection[t] EXCEPT !.lease.expires = clock + LeaseSeconds]
    <3>1. new \in Task
      BY <1>2, TaskUpdateType, NoTaskType
    <3>0. new.state \in {"claimed", "running"}
      BY <1>2, <2>4 DEF heartbeat, Task
    <3>2. EnterUpdate(p, "heartbeat", t, t, WorkerEvent("task.heartbeat", t, token, new))
          /\ UNCHANGED secrets
      BY <2>4 DEF heartbeat
    <3>. HIDE DEF new
    <3>. QED BY <2>2, <3>0, <3>1, <3>2
  <2>5. CASE block(p, t, token)
    <3>. DEFINE new == [Moved(projection[t], "blocked") EXCEPT !.lease = NoLease]
    <3>1. new \in Task /\ new.state = "blocked"
      <4>1. Moved(projection[t], "blocked") \in Task
            /\ Moved(projection[t], "blocked").state = "blocked"
        BY <1>2, MovedType, MovedFields DEF TASK_STATES
      <4>2. new \in Task
        BY <4>1, TaskUpdateType, NoTaskType
      <4>3. new.state = "blocked"
        BY <4>1 DEF Task
      <4>. QED BY <4>2, <4>3
    <3>2. EnterUpdate(p, "block", t, t, WorkerEvent("task.blocked", t, token, new))
          /\ UNCHANGED secrets
      BY <2>5 DEF block
    <3>. HIDE DEF new
    <3>. QED BY <2>2, <3>1, <3>2
  <2>6. CASE submit(p, t, token)
    <3>. DEFINE new == [Moved(projection[t], "submitted") EXCEPT !.lease = NoLease]
    <3>1. new \in Task /\ new.state = "submitted"
      <4>1. Moved(projection[t], "submitted") \in Task
            /\ Moved(projection[t], "submitted").state = "submitted"
        BY <1>2, MovedType, MovedFields DEF TASK_STATES
      <4>2. new \in Task
        BY <4>1, TaskUpdateType, NoTaskType
      <4>3. new.state = "submitted"
        BY <4>1 DEF Task
      <4>. QED BY <4>2, <4>3
    <3>2. EnterUpdate(p, "submit", t, t, WorkerEvent("task.submitted", t, token, new))
          /\ UNCHANGED secrets
      BY <2>6 DEF submit
    <3>. HIDE DEF new
    <3>. QED BY <2>2, <3>1, <3>2
  <2>. QED BY <2>1, <2>3, <2>4, <2>5, <2>6
<1>5. ASSUME NEW v \in Verifiers, verify(p, t, v) PROVE CallEffect(p)
  <2>. DEFINE event == [MkEvent("verification.started", v, t, NoTask)
                          EXCEPT !.run = secrets + 1, !.attempt = projection[t].attempt]
  <2>1. /\ event.action = "verification.started" /\ event.id = t
        /\ event.run = secrets + 1 /\ event.attempt = projection[t].attempt
        /\ event.task = NoTask
    <3>1. MkEvent("verification.started", v, t, NoTask) \in Event
      BY NoTaskType, MkEventType
    <3>2. /\ MkEvent("verification.started", v, t, NoTask).action = "verification.started"
          /\ MkEvent("verification.started", v, t, NoTask).id = t
          /\ MkEvent("verification.started", v, t, NoTask).task = NoTask
      BY DEF MkEvent
    <3>3. projection[t].attempt \in Nat
      BY <1>2 DEF Task
    <3>. QED BY <1>2, <3>1, <3>2, <3>3 DEF Event
  <2>2. /\ Enter(p, "verify", t, t, "begin", event, projection[t])
        /\ secrets' = secrets + 1 /\ projection[t].state = "submitted"
    BY <1>5 DEF verify
  <2>. HIDE DEF event
  <2>3. Entered(p, t, t, "begin", event, projection[t])
    BY <2>2, EnterFrame
  <2>. QED BY <2>1, <2>2, <2>3 DEF Entered, CallEffect, Appending
<1>6. CASE OrchestratorCall(p, t)
  <2>1. CASE add_task(p, t)
    <3>. DEFINE record == [NoTask EXCEPT !.state = "pending", !.revision = 1]
    <3>1. record \in Task
      BY NoTaskType DEF Task, TASK_STATES
    <3>0. record.state = "pending"
      BY NoTaskType DEF Task
    <3>2. EnterUpdate(p, "add_task", t, CreationLock,
                      MkEvent("task.created", Orchestrator, t, record)) /\ UNCHANGED secrets
      BY <2>1 DEF add_task
    <3>. DEFINE event == MkEvent("task.created", Orchestrator, t, record)
    <3>. HIDE DEF record
    <3>3. event.action = "task.created" /\ event.id = t /\ event.task = record
      BY <3>1 DEF MkEvent
    <3>. HIDE DEF event
    <3>4. EnterUpdate(p, "add_task", t, CreationLock, event) /\ secrets' = secrets
      BY <3>2 DEF event
    <3>. QED BY <3>0, <3>1, <3>3, <3>4, PlainUpdate
  <2>2. ASSUME NEW force \in BOOLEAN, recover_lease(p, t, force) PROVE CallEffect(p)
    <3>. DEFINE requeued == [Moved(Moved(projection[t], "blocked"), "pending")
                               EXCEPT !.lease = NoLease]
                action == IF force THEN "task.lease_force_recovered"
                                   ELSE "task.lease_recovered"
                op == IF force THEN "recover_lease.force" ELSE "recover_lease"
    <3>1. requeued \in Task /\ requeued.state = "pending"
      <4>. DEFINE b == Moved(projection[t], "blocked")
                  c == Moved(b, "pending")
      <4>1. b \in Task
        BY <1>2, MovedType DEF TASK_STATES
      <4>. HIDE DEF b
      <4>2. c \in Task /\ c.state = "pending"
        BY <4>1, MovedType, MovedFields DEF TASK_STATES
      <4>. HIDE DEF c
      <4>3. [c EXCEPT !.lease = NoLease] \in Task
        BY <4>2, TaskUpdateType, NoTaskType
      <4>4. [c EXCEPT !.lease = NoLease].state = "pending"
        BY <4>2 DEF Task
      <4>. QED BY <4>3, <4>4 DEF b, c
    <3>2. action \in {"task.lease_force_recovered", "task.lease_recovered"}
      OBVIOUS
    <3>3. EnterUpdate(p, op, t, t, MkEvent(action, Orchestrator, t, requeued))
          /\ UNCHANGED secrets
      BY <2>2 DEF recover_lease
    <3>. DEFINE event == MkEvent(action, Orchestrator, t, requeued)
    <3>. HIDE DEF action, op, requeued
    <3>4. event.action = action /\ event.id = t /\ event.task = requeued
      BY DEF MkEvent
    <3>. HIDE DEF event
    <3>5. EnterUpdate(p, op, t, t, event) /\ secrets' = secrets
      BY <3>3 DEF event
    <3>. QED BY <3>1, <3>2, <3>4, <3>5, PlainUpdate
  <2>3. ASSUME NEW r \in 1..secrets, reconcile_verification(p, t, r) PROVE CallEffect(p)
    <3>1. PICK s \in Starts(r), i \in 1..Len(ledger) :
            /\ ledger[s].id = t /\ IsLatest(i, t)
            /\ Enter(p, "reconcile", t, t, ReconcileStep(r),
                     FailedEvent(Orchestrator, ledger[s]), ledger[i].task)
      BY <2>3 DEF reconcile_verification
    <3>. DEFINE event == FailedEvent(Orchestrator, ledger[s])
    <3>2. s \in 1..Len(ledger) /\ ledger[s] \in Event /\ ledger[s].run = r
      BY DEF Starts, TypeOK
    <3>3. /\ event.action = "verification.failed" /\ event.id = t /\ event.run = r
          /\ event.attempt = ledger[s].attempt /\ event.task = ledger[s].task
      BY <3>1, <3>2 DEF FailedEvent, Event
    <3>4. Entered(p, t, t, ReconcileStep(r), event, ledger[i].task)
      BY <3>1, EnterFrame
    <3>5. secrets' = secrets
      BY <2>3 DEF reconcile_verification
    <3>6. ledger[i].id = t
      BY <3>1 DEF IsLatest, IsSnapshot
    <3>. HIDE DEF event
    <3>7. pc'[p] \in {"append", "write"} /\ (pc'[p] = "append" => Terminals(r) = {})
      BY <3>4 DEF Entered, ReconcileStep
    <3>8. \E k \in 1..Len(ledger) : ledger[k].id = job'[p].id /\ ledger[k].task = job'[p].task
      BY <3>4, <3>6 DEF Entered
    <3>9. \E k \in Starts(event.run) : /\ ledger[k].id = event.id
                                       /\ ledger[k].attempt = event.attempt
                                       /\ ledger[k].task = event.task
      BY <3>1, <3>3
    <3>. QED BY <3>3, <3>4, <3>5, <3>7, <3>8, <3>9 DEF Entered, CallEffect, Appending
  <2>4. ASSUME NEW k \in 1..Len(ledger), NEW status \in Statuses, NEW reason \in Reasons,
               restate_verification(p, t, k, status, reason)
        PROVE  CallEffect(p)
    <3>. DEFINE note == [target |-> k, status |-> status, reason |-> reason]
                event == [MkEvent("verification.restatement", Orchestrator, t, NoTask)
                            EXCEPT !.note = note, !.attempt = ledger[k].attempt]
    <3>1. event.action = "verification.restatement" /\ NoTask.state = "absent"
          /\ event.task = NoTask
      BY DEF MkEvent, NoTask
    <3>2. Enter(p, "restate", t, t, "record", event, NoTask) /\ secrets' = secrets
      BY <2>4 DEF restate_verification
    <3>. HIDE DEF event
    <3>. QED BY <3>1, <3>2, PlainCall
  <2>. QED BY <1>6, <2>1, <2>2, <2>3, <2>4 DEF OrchestratorCall
<1>. QED BY <1>1, <1>3, <1>4, <1>5, <1>6

\* The steps between the decision and the release keep the lock of the process,
\* and touch no other process.
LEMMA InsideFrame ==
    ASSUME TypeOK, NEW p \in Procs, AppendStep(p) \/ WriteProjection(p) \/ Validation(p)
    PROVE  /\ UNCHANGED <<clock, lockMtime, secrets, delivered, crashes, timeouts, condemned, robbed, torn>>
           /\ pc[p] # "idle" /\ pc'[p] # "idle"
           /\ job'[p].lock = job[p].lock /\ job'[p].since = job[p].since
           /\ job'[p].id = job[p].id
           /\ \A q \in Procs : q # p => pc'[q] = pc[q] /\ job'[q] = job[q]
<1>1. CASE AppendStep(p)
  BY <1>1 DEF AppendStep, Appending, TypeOK
<1>2. CASE WriteProjection(p)
  BY <1>2 DEF WriteProjection, TypeOK
<1>3. CASE ValidationFails(p)
  <2>1. job[p] \in Job
    BY <1>3 DEF ValidationFails, TypeOK
  <2>2. \A e : /\ [job[p] EXCEPT !.event = e].lock = job[p].lock
               /\ [job[p] EXCEPT !.event = e].since = job[p].since
               /\ [job[p] EXCEPT !.event = e].id = job[p].id
    BY <2>1 DEF Job
  <2>3. \/ job'[p] = job[p]
        \/ \E e : job'[p] = [job[p] EXCEPT !.event = e]
    BY <1>3 DEF ValidationFails, TypeOK
  <2>. QED BY <1>3, <2>2, <2>3 DEF ValidationFails, TypeOK
<1>4. ASSUME NEW target \in {"verified", "rejected"}, Validated(p, target)
      PROVE  /\ UNCHANGED <<clock, lockMtime, secrets, delivered, crashes, timeouts, condemned, robbed, torn>>
             /\ pc[p] # "idle" /\ pc'[p] # "idle"
             /\ job'[p].lock = job[p].lock /\ job'[p].since = job[p].since
             /\ job'[p].id = job[p].id
             /\ \A q \in Procs : q # p => pc'[q] = pc[q] /\ job'[q] = job[q]
  <2>1. job[p] \in Job
    BY <1>4 DEF Validated, TypeOK
  <2>2. \A e, u : /\ [job[p] EXCEPT !.event = e, !.task = u].lock = job[p].lock
                  /\ [job[p] EXCEPT !.event = e, !.task = u].since = job[p].since
                  /\ [job[p] EXCEPT !.event = e, !.task = u].id = job[p].id
    BY <2>1 DEF Job
  <2>3. \E e, u : job'[p] = [job[p] EXCEPT !.event = e, !.task = u]
    BY <1>4 DEF Validated, TypeOK
  <2>. QED BY <1>4, <2>2, <2>3 DEF Validated, TypeOK
<1>. QED BY <1>1, <1>2, <1>3, <1>4 DEF Validation

-----------------------------------------------------------------------------
(* Mutual exclusion, for as long as no waiter has unlinked the lock file   *)
(* of a live process: the file each of them created is still there.        *)

TakesOver == \E q \in Procs, m \in Locks : FindStale(q, m) \/ UnlinkStale(q, m)

\* Two live processes do not work under the same lock file.
TaskLockExclusive ==
    \A p, q \in Procs : pc[p] # "idle" /\ pc[q] # "idle" /\ job[p].lock = job[q].lock => p = q

LockInv ==
    ~robbed => /\ TaskLockExclusive
               /\ \A p \in Procs : pc[p] # "idle" => lockMtime[job[p].lock] # 0

\* What has happened is not forgotten.
LEMMA HistoriesStay ==
    ASSUME TypeOK, [Next]_vars
    PROVE  (robbed => robbed') /\ (torn => torn')
<1>1. ASSUME NEW p \in Procs, Call(p) PROVE UNCHANGED <<robbed, torn>>
  BY <1>1, CallEffects DEF CallEffect
<1>2. ASSUME NEW p \in Procs, AppendStep(p) \/ WriteProjection(p) \/ Validation(p)
      PROVE  UNCHANGED <<robbed, torn>>
  BY <1>2, InsideFrame
<1>3. ASSUME NEW p \in Procs, Release(p) \/ AppendFails(p) PROVE UNCHANGED <<robbed, torn>>
  BY <1>3 DEF Release, AppendFails
<1>6. ASSUME NEW p \in Procs, Crash(p) PROVE UNCHANGED robbed /\ (torn => torn')
  <2>1. torn' = (torn \/ pc[p] = "write") /\ robbed' = robbed
    BY <1>6 DEF Crash
  <2>. QED BY <2>1, Zenon
<1>7. ASSUME NEW p \in Procs, NEW l \in Locks, FindStale(p, l) PROVE UNCHANGED <<robbed, torn>>
  BY <1>7 DEF FindStale
<1>8. ASSUME NEW p \in Procs, NEW l \in Locks, UnlinkStale(p, l)
      PROVE  (robbed => robbed') /\ UNCHANGED torn
  <2>1. robbed' = (robbed \/ Held(l)) /\ torn' = torn
    BY <1>8 DEF UnlinkStale
  <2>. QED BY <2>1, Zenon
<1>5. CASE Tick \/ UNCHANGED vars
  BY <1>5 DEF Tick, vars
<1>. QED BY <1>1, <1>2, <1>3, <1>5, <1>6, <1>7, <1>8 DEF Next, Progress, TakesOver

LEMMA LockStep ==
    ASSUME TypeOK, TypeOK', LockInv, [Next]_vars
    PROVE  LockInv'
<1>. SUFFICES ASSUME ~robbed'
              PROVE  /\ TaskLockExclusive'
                     /\ \A q \in Procs : pc'[q] # "idle" => lockMtime'[job'[q].lock] # 0
  BY DEF LockInv
<1>. DEFINE Locked == \A q \in Procs : pc'[q] # "idle" => lockMtime'[job'[q].lock] # 0
<1>0. ~robbed /\ TaskLockExclusive
  BY HistoriesStay DEF LockInv
<1>00. /\ clock # 0 /\ lockMtime \in [Locks -> Nat]
       /\ \A q \in Procs : pc[q] # "idle" => job[q].lock \in Locks /\ lockMtime[job[q].lock] # 0
  BY <1>0 DEF LockInv, TypeOK, Job
<1>1. ASSUME NEW p \in Procs, Call(p) PROVE TaskLockExclusive' /\ Locked
  <2>1. CallEffect(p)
    BY <1>1, CallEffects
  <2>2. job'[p] \in Job
    BY <2>1 DEF CallEffect, TypeOK, Appending
  <2>3. job'[p].lock \in Locks /\ lockMtime[job'[p].lock] = 0
    BY <2>1, <2>2 DEF CallEffect, Job
  <2>4. \A q \in Procs : pc[q] # "idle" => job[q].lock # job'[p].lock
    BY <1>00, <2>3
  <2>5. /\ lockMtime' = [lockMtime EXCEPT ![job'[p].lock] = clock]
        /\ pc[p] = "idle"
        /\ \A q \in Procs : q # p => pc'[q] = pc[q] /\ job'[q] = job[q]
    BY <2>1 DEF CallEffect
  <2>6. TaskLockExclusive'
    BY <1>0, <2>4, <2>5 DEF TaskLockExclusive
  <2>7. lockMtime'[job'[p].lock] # 0
    BY <1>00, <2>3, <2>5
  <2>8. ASSUME NEW q \in Procs, q # p, pc'[q] # "idle" PROVE lockMtime'[job'[q].lock] # 0
    BY <1>00, <2>3, <2>4, <2>5, <2>8
  <2>. QED BY <2>6, <2>7, <2>8
<1>2. ASSUME NEW p \in Procs, AppendStep(p) \/ WriteProjection(p) \/ Validation(p)
      PROVE  TaskLockExclusive' /\ Locked
  <2>1. /\ UNCHANGED lockMtime
        /\ \A q \in Procs : (pc'[q] = "idle") = (pc[q] = "idle")
        /\ \A q \in Procs : job'[q].lock = job[q].lock
    BY <1>2, InsideFrame
  <2>. QED BY <1>0, <1>00, <2>1 DEF TaskLockExclusive
<1>3. ASSUME NEW p \in Procs, Release(p) PROVE TaskLockExclusive' /\ Locked
  <2>1. \A q \in Procs : pc'[q] # "idle" => q # p /\ pc[q] # "idle" /\ job'[q] = job[q]
    BY <1>3 DEF Release, TypeOK
  <2>2. \A q \in Procs : pc'[q] # "idle" => lockMtime'[job[q].lock] = lockMtime[job[q].lock]
    BY <1>0, <1>00, <1>3, <2>1 DEF Release, TaskLockExclusive
  <2>. QED BY <1>0, <1>00, <2>1, <2>2 DEF TaskLockExclusive
<1>4. ASSUME NEW p \in Procs, Crash(p) PROVE TaskLockExclusive' /\ Locked
  <2>1. \A q \in Procs : pc'[q] # "idle" => q # p /\ pc[q] # "idle" /\ job'[q] = job[q]
    BY <1>4 DEF Crash, TypeOK
  <2>. QED BY <1>0, <1>00, <1>4, <2>1 DEF Crash, TaskLockExclusive
<1>5. ASSUME NEW p \in Procs, NEW l \in Locks, UnlinkStale(p, l)
      PROVE  TaskLockExclusive' /\ Locked
  <2>1. \A q \in Procs : pc[q] # "idle" => job[q].lock # l
    BY <1>5 DEF UnlinkStale, Held
  <2>. QED BY <1>0, <1>00, <1>5, <2>1 DEF UnlinkStale, TaskLockExclusive
<1>6. CASE Tick \/ (\E p \in Procs, l \in Locks : FindStale(p, l)) \/ UNCHANGED vars
  <2>1. UNCHANGED <<lockMtime, pc, job>>
    BY <1>6 DEF Tick, FindStale, vars
  <2>. QED BY <1>0, <1>00, <2>1 DEF TaskLockExclusive
<1>8. ASSUME NEW p \in Procs, AppendFails(p) PROVE TaskLockExclusive' /\ Locked
  <2>1. /\ UNCHANGED <<lockMtime, job>>
        /\ \A q \in Procs : (pc'[q] = "idle") = (pc[q] = "idle")
    BY <1>8 DEF AppendFails, Appending, TypeOK
  <2>. QED BY <1>0, <1>00, <2>1 DEF TaskLockExclusive
<1>. QED BY <1>1, <1>2, <1>3, <1>4, <1>5, <1>6, <1>8 DEF Next, Progress, TakesOver

LEMMA LocksHeld == Spec => []LockInv
<1>1. Init => LockInv
  BY DEF Init, LockInv, TaskLockExclusive
<1>2. TypeOK /\ TypeOK' /\ LockInv /\ [Next]_vars => LockInv'
  BY LockStep
<1>. QED BY <1>1, <1>2, TypeCorrect, PTL DEF Spec

-----------------------------------------------------------------------------
(* One terminal event per run.  A process that may close a run holds the   *)
(* lock of the run's task, so it is the only one that may, until a lock is *)
(* taken from a live process.                                              *)

LEMMA Appended ==
    ASSUME TypeOK, NEW e \in Event, ledger' = Append(ledger, e)
    PROVE  /\ Len(ledger') = Len(ledger) + 1
           /\ \A i \in 1..Len(ledger) : ledger'[i] = ledger[i]
           /\ ledger'[Len(ledger) + 1] = e
BY DEF TypeOK

LEMMA AppendedRuns ==
    ASSUME TypeOK, NEW e \in Event, ledger' = Append(ledger, e), NEW r
    PROVE  /\ Starts(r)' = Starts(r) \union
                IF e.run = r /\ e.action = "verification.started" THEN {Len(ledger) + 1} ELSE {}
           /\ Terminals(r)' = Terminals(r) \union
                IF e.run = r /\ e.action \in TerminalActions THEN {Len(ledger) + 1} ELSE {}
<1>1. Len(ledger) \in Nat
  BY DEF TypeOK
<1>2. 1..(Len(ledger) + 1) = 1..Len(ledger) \union {Len(ledger) + 1}
  BY <1>1
<1>. QED BY <1>1, <1>2, Appended DEF Starts, Terminals

HasStart(e) ==
    \E s \in Starts(e.run) : ledger[s].id = e.id /\ ledger[s].attempt = e.attempt

NotClosed(r) == robbed \/ Terminals(r) = {}

\* What a process in the middle of a run knows about it.
RunOpen(p) ==
    LET e == job[p].event
    IN /\ pc[p] = "begin" =>
            /\ e.action = "verification.started" /\ e.run \in 1..secrets
            /\ Starts(e.run) = {} /\ Terminals(e.run) = {}
            /\ \A q \in Procs : pc[q] = "begin" /\ job[q].event.run = e.run => q = p
       /\ pc[p] = "validate" =>
            /\ e.action = "verification.started"
            /\ HasStart(e) /\ NotClosed(e.run)
       /\ pc[p] \in {"begin", "validate"} =>
            e.id = job[p].lock /\ job[p].id = job[p].lock /\ e.attempt = job[p].task.attempt
       /\ pc[p] \in {"append", "record"} /\ e.action \in RunActions =>
            /\ e.action \in TerminalActions /\ e.id = job[p].lock
            /\ HasStart(e) /\ NotClosed(e.run)

RunInv ==
    /\ \A i \in 1..Len(ledger) : ledger[i].action \in RunActions => ledger[i].run \in 1..secrets
    /\ OneTerminalPerRun
    /\ \A p \in Procs : RunOpen(p)

\* OneTerminalPerRun for one run.
ClosedOnce(r) ==
    /\ \A i, j \in Starts(r) : i = j
    /\ robbed \/ \A i, j \in Terminals(r) : i = j
    /\ \A i \in Terminals(r) : \E s \in Starts(r) :
         s < i /\ ledger[s].id = ledger[i].id /\ ledger[s].attempt = ledger[i].attempt

LEMMA RunCall ==
    ASSUME TypeOK, TypeOK', RunInv, NEW p \in Procs, Call(p)
    PROVE  RunInv'
<1>1. CallEffect(p)
  BY CallEffects
<1>2. /\ UNCHANGED ledger /\ secrets \in Nat /\ secrets' \in {secrets, secrets + 1}
      /\ pc[p] = "idle" /\ UNCHANGED robbed
      /\ \A q \in Procs : q # p => pc'[q] = pc[q] /\ job'[q] = job[q]
  BY <1>1 DEF CallEffect, TypeOK
<1>3. \A r : Starts(r)' = Starts(r) /\ Terminals(r)' = Terminals(r) /\ NotClosed(r)' = NotClosed(r)
  BY <1>2 DEF Starts, Terminals, NotClosed
<1>4. \A e : HasStart(e)' = HasStart(e)
  BY <1>2, <1>3 DEF HasStart
<1>5. \A i \in 1..Len(ledger) : ledger[i].action \in RunActions => ledger[i].run \in 1..secrets
  BY DEF RunInv
<1>6. Starts(secrets + 1) = {} /\ Terminals(secrets + 1) = {}
  BY <1>2, <1>5 DEF Starts, Terminals, RunActions
<1>7. \A i \in 1..Len(ledger') : ledger'[i].action \in RunActions => ledger'[i].run \in 1..secrets'
  BY <1>2, <1>5
<1>8. OneTerminalPerRun'
  <2>1. \A r \in 1..secrets' : r \in 1..secrets \/ r = secrets + 1
    BY <1>2
  <2>. QED BY <1>2, <1>3, <1>6, <2>1 DEF RunInv, OneTerminalPerRun, Undisturbed
<1>9. pc'[p] = "begin" => job'[p].event.run = secrets + 1 /\ secrets' = secrets + 1
  BY <1>1 DEF CallEffect
<1>10. ASSUME NEW q \in Procs, q # p PROVE RunOpen(q)'
  <2>1. RunOpen(q) /\ pc'[q] = pc[q] /\ job'[q] = job[q]
    BY <1>2, <1>10 DEF RunInv
  <2>2. pc[q] = "begin" => job[q].event.run \in 1..secrets
    BY <2>1 DEF RunOpen
  <2>3. pc[q] = "begin" => job[q].event.run \in 1..secrets' /\ job[q].event.run # secrets + 1
    BY <1>2, <2>2
  <2>4. \A z \in Procs : pc[q] = "begin" /\ pc'[z] = "begin"
                         /\ job'[z].event.run = job[q].event.run => z = q
    BY <1>2, <1>9, <2>1, <2>3 DEF RunOpen
  <2>. QED BY <1>3, <1>4, <2>1, <2>3, <2>4 DEF RunOpen
<1>11. RunOpen(p)'
  <2>. DEFINE e == job'[p].event
  <2>1. CASE e.action \notin RunActions /\ pc'[p] \in {"append", "record"}
    BY <2>1 DEF RunOpen
  <2>2. CASE /\ e.action = "verification.started" /\ pc'[p] = "begin"
             /\ e.run = secrets + 1 /\ secrets' = secrets + 1
             /\ e.id = job'[p].lock /\ job'[p].id = job'[p].lock
             /\ e.attempt = job'[p].task.attempt
    <3>1. \A q \in Procs : pc'[q] = "begin" /\ job'[q].event.run = e.run => q = p
      <4>1. ASSUME NEW q \in Procs, q # p, pc[q] = "begin" PROVE job[q].event.run # secrets + 1
        <5>1. job[q].event.run \in 1..secrets
          BY <4>1 DEF RunInv, RunOpen
        <5>. QED BY <1>2, <5>1
      <4>. QED BY <1>2, <2>2, <4>1
    <3>2. Starts(e.run) = {} /\ Terminals(e.run) = {} /\ e.run \in 1..secrets'
      BY <1>2, <1>6, <2>2
    <3>. QED BY <1>3, <2>2, <3>1, <3>2 DEF RunOpen
  <2>3. CASE /\ e.action = "verification.failed" /\ pc'[p] \in {"append", "write"}
             /\ \E k \in Starts(e.run) : ledger[k].id = e.id /\ ledger[k].attempt = e.attempt
             /\ e.id = job'[p].lock
             /\ pc'[p] = "append" => Terminals(e.run) = {}
    <3>1. HasStart(e)
      BY <2>3 DEF HasStart
    <3>. QED BY <1>3, <1>4, <2>3, <3>1 DEF RunOpen, TerminalActions, NotClosed
  <2>. QED BY <1>1, <2>1, <2>2, <2>3 DEF CallEffect
<1>. QED BY <1>7, <1>8, <1>10, <1>11 DEF RunInv

LEMMA RunAppend ==
    ASSUME TypeOK, TypeOK', robbed \/ TaskLockExclusive, RunInv, NEW p \in Procs, AppendStep(p)
    PROVE  RunInv'
<1>. DEFINE e == job[p].event
            n == Len(ledger) + 1
<1>0. UNCHANGED robbed
  BY DEF AppendStep
<1>1. /\ job[p] \in Job /\ e \in Event /\ ledger' = Append(ledger, e)
      /\ n \in Nat /\ n \notin 1..Len(ledger) /\ 1..Len(ledger') = 1..Len(ledger) \union {n}
      /\ UNCHANGED <<secrets, job, robbed>> /\ pc[p] \in Appending
      /\ \A q \in Procs : q # p => pc'[q] = pc[q]
  <2>1. pc[p] \in Appending /\ pc[p] # "idle" /\ UNCHANGED <<secrets, job, robbed>>
        /\ ledger' = Append(ledger, e) /\ \A q \in Procs : q # p => pc'[q] = pc[q]
    BY DEF AppendStep, Appending, TypeOK
  <2>2. job[p] \in Job
    BY <2>1 DEF TypeOK
  <2>3. e \in Event
    BY <2>2 DEF Job
  <2>. QED BY <2>1, <2>2, <2>3, Appended DEF TypeOK
<1>. HIDE DEF n
<1>2. /\ \A i \in 1..Len(ledger) : ledger'[i] = ledger[i]
      /\ ledger'[n] = e
  BY <1>1, Appended DEF n
<1>3. \A r : /\ Starts(r)' = Starts(r) \union
                  IF e.run = r /\ e.action = "verification.started" THEN {n} ELSE {}
             /\ Terminals(r)' = Terminals(r) \union
                  IF e.run = r /\ e.action \in TerminalActions THEN {n} ELSE {}
  BY <1>1, AppendedRuns DEF n
<1>4. \A r : Starts(r) \subseteq 1..Len(ledger) /\ Terminals(r) \subseteq 1..Len(ledger)
  BY DEF Starts, Terminals
<1>5. \A f : HasStart(f) => HasStart(f)'
  BY <1>2, <1>3, <1>4 DEF HasStart
<1>6. RunOpen(p) /\ \A q \in Procs : RunOpen(q)
  BY DEF RunInv
<1>7. CASE e.action \notin RunActions
  <2>1. \A r : Starts(r)' = Starts(r) /\ Terminals(r)' = Terminals(r) /\ NotClosed(r)' = NotClosed(r)
    BY <1>1, <1>3, <1>7 DEF RunActions, NotClosed
  <2>2. \A i \in 1..Len(ledger') :
          ledger'[i].action \in RunActions => ledger'[i].run \in 1..secrets'
    BY <1>1, <1>2, <1>7 DEF RunInv
  <2>3. OneTerminalPerRun'
    <3>1. \A r : \A i \in Starts(r) \union Terminals(r) : ledger'[i] = ledger[i]
      BY <1>2, <1>4
    <3>2. \A r \in 1..secrets : ClosedOnce(r)
      BY DEF RunInv, OneTerminalPerRun, Undisturbed, ClosedOnce
    <3>3. \A r \in 1..secrets : ClosedOnce(r)'
      BY <1>0, <2>1, <3>1, <3>2 DEF ClosedOnce
    <3>. QED BY <1>1, <3>3 DEF ClosedOnce, OneTerminalPerRun, Undisturbed
  <2>4. ASSUME NEW q \in Procs, q # p PROVE RunOpen(q)'
    <3>1. \A z \in Procs : pc'[z] = "begin" => pc[z] = "begin"
      BY DEF AppendStep, Appending, TypeOK
    <3>. QED BY <1>1, <1>5, <1>6, <2>1, <2>4, <3>1 DEF RunOpen
  <2>5. pc[p] # "begin"
    BY <1>6, <1>7 DEF RunOpen, RunActions
  <2>6. RunOpen(p)'
    <3>1. pc'[p] \in {"write", "release"}
      BY <1>1, <2>5 DEF AppendStep, Appending, TypeOK
    <3>. QED BY <3>1 DEF RunOpen
  <2>. QED BY <2>2, <2>3, <2>4, <2>6 DEF RunInv
<1>8. CASE e.action = "verification.started"
  <2>1. pc[p] = "begin" /\ pc'[p] = "validate"
    <3>1. e.action \in RunActions /\ e.action \notin TerminalActions
      BY <1>8 DEF RunActions, TerminalActions
    <3>2. pc[p] = "begin"
      BY <1>1, <1>6, <3>1 DEF RunOpen, Appending
    <3>. QED BY <3>2 DEF AppendStep, TypeOK
  <2>2. /\ e.run \in 1..secrets /\ Starts(e.run) = {} /\ Terminals(e.run) = {}
        /\ \A q \in Procs : pc[q] = "begin" /\ job[q].event.run = e.run => q = p
        /\ e.id = job[p].lock /\ job[p].id = job[p].lock /\ e.attempt = job[p].task.attempt
    BY <1>6, <2>1 DEF RunOpen
  <2>3. /\ \A r : Terminals(r)' = Terminals(r)
        /\ \A r : r # e.run => Starts(r)' = Starts(r)
        /\ \A r : r = e.run => Starts(r)' = {n}
    BY <1>3, <1>8, <2>2 DEF TerminalActions
  <2>4. \A i \in 1..Len(ledger') :
          ledger'[i].action \in RunActions => ledger'[i].run \in 1..secrets'
    BY <1>1, <1>2, <2>2 DEF RunInv
  <2>5. OneTerminalPerRun'
    <3>1. \A r : \A i \in Starts(r) \union Terminals(r) : ledger'[i] = ledger[i]
      BY <1>2, <1>4
    <3>2. \A r \in 1..secrets : ClosedOnce(r)
      BY DEF RunInv, OneTerminalPerRun, Undisturbed, ClosedOnce
    <3>3. \A r \in 1..secrets : ClosedOnce(r)'
      BY <1>0, <2>2, <2>3, <3>1, <3>2 DEF ClosedOnce
    <3>. QED BY <1>1, <3>3 DEF ClosedOnce, OneTerminalPerRun, Undisturbed
  <2>6. ASSUME NEW q \in Procs, q # p PROVE RunOpen(q)'
    <3>1. pc'[q] = pc[q] /\ job'[q] = job[q] /\ RunOpen(q)
      BY <1>1, <1>6, <2>6
    <3>2. \A z \in Procs : pc'[z] = "begin" => pc[z] = "begin" /\ job'[z] = job[z]
      BY <1>1, <2>1
    <3>3. pc[q] = "begin" => job[q].event.run # e.run
      BY <2>2, <2>6
    <3>. QED BY <1>1, <1>5, <2>3, <3>1, <3>2, <3>3 DEF RunOpen, NotClosed
  <2>7. RunOpen(p)'
    <3>1. HasStart(e)'
      <4>1. \A r : r = e.run => n \in Starts(r)'
        BY <2>3
      <4>. QED BY <1>1, <1>2, <4>1 DEF HasStart
    <3>. QED BY <1>1, <1>8, <2>1, <2>2, <2>3, <3>1 DEF RunOpen, NotClosed
  <2>. QED BY <2>4, <2>5, <2>6, <2>7 DEF RunInv
<1>9. CASE e.action \in TerminalActions
  <2>1. pc[p] \in {"append", "record"} /\ pc'[p] \in {"write", "release"}
    <3>1. e.action # "verification.started"
      BY <1>9 DEF TerminalActions
    <3>2. pc[p] # "begin"
      BY <1>6, <3>1 DEF RunOpen
    <3>. QED BY <1>1, <3>2 DEF AppendStep, Appending, TypeOK
  <2>2. e.id = job[p].lock /\ HasStart(e) /\ (robbed \/ Terminals(e.run) = {})
    BY <1>6, <1>9, <2>1 DEF RunOpen, RunActions, NotClosed
  <2>3. /\ \A r : Starts(r)' = Starts(r)
        /\ \A r : r # e.run => Terminals(r)' = Terminals(r)
        /\ \A r : r = e.run => /\ Terminals(r)' = Terminals(r) \union {n}
                               /\ robbed \/ Terminals(r)' = {n}
    BY <1>3, <1>9, <2>2 DEF TerminalActions
  <2>4. PICK s \in Starts(e.run) : ledger[s].id = e.id /\ ledger[s].attempt = e.attempt
    BY <2>2 DEF HasStart
  <2>5. s \in 1..Len(ledger) /\ s < n
    BY <1>1, <1>4 DEF n
  <2>6. e.run \in 1..secrets
    BY <2>4 DEF RunInv, Starts, RunActions
  <2>7. \A i \in 1..Len(ledger') :
          ledger'[i].action \in RunActions => ledger'[i].run \in 1..secrets'
    BY <1>1, <1>2, <2>6 DEF RunInv
  <2>8. OneTerminalPerRun'
    <3>1. \A r : \A i \in Starts(r) \union Terminals(r) : ledger'[i] = ledger[i]
      BY <1>2, <1>4
    <3>2. \A r \in 1..secrets : ClosedOnce(r)
      BY DEF RunInv, OneTerminalPerRun, Undisturbed, ClosedOnce
    <3>3. \A r \in 1..secrets : r # e.run => ClosedOnce(r)'
      BY <1>0, <2>3, <3>1, <3>2 DEF ClosedOnce
    <3>4. ASSUME NEW r \in 1..secrets, r = e.run PROVE ClosedOnce(r)'
      <4>1. /\ Starts(r)' = Starts(r) /\ Terminals(r)' = Terminals(r) \union {n}
            /\ robbed' \/ Terminals(r)' = {n}
        BY <1>1, <2>3, <3>4
      <4>2. ClosedOnce(r) /\ \A i \in Starts(r) \union Terminals(r) : ledger'[i] = ledger[i]
        BY <3>1, <3>2
      <4>3. /\ s \in Starts(r) /\ s < n /\ ledger'[s].id = ledger'[n].id
            /\ ledger'[s].attempt = ledger'[n].attempt
        BY <1>2, <2>4, <2>5, <3>4
      <4>. QED BY <4>1, <4>2, <4>3 DEF ClosedOnce
    <3>. QED BY <1>1, <3>3, <3>4 DEF ClosedOnce, OneTerminalPerRun, Undisturbed
  <2>9. ASSUME NEW q \in Procs, q # p PROVE RunOpen(q)'
    <3>1. pc'[q] = pc[q] /\ job'[q] = job[q] /\ RunOpen(q)
      BY <1>1, <1>6, <2>9
    <3>2. \A z \in Procs : pc'[z] = "begin" => pc[z] = "begin" /\ job'[z] = job[z]
      BY <1>1, <2>1
    <3>3. pc[q] = "begin" => job[q].event.run # e.run
      BY <2>4, <3>1 DEF RunOpen
    <3>4. job[q].event.id = job[q].lock => job[q].event.id # e.id \/ pc[q] = "idle" \/ robbed
      <4>1. pc[p] # "idle"
        BY <2>1
      <4>. QED BY <2>2, <2>9, <4>1 DEF TaskLockExclusive
    <3>5. HasStart(job[q].event) /\ job[q].event.run = e.run => job[q].event.id = e.id
      BY <2>4, <2>6 DEF HasStart, RunInv, OneTerminalPerRun
    <3>6. pc[q] = "validate" \/ (pc[q] \in {"append", "record"} /\ job[q].event.action \in RunActions)
             => job[q].event.run # e.run \/ robbed
      BY <3>1, <3>4, <3>5 DEF RunOpen
    <3>. QED BY <1>1, <1>5, <2>3, <3>1, <3>2, <3>3, <3>6 DEF RunOpen, NotClosed
  <2>10. RunOpen(p)'
    BY <2>1 DEF RunOpen
  <2>. QED BY <2>7, <2>8, <2>9, <2>10 DEF RunInv
<1>. QED BY <1>7, <1>8, <1>9 DEF RunActions

\* What the end of the validations leaves to append.
LEMMA FailureFields ==
    ASSUME TypeOK, NEW p \in Procs, ValidationFails(p)
    PROVE  LET e == job[p].event
               f == job'[p].event
           IN /\ pc'[p] \in {"record", "release"} /\ job'[p].task = job[p].task
              /\ pc'[p] = "record" => /\ f.action = "verification.failed" /\ f.run = e.run
                                      /\ f.id = e.id /\ f.attempt = e.attempt
                                      /\ f.task = e.task
<1>. DEFINE e == job[p].event
            f == FailedEvent(e.actor, e)
<1>1. job[p] \in Job
  BY DEF ValidationFails, TypeOK
<1>2. e \in Event
  BY <1>1 DEF Job
<1>3. \/ pc'[p] = "release" /\ job'[p] = job[p]
      \/ pc'[p] = "record" /\ job'[p] = [job[p] EXCEPT !.event = f]
  BY DEF ValidationFails, TypeOK
<1>4. /\ f.action = "verification.failed" /\ f.run = e.run /\ f.id = e.id
      /\ f.attempt = e.attempt /\ f.task = e.task
  BY <1>2 DEF FailedEvent, Event
<1>. HIDE DEF f
<1>5. [job[p] EXCEPT !.event = f].event = f /\ [job[p] EXCEPT !.event = f].task = job[p].task
  BY <1>1 DEF Job
<1>. QED BY <1>3, <1>4, <1>5

LEMMA VerdictFields ==
    ASSUME TypeOK, NEW p \in Procs, NEW target \in {"verified", "rejected"}, Validated(p, target)
    PROVE  LET e == job[p].event
               f == job'[p].event
           IN /\ pc'[p] = "append" /\ f.run = e.run /\ f.id = e.id
              /\ f.action = IF target = "verified" THEN "task.verified" ELSE "task.rejected"
              /\ f.attempt = job[p].task.attempt
              /\ f.task.state = target /\ job'[p].task.state = target
<1>. DEFINE e == job[p].event
            m == Moved(job[p].task, target)
            new == [m EXCEPT !.run = e.run]
            action == IF target = "verified" THEN "task.verified" ELSE "task.rejected"
            g == MkEvent(action, e.actor, e.id, new)
<1>1. job[p] \in Job
  BY DEF Validated, TypeOK
<1>2. e \in Event /\ job[p].task \in Task
  BY <1>1 DEF Job
<1>3. /\ job'[p] = [job[p] EXCEPT !.event = [g EXCEPT !.run = e.run], !.task = new]
      /\ pc'[p] = "append"
  BY DEF Validated, TypeOK
<1>4. job'[p].event = [g EXCEPT !.run = e.run] /\ job'[p].task = new
  <2>. HIDE DEF g, new
  <2>. QED BY <1>1, <1>3 DEF Job
<1>5. m \in Task /\ m.attempt = job[p].task.attempt /\ m.state = target
  <2>1. target \in TASK_STATES
    BY DEF TASK_STATES
  <2>. QED BY <1>2, <2>1, MovedType, MovedFields
<1>6. e.actor \in Agents /\ e.id \in Tasks /\ e.run \in Nat
  BY <1>2 DEF Event
<1>7. new \in Task /\ new.attempt = m.attempt /\ new.state = m.state
  <2>. HIDE DEF m
  <2>. QED BY <1>5, <1>6 DEF Task
<1>8. action \in Actions
  BY DEF Actions, TerminalActions
<1>9. g \in Event
  <2>. HIDE DEF new, action
  <2>. QED BY <1>6, <1>7, <1>8, MkEventType
<1>10. g.action = action /\ g.id = e.id /\ g.attempt = new.attempt /\ g.task = new
  <2>. HIDE DEF new, action
  <2>. QED BY DEF MkEvent
<1>11. /\ [g EXCEPT !.run = e.run].action = g.action /\ [g EXCEPT !.run = e.run].id = g.id
       /\ [g EXCEPT !.run = e.run].attempt = g.attempt
       /\ [g EXCEPT !.run = e.run].run = e.run
       /\ [g EXCEPT !.run = e.run].task = g.task
  <2>. HIDE DEF g
  <2>. QED BY <1>6, <1>9 DEF Event
<1>12. action = IF target = "verified" THEN "task.verified" ELSE "task.rejected"
  OBVIOUS
<1>. HIDE DEF g, new, action, m
<1>. QED BY <1>3, <1>4, <1>5, <1>7, <1>10, <1>11, <1>12

LEMMA RunValidation ==
    ASSUME TypeOK, TypeOK', RunInv, NEW p \in Procs, Validation(p)
    PROVE  RunInv'
<1>. DEFINE e == job[p].event
            f == job'[p].event
<1>1. /\ UNCHANGED <<ledger, secrets, robbed>> /\ pc[p] = "validate"
      /\ pc'[p] \in {"append", "record", "release"}
      /\ \A q \in Procs : q # p => pc'[q] = pc[q] /\ job'[q] = job[q]
  <2>1. UNCHANGED <<ledger, secrets>> /\ pc[p] = "validate"
    BY DEF Validation, ValidationFails, Validated
  <2>2. pc'[p] \in {"append", "record", "release"}
    BY DEF Validation, ValidationFails, Validated, TypeOK
  <2>. QED BY <2>1, <2>2, InsideFrame
<1>2. /\ job[p] \in Job /\ e \in Event /\ job[p].task \in Task
  <2>1. job[p] \in Job
    BY <1>1 DEF TypeOK
  <2>. QED BY <2>1 DEF Job
<1>3. /\ e.action = "verification.started" /\ HasStart(e) /\ NotClosed(e.run)
      /\ e.id = job[p].lock /\ e.attempt = job[p].task.attempt
  BY <1>1 DEF RunInv, RunOpen
<1>4. job'[p].lock = job[p].lock
  BY InsideFrame
<1>5. pc'[p] # "release" => /\ f.action \in TerminalActions /\ f.run = e.run /\ f.id = e.id
                            /\ f.attempt = e.attempt
  <2>1. CASE ValidationFails(p)
    BY <2>1, FailureFields DEF TerminalActions
  <2>2. ASSUME NEW target \in {"verified", "rejected"}, Validated(p, target)
        PROVE  f.action \in TerminalActions /\ f.run = e.run /\ f.id = e.id
               /\ f.attempt = e.attempt
    BY <1>3, <2>2, VerdictFields DEF TerminalActions
  <2>. QED BY <2>1, <2>2 DEF Validation
<1>6. \A r : Starts(r)' = Starts(r) /\ Terminals(r)' = Terminals(r) /\ NotClosed(r)' = NotClosed(r)
  BY <1>1 DEF Starts, Terminals, NotClosed
<1>7. \A g : HasStart(g)' = HasStart(g)
  BY <1>1, <1>6 DEF HasStart
<1>8. RunOpen(p)'
  <2>1. pc'[p] # "release" => HasStart(f) /\ NotClosed(f.run) /\ f.id = job'[p].lock
    BY <1>3, <1>4, <1>5 DEF HasStart
  <2>. QED BY <1>1, <1>5, <1>6, <1>7, <2>1 DEF RunOpen
<1>9. ASSUME NEW q \in Procs, q # p PROVE RunOpen(q)'
  <2>1. pc'[q] = pc[q] /\ job'[q] = job[q] /\ RunOpen(q)
    BY <1>1, <1>9 DEF RunInv
  <2>2. \A z \in Procs : pc'[z] = "begin" => pc[z] = "begin" /\ job'[z] = job[z]
    BY <1>1
  <2>. QED BY <1>1, <1>6, <1>7, <2>1, <2>2 DEF RunOpen
<1>10. OneTerminalPerRun'
  BY <1>1, <1>6 DEF RunInv, OneTerminalPerRun, Undisturbed
<1>. QED BY <1>1, <1>8, <1>9, <1>10 DEF RunInv

LEMMA RunStep ==
    ASSUME TypeOK, TypeOK', LockInv, RunInv, [Next]_vars
    PROVE  RunInv'
<1>1. ASSUME NEW p \in Procs, Call(p) \/ AppendStep(p) \/ Validation(p) PROVE RunInv'
  BY <1>1, RunCall, RunAppend, RunValidation DEF LockInv
<1>2. ASSUME UNCHANGED <<ledger, secrets>>, robbed => robbed',
             \A q \in Procs : \/ pc'[q] = pc[q] /\ job'[q] = job[q]
                              \/ pc'[q] \in {"idle", "release", "abort"}
      PROVE  RunInv'
  <2>1. \A r : Starts(r)' = Starts(r) /\ Terminals(r)' = Terminals(r)
    BY <1>2 DEF Starts, Terminals
  <2>5. \A r : NotClosed(r) => NotClosed(r)'
    BY <1>2, <2>1 DEF NotClosed
  <2>2. \A g : HasStart(g)' = HasStart(g)
    BY <1>2, <2>1 DEF HasStart
  <2>3. OneTerminalPerRun'
    BY <1>2, <2>1 DEF RunInv, OneTerminalPerRun, Undisturbed
  <2>4. \A q \in Procs : RunOpen(q)'
    <3>1. ASSUME NEW q \in Procs, pc'[q] \in {"idle", "release", "abort"} PROVE RunOpen(q)'
      BY <3>1 DEF RunOpen
    <3>2. ASSUME NEW q \in Procs, pc'[q] = pc[q], job'[q] = job[q] PROVE RunOpen(q)'
      <4>1. RunOpen(q)
        BY DEF RunInv
      <4>2. \A z \in Procs : pc'[z] = "begin" => pc[z] = "begin" /\ job'[z] = job[z]
        BY <1>2
      <4>. QED BY <1>2, <2>1, <2>2, <2>5, <3>2, <4>1, <4>2 DEF RunOpen
    <3>. QED BY <1>2, <3>1, <3>2
  <2>. QED BY <1>2, <2>3, <2>4 DEF RunInv
<1>3. ASSUME NEW p \in Procs,
             WriteProjection(p) \/ Release(p) \/ AppendFails(p) \/ Crash(p)
      PROVE  RunInv'
  <2>1. UNCHANGED <<ledger, secrets>>
    BY <1>3 DEF WriteProjection, Release, AppendFails, Crash
  <2>2. \A q \in Procs : \/ pc'[q] = pc[q] /\ job'[q] = job[q]
                         \/ pc'[q] \in {"idle", "release", "abort"}
    BY <1>3 DEF WriteProjection, Release, AppendFails, Crash, TypeOK
  <2>. QED BY <1>2, <2>1, <2>2, HistoriesStay
<1>4. CASE Tick \/ TakesOver \/ UNCHANGED vars
  <2>1. UNCHANGED <<ledger, secrets, pc, job>>
    BY <1>4 DEF Tick, TakesOver, FindStale, UnlinkStale, vars
  <2>. QED BY <1>2, <2>1, HistoriesStay
<1>. QED BY <1>1, <1>3, <1>4 DEF Next, Progress, TakesOver

\* A verification run is started once, every terminal event follows the start
\* and is of the same task and attempt, and there is at most one until a waiter
\* unlinks the lock file of a live process: however verify,
\* _record_verification_failure and reconcile_verification interleave, whatever
\* dies in between and whichever abandoned locks are taken over.
THEOREM RunsClosedOnce == Spec => []OneTerminalPerRun
<1>1. Init => RunInv
  BY DEF Init, RunInv, OneTerminalPerRun, RunOpen
<1>2. TypeOK /\ TypeOK' /\ LockInv /\ RunInv /\ [Next]_vars => RunInv'
  BY RunStep
<1>3. RunInv => OneTerminalPerRun
  BY DEF RunInv
<1>. QED BY <1>1, <1>2, <1>3, TypeCorrect, LocksHeld, PTL DEF Spec

-----------------------------------------------------------------------------
(* Prerequisites.  Every record in a verified or archived state, signed,   *)
(* on disk or in the memory of a process, has a signed verdict behind it.  *)

HasVerdict(t) ==
    \E j \in 1..Len(ledger) : ledger[j].action = "task.verified" /\ ledger[j].id = t

VerdictBehind(p) ==
    LET e == job[p].event
        done == job[p].task.state \in Done
    IN /\ pc[p] \in Appending =>
            /\ e.action = "task.claimed" => \A u \in Prereqs[e.id] : HasVerdict(u)
            /\ e.task.state \in Done => HasVerdict(e.id) \/ e.action = "task.verified"
       /\ pc[p] \in {"begin", "validate"} =>
            e.action = "verification.started" /\ e.id = job[p].id /\ e.task = NoTask
       /\ pc[p] = "append" /\ done =>
            HasVerdict(job[p].id) \/ (e.action = "task.verified" /\ e.id = job[p].id)
       /\ pc[p] = "write" /\ done => HasVerdict(job[p].id)

PrereqInv ==
    /\ PrerequisitesVerified
    /\ \A t \in Tasks : projection[t].state \in Done => HasVerdict(t)
    /\ \A i \in 1..Len(ledger) : ledger[i].task.state \in Done => HasVerdict(ledger[i].id)
    /\ \A p \in Procs : VerdictBehind(p)

LEMMA PrereqCall ==
    ASSUME TypeOK, TypeOK', PrereqInv, NEW p \in Procs, Call(p)
    PROVE  PrereqInv'
<1>. DEFINE e == job'[p].event
<1>1. CallEffect(p)
  BY CallEffects
<1>2. /\ UNCHANGED <<ledger, projection>>
      /\ \A q \in Procs : q # p => pc'[q] = pc[q] /\ job'[q] = job[q]
  BY <1>1 DEF CallEffect
<1>3. \A t : HasVerdict(t)' = HasVerdict(t)
  BY <1>2 DEF HasVerdict
<1>4. e \in Event
  <2>1. job'[p] \in Job
    BY <1>1 DEF CallEffect, TypeOK, Appending
  <2>. QED BY <2>1 DEF Job
<1>5. \A t \in Tasks : PrerequisitesSatisfied(t) => \A u \in Prereqs[t] : HasVerdict(u)
  BY ConstantsAssumption DEF PrerequisitesSatisfied, PrereqInv, Done
<1>6. NoTask.state \notin Done
  BY DEF NoTask, Done
<1>7. VerdictBehind(p)'
  <2>1. CASE /\ e.action \notin RunActions /\ pc'[p] \in {"append", "record"}
             /\ e.action = "task.claimed" => PrerequisitesSatisfied(e.id)
             /\ job'[p].task.state \notin Done /\ e.task.state \notin Done
    <3>1. e.id \in Tasks
      BY <1>4 DEF Event
    <3>. QED BY <1>3, <1>5, <2>1, <3>1 DEF VerdictBehind
  <2>2. CASE /\ e.action = "verification.started" /\ pc'[p] = "begin" /\ e.task = NoTask
             /\ e.id = job'[p].lock /\ job'[p].id = job'[p].lock
    BY <1>6, <2>2 DEF VerdictBehind
  <2>3. CASE /\ e.action = "verification.failed" /\ pc'[p] \in {"append", "write"}
             /\ \E s \in Starts(e.run) : ledger[s].id = e.id /\ ledger[s].task = e.task
             /\ \E i \in 1..Len(ledger) : ledger[i].id = job'[p].id
                                          /\ ledger[i].task = job'[p].task
    <3>1. e.task.state \in Done => HasVerdict(e.id)
      BY <2>3 DEF PrereqInv, Starts
    <3>2. job'[p].task.state \in Done => HasVerdict(job'[p].id)
      BY <2>3 DEF PrereqInv
    <3>. QED BY <1>3, <2>3, <3>1, <3>2 DEF VerdictBehind
  <2>. QED BY <1>1, <2>1, <2>2, <2>3 DEF CallEffect
<1>8. ASSUME NEW q \in Procs, q # p PROVE VerdictBehind(q)'
  BY <1>2, <1>3, <1>8 DEF PrereqInv, VerdictBehind
<1>. QED BY <1>2, <1>3, <1>7, <1>8 DEF PrereqInv, PrerequisitesVerified

LEMMA PrereqAppend ==
    ASSUME TypeOK, TypeOK', PrereqInv, NEW p \in Procs, AppendStep(p)
    PROVE  PrereqInv'
<1>. DEFINE e == job[p].event
            n == Len(ledger) + 1
<1>1. /\ e \in Event /\ ledger' = Append(ledger, e)
      /\ UNCHANGED <<projection, job>> /\ pc[p] \in Appending
      /\ \A q \in Procs : q # p => pc'[q] = pc[q]
      /\ pc'[p] = "write" => pc[p] = "append"
      /\ pc'[p] = "validate" => pc[p] = "begin"
      /\ pc'[p] \in {"write", "validate", "release"}
  <2>1. job[p] \in Job
    BY DEF AppendStep, Appending, TypeOK
  <2>2. e \in Event
    BY <2>1 DEF Job
  <2>. QED BY <2>2 DEF AppendStep, Appending, TypeOK
<1>2. /\ n \in Nat /\ 1..Len(ledger') = 1..Len(ledger) \union {n}
      /\ \A i \in 1..Len(ledger) : ledger'[i] = ledger[i] /\ i < n
      /\ ledger'[n] = e
  BY <1>1, Appended DEF TypeOK
<1>3. \A t : HasVerdict(t) => HasVerdict(t)'
  <2>. HIDE DEF n
  <2>. QED BY <1>2 DEF HasVerdict
<1>4. ASSUME e.action = "task.verified" PROVE \A t : t = e.id => HasVerdict(t)'
  <2>. HIDE DEF n
  <2>. QED BY <1>2, <1>4 DEF HasVerdict
<1>5. VerdictBehind(p)
  BY DEF PrereqInv
<1>6. PrerequisitesVerified'
  <2>. DEFINE OK(i) == \A u \in Prereqs[ledger'[i].id] :
                         \E j \in 1..(i - 1) : ledger'[j].action = "task.verified"
                                               /\ ledger'[j].id = u
  <2>1. ASSUME NEW i \in 1..Len(ledger), ledger'[i].action = "task.claimed" PROVE OK(i)
    <3>0. Len(ledger) \in Nat /\ 1..(i - 1) \subseteq 1..Len(ledger)
      BY DEF TypeOK
    <3>1. ledger'[i] = ledger[i] /\ \A j \in 1..(i - 1) : ledger'[j] = ledger[j]
      BY <1>2, <3>0
    <3>. QED BY <2>1, <3>1 DEF PrereqInv, PrerequisitesVerified
  <2>2. ASSUME e.action = "task.claimed" PROVE OK(n)
    <3>1. \A u \in Prereqs[e.id] : HasVerdict(u)
      BY <1>1, <1>5, <2>2 DEF VerdictBehind
    <3>2. 1..(n - 1) = 1..Len(ledger)
      BY DEF TypeOK
    <3>. QED BY <1>2, <3>1, <3>2 DEF HasVerdict
  <2>3. \A i \in 1..Len(ledger') : ledger'[i].action = "task.claimed" => OK(i)
    <3>. HIDE DEF n, OK
    <3>. QED BY <1>2, <2>1, <2>2
  <2>. QED BY <2>3 DEF PrerequisitesVerified
<1>7. \A t \in Tasks : projection'[t].state \in Done => HasVerdict(t)'
  BY <1>1, <1>3 DEF PrereqInv
<1>8. \A i \in 1..Len(ledger') :
        ledger'[i].task.state \in Done => \A t : t = ledger'[i].id => HasVerdict(t)'
  <2>1. \A i \in 1..Len(ledger) :
           ledger[i].task.state \in Done => \A t : t = ledger[i].id => HasVerdict(t)'
    BY <1>3 DEF PrereqInv
  <2>2. e.task.state \in Done => \A t : t = e.id => HasVerdict(t)'
    BY <1>1, <1>3, <1>4, <1>5 DEF VerdictBehind
  <2>. HIDE DEF n
  <2>. QED BY <1>2, <2>1, <2>2
<1>9. ASSUME NEW q \in Procs, q # p PROVE VerdictBehind(q)'
  BY <1>1, <1>3, <1>9 DEF PrereqInv, VerdictBehind
<1>10. VerdictBehind(p)'
  <2>1. pc[p] = "append" /\ job[p].task.state \in Done => \A t : t = job[p].id => HasVerdict(t)'
    BY <1>3, <1>4, <1>5 DEF VerdictBehind
  <2>. QED BY <1>1, <1>5, <2>1 DEF VerdictBehind, Appending
<1>11. (\A i \in 1..Len(ledger) : ledger[i].task.state \in Done => HasVerdict(ledger[i].id))'
  BY <1>8 DEF HasVerdict
<1>. QED BY <1>6, <1>7, <1>9, <1>10, <1>11 DEF PrereqInv

LEMMA PrereqStep ==
    ASSUME TypeOK, TypeOK', PrereqInv, [Next]_vars
    PROVE  PrereqInv'
<1>1. ASSUME NEW p \in Procs, Call(p) \/ AppendStep(p) PROVE PrereqInv'
  BY <1>1, PrereqCall, PrereqAppend
<1>2. ASSUME ledger' = ledger,
             \A t \in Tasks : projection'[t].state \in Done => HasVerdict(t),
             \A q \in Procs : \/ pc'[q] = pc[q] /\ job'[q] = job[q]
                              \/ pc'[q] \in {"idle", "release", "abort"}
                              \/ VerdictBehind(q)'
      PROVE  PrereqInv'
  <2>1. \A t : HasVerdict(t)' = HasVerdict(t)
    BY <1>2 DEF HasVerdict
  <2>2. \A q \in Procs : pc'[q] \in {"idle", "release", "abort"} => VerdictBehind(q)'
    BY DEF VerdictBehind, Appending
  <2>3. \A q \in Procs : pc'[q] = pc[q] /\ job'[q] = job[q] => VerdictBehind(q)'
    BY <2>1 DEF PrereqInv, VerdictBehind
  <2>. QED BY <1>2, <2>1, <2>2, <2>3 DEF PrereqInv, PrerequisitesVerified
<1>3. ASSUME NEW p \in Procs, WriteProjection(p) PROVE PrereqInv'
  <2>1. job[p] \in Job
    BY <1>3 DEF WriteProjection, TypeOK
  <2>2. ledger' = ledger /\ \A q \in Procs : \/ pc'[q] = pc[q] /\ job'[q] = job[q]
                                             \/ pc'[q] \in {"idle", "release", "abort"}
    BY <1>3 DEF WriteProjection, TypeOK
  <2>3. job[p].task.state \in Done => HasVerdict(job[p].id)
    BY <1>3 DEF WriteProjection, PrereqInv, VerdictBehind
  <2>4. \A t \in Tasks : projection'[t] = projection[t] \/ (t = job[p].id /\ projection'[t] = job[p].task)
    BY <1>3 DEF WriteProjection, TypeOK
  <2>5. \A t \in Tasks : projection'[t].state \in Done => HasVerdict(t)
    BY <2>3, <2>4 DEF PrereqInv
  <2>. QED BY <1>2, <2>2, <2>5
<1>4. ASSUME NEW p \in Procs, Validation(p) PROVE PrereqInv'
  <2>1. /\ UNCHANGED <<ledger, projection>> /\ pc[p] = "validate"
    BY <1>4 DEF Validation, ValidationFails, Validated
  <2>2. \A q \in Procs : q # p => pc'[q] = pc[q] /\ job'[q] = job[q]
    BY <1>4, InsideFrame
  <2>3. job'[p].id = job[p].id
    BY <1>4, InsideFrame
  <2>4. /\ job[p].event.id = job[p].id /\ job[p].event.task = NoTask
        /\ NoTask.state \notin Done
    BY <2>1 DEF PrereqInv, VerdictBehind, NoTask, Done
  <2>5. CASE ValidationFails(p)
    <3>1. \/ pc'[p] = "release"
          \/ pc'[p] = "record" /\ job'[p].event.action = "verification.failed"
             /\ job'[p].event.task = job[p].event.task
      BY <2>5, FailureFields
    <3>2. pc'[p] \in {"idle", "release", "abort"} \/ VerdictBehind(p)'
      BY <2>4, <3>1 DEF VerdictBehind
    <3>. QED BY <1>2, <2>1, <2>2, <3>2 DEF PrereqInv
  <2>6. ASSUME NEW target \in {"verified", "rejected"}, Validated(p, target) PROVE PrereqInv'
    <3>1. /\ pc'[p] = "append" /\ job'[p].event.id = job[p].event.id
          /\ job'[p].event.action = IF target = "verified" THEN "task.verified" ELSE "task.rejected"
          /\ job'[p].event.task.state = target /\ job'[p].task.state = target
      BY <2>6, VerdictFields
    <3>2. VerdictBehind(p)'
      BY <2>3, <2>4, <3>1 DEF VerdictBehind, Done
    <3>. QED BY <1>2, <2>1, <2>2, <3>2 DEF PrereqInv
  <2>. QED BY <1>4, <2>5, <2>6 DEF Validation
<1>5. ASSUME NEW p \in Procs, Release(p) \/ AppendFails(p) \/ Crash(p) PROVE PrereqInv'
  <2>1. UNCHANGED <<ledger, projection>>
    BY <1>5 DEF Release, AppendFails, Crash
  <2>2. \A q \in Procs : \/ pc'[q] = pc[q] /\ job'[q] = job[q]
                         \/ pc'[q] \in {"idle", "release", "abort"}
    BY <1>5 DEF Release, AppendFails, Crash, TypeOK
  <2>. QED BY <1>2, <2>1, <2>2 DEF PrereqInv
<1>6. CASE Tick \/ TakesOver \/ UNCHANGED vars
  <2>1. UNCHANGED <<ledger, projection, pc, job>>
    BY <1>6 DEF Tick, TakesOver, FindStale, UnlinkStale, vars
  <2>. QED BY <1>2, <2>1 DEF PrereqInv
<1>. QED BY <1>1, <1>3, <1>4, <1>5, <1>6 DEF Next, Progress, TakesOver

\* A claim is signed only after each prerequisite was signed as verified.  It
\* needs no assumption: it holds with crashes, with stolen locks and although
\* claim reads the other task files without their locks, because a task file
\* is written after its event and a signed verdict never goes away.
THEOREM ClaimsFollowVerdicts == Spec => []PrerequisitesVerified
<1>1. Init => PrereqInv
  BY DEF Init, PrereqInv, PrerequisitesVerified, VerdictBehind, NoTask, Done, Appending
<1>2. TypeOK /\ TypeOK' /\ PrereqInv /\ [Next]_vars => PrereqInv'
  BY PrereqStep
<1>3. PrereqInv => PrerequisitesVerified
  BY DEF PrereqInv
<1>. QED BY <1>1, <1>2, <1>3, TypeCorrect, PTL DEF Spec

-----------------------------------------------------------------------------
(* What an operation has decided when it has taken its lock, for the        *)
(* properties of the signed history.                                       *)

\* Events that end a lease, and events of the worker that holds one.
Recoveries == {"task.lease_recovered", "task.lease_force_recovered"}

WorkerActions == {"task.started", "task.heartbeat", "task.blocked", "task.submitted"}

Verdicts == {"task.verified", "task.rejected"}

\* The operations that sign a new version of a task that has a file.
UpdateActions == {"task.claimed"} \union WorkerActions \union Recoveries

\* What the event does to the lease of the record it was made from.
LeaseStep(old, e) ==
    /\ e.action \in WorkerActions => old.lease.holder # Nobody /\ e.token = old.lease.token
    /\ e.task.lease.holder # Nobody =>
         IF e.action = "task.claimed" THEN e.token = e.task.lease.token
         ELSE e.action \notin Recoveries /\ e.task.lease.holder = old.lease.holder
              /\ e.task.lease.token = old.lease.token

\* What an operation has decided when it has taken its lock, from the task
\* file and the ledger it has just read.
Decided(p) ==
    LET j == job'[p]
        e == j.event
        t == j.id
        old == projection[t]
    IN /\ e.id = t
       /\ \/ /\ j.lock = CreationLock /\ pc'[p] = "append" /\ e.action = "task.created"
             /\ old = NoTask /\ j.task = e.task /\ e.task.state = "pending"
             /\ e.task.lease = NoLease /\ e.note = NoNote
          \/ /\ j.lock = t /\ pc'[p] = "append" /\ e.action \in UpdateActions
             /\ old # NoTask /\ j.task = e.task /\ e.note = NoNote
             /\ e.attempt = e.task.attempt /\ e.task.state # "absent"
             /\ LegalSuccessor(old, e) /\ LeaseStep(old, e)
             /\ (e.task.state = "submitted") = (e.action = "task.submitted")
             /\ e.action = "task.submitted" => old.state # "submitted" /\ e.actor = Owner[t]
             /\ e.action \in Recoveries => e.task.state = "pending"
          \/ /\ j.lock = t /\ pc'[p] = "begin" /\ e.action = "verification.started"
             /\ old.state = "submitted" /\ j.task = old /\ e.task = NoTask /\ e.note = NoNote
             /\ OsIsolationProven
             /\ \E i \in 1..Len(ledger) :
                  IsLatestSubmission(i, t) /\ Independent(ledger[i].actor, e.actor)
          \/ /\ j.lock = t /\ pc'[p] \in {"append", "write"} /\ e.action = "verification.failed"
             /\ \E s \in 1..Len(ledger) :
                  /\ ledger[s].action = "verification.started" /\ ledger[s].id = t
                  /\ e.task = ledger[s].task /\ e.note = ledger[s].note
             /\ \E i \in 1..Len(ledger) : IsLatest(i, t) /\ j.task = ledger[i].task
          \/ /\ j.lock = t /\ pc'[p] = "record" /\ e.action = "verification.restatement"
             /\ old # NoTask /\ e.task = NoTask /\ j.task = NoTask
             /\ OsIsolationProven /\ e.actor = Orchestrator /\ e.note.status \in Statuses
             /\ e.note.target \in 1..Len(ledger) /\ ledger[e.note.target].id = t
             /\ ledger[e.note.target].action = "task.verified"
             /\ \A i \in 1..Len(ledger) : IsLatestRestatement(i, e.note.target) =>
                  ledger[i].note.status # "verification_revoked"

LEMMA MovedRest ==
    ASSUME NEW task \in Task, NEW target \in TASK_STATES
    PROVE  /\ Moved(task, target).revision = task.revision + 1
           /\ Moved(task, target).lease = task.lease
<1>1. task.revision + 1 \in Nat
  BY DEF Task
<1>2. \A n \in Nat : /\ [task EXCEPT !.state = target, !.revision = n].revision = n
                     /\ [task EXCEPT !.state = target, !.revision = n].lease = task.lease
  BY DEF Task
<1>. QED BY <1>1, <1>2 DEF Moved

LEMMA UpdateDecided ==
    ASSUME TypeOK, NEW p \in Procs, NEW op, NEW t \in Tasks, NEW action \in UpdateActions,
           NEW actor \in Agents, NEW task \in Task, NEW token \in Nat,
           NEW event, event \in {MkEvent(action, actor, t, task),
                                 [MkEvent(action, actor, t, task) EXCEPT !.token = token]},
           EnterUpdate(p, op, t, t, event),
           projection[t] # NoTask, task.state # "absent",
           (task.state = "submitted") = (action = "task.submitted"),
           action = "task.submitted" => projection[t].state # "submitted" /\ actor = Owner[t],
           action \in Recoveries => task.state = "pending",
           \A e \in Event : e.action = action /\ e.task = task /\
                            (action \notin Recoveries => e.token = token) =>
               LegalSuccessor(projection[t], e) /\ LeaseStep(projection[t], e),
           action \notin Recoveries => event # MkEvent(action, actor, t, task) \/ event.token = token
    PROVE  Decided(p)
<1>. DEFINE m == MkEvent(action, actor, t, task)
<1>1. action \in Actions
  BY DEF UpdateActions, WorkerActions, Recoveries, Actions
<1>2. m \in Event /\ m.action = action /\ m.id = t /\ m.task = task /\ m.note = NoNote
      /\ m.attempt = task.attempt /\ m.actor = actor
  BY <1>1, MkEventType DEF MkEvent
<1>3. event \in Event /\ event.action = action /\ event.id = t /\ event.task = task
      /\ event.note = NoNote /\ event.attempt = task.attempt /\ event.actor = actor
      /\ (action \notin Recoveries => event.token = token)
  <2>. HIDE DEF m
  <2>1. event \in {m, [m EXCEPT !.token = token]}
    BY DEF m
  <2>2. action \notin Recoveries => event # m \/ event.token = token
    BY DEF m
  <2>. QED BY <1>2, <2>1, <2>2 DEF Event
<1>4. Entered(p, t, t, "append", event, task)
  <2>1. Enter(p, op, t, t, "append", event, task)
    BY <1>3 DEF EnterUpdate
  <2>. QED BY <2>1, EnterFrame
<1>5. LegalSuccessor(projection[t], event) /\ LeaseStep(projection[t], event)
  BY <1>3
<1>6. /\ job'[p].id = t /\ job'[p].lock = t /\ job'[p].event = event /\ job'[p].task = task
      /\ pc'[p] = "append"
  BY <1>4 DEF Entered
<1>. HIDE DEF m
<1>. QED BY <1>3, <1>5, <1>6 DEF Decided

LEMMA CallDecides ==
    ASSUME TypeOK, NEW p \in Procs, Call(p)
    PROVE  Decided(p)
<1>1. PICK t \in Tasks : \/ claim(p, t)
                         \/ WorkerCall(p, t)
                         \/ \E v \in Verifiers : verify(p, t, v)
                         \/ OrchestratorCall(p, t)
  BY DEF Call
<1>. USE ConstantsAssumption
<1>. DEFINE old == projection[t]
<1>2. /\ old \in Task /\ Owner[t] \in Agents /\ Owner[t] # Nobody
      /\ secrets \in Nat /\ clock \in Nat /\ Orchestrator \in Agents
      /\ secrets + 1 \in Nat /\ clock + LeaseSeconds \in Nat
  BY DEF TypeOK
<1>3. old.lease \in Lease /\ NoLease \in Lease /\ NoLease.holder = Nobody
      /\ old.revision \in Nat /\ old.attempt \in Nat
  BY <1>2, NoTaskType DEF Task, NoLease
<1>. HIDE DEF old
<1>4. projection[t] = old
  BY DEF old
<1>5. CASE claim(p, t)
  <2>. DEFINE lease == [holder |-> Owner[t], token |-> secrets + 1,
                        expires |-> clock + LeaseSeconds]
              m == Moved(old, "claimed")
              new == [m EXCEPT !.attempt = @ + 1, !.lease = lease]
              event == [MkEvent("task.claimed", Owner[t], t, new) EXCEPT !.token = secrets + 1]
  <2>1. lease \in Lease /\ lease.token = secrets + 1
    BY <1>2 DEF Lease
  <2>2. /\ m \in Task /\ m.state = "claimed"
        /\ m.attempt = old.attempt /\ m.revision = old.revision + 1
    BY <1>2, MovedType, MovedFields, MovedRest DEF TASK_STATES
  <2>3. EnterUpdate(p, "claim", t, t, event) /\ old.state = "pending"
    BY <1>4, <1>5 DEF claim
  <2>. HIDE DEF m, lease
  <2>4. /\ new \in Task /\ new.state = "claimed" /\ new.attempt = old.attempt + 1
        /\ new.revision = old.revision + 1 /\ new.lease = lease
    <3>1. \A n \in Nat :
            LET r == [m EXCEPT !.attempt = n, !.lease = lease]
            IN /\ r \in Task /\ r.state = m.state /\ r.attempt = n
               /\ r.revision = m.revision /\ r.lease = lease
      BY <2>1, <2>2 DEF Task
    <3>2. m.attempt + 1 \in Nat
      BY <1>3, <2>2
    <3>. QED BY <2>2, <3>1, <3>2
  <2>. HIDE DEF new
  <2>5. \A e \in Event : e.action = "task.claimed" /\ e.task = new /\ e.token = secrets + 1 =>
           LegalSuccessor(old, e) /\ LeaseStep(old, e)
    BY <2>1, <2>3, <2>4 DEF LegalSuccessor, CanMove, TRANSITIONS, LeaseStep, WorkerActions
  <2>6. event.token = secrets + 1
    BY DEF MkEvent
  <2>7. event \in {[MkEvent("task.claimed", Owner[t], t, new) EXCEPT !.token = secrets + 1]}
    OBVIOUS
  <2>8. old # NoTask /\ "task.claimed" \in UpdateActions /\ "task.claimed" \notin Recoveries
    BY <2>3 DEF NoTask, UpdateActions, Recoveries
  <2>. HIDE DEF event
  <2>. QED BY <1>2, <1>4, <2>3, <2>4, <2>5, <2>6, <2>7, <2>8, UpdateDecided
<1>6. CASE WorkerCall(p, t)
  <2>1. PICK token \in delivered : \/ start(p, t, token) \/ heartbeat(p, t, token)
                                   \/ block(p, t, token) \/ submit(p, t, token)
    BY <1>6 DEF WorkerCall
  <2>2. token \in Nat
    BY DEF TypeOK
  <2>3. old.lease.holder # Nobody /\ old.lease.token = token /\ old # NoTask
    BY <1>2, <1>4, <2>1 DEF start, heartbeat, block, submit, CheckLease, NoTask, NoLease
  <2>4. ASSUME NEW op, NEW action, NEW new \in Task,
               action \in WorkerActions,
               EnterUpdate(p, op, t, t, WorkerEvent(action, t, token, new)),
               new.state # "absent",
               (new.state = "submitted") = (action = "task.submitted"),
               action = "task.submitted" => old.state # "submitted",
               new.attempt = old.attempt,
               \/ /\ action = "task.heartbeat"
                  /\ new.state = old.state /\ new.revision = old.revision
               \/ CanMove(old, new.state) /\ new.revision = old.revision + 1,
               new.lease.holder # Nobody =>
                  new.lease.holder = old.lease.holder /\ new.lease.token = old.lease.token
        PROVE  Decided(p)
    <3>. DEFINE event == [MkEvent(action, Owner[t], t, new) EXCEPT !.token = token]
    <3>1. event.token = token
      BY DEF MkEvent
    <3>2. action \in UpdateActions
      BY <2>4 DEF UpdateActions
    <3>0. action # "task.claimed" /\ action \notin Recoveries
      BY <2>4 DEF WorkerActions, Recoveries
    <3>3. \A e \in Event : e.action = action /\ e.task = new /\ e.token = token =>
             LegalSuccessor(old, e) /\ LeaseStep(old, e)
      <4>1. \A e \in Event : e.action = action /\ e.task = new =>
               LegalSuccessor(old, e)
        BY <1>3, <2>4, <3>0 DEF LegalSuccessor
      <4>2. \A e \in Event : e.action = action /\ e.task = new /\ e.token = token =>
               LeaseStep(old, e)
        BY <2>3, <2>4, <3>0 DEF LeaseStep
      <4>. QED BY <4>1, <4>2
    <3>4. EnterUpdate(p, op, t, t, event)
      BY <2>4 DEF WorkerEvent
    <3>. HIDE DEF event
    <3>5. event \in {[MkEvent(action, Owner[t], t, new) EXCEPT !.token = token]}
      BY DEF event
    <3>. QED BY <1>2, <1>4, <2>2, <2>3, <2>4, <3>0, <3>1, <3>2, <3>3, <3>4, <3>5, UpdateDecided
  <2>5. ASSUME NEW target \in TASK_STATES
        PROVE  /\ Moved(old, target) \in Task /\ Moved(old, target).state = target
               /\ Moved(old, target).attempt = old.attempt
               /\ Moved(old, target).revision = old.revision + 1
               /\ Moved(old, target).lease = old.lease
    BY <1>2, MovedType, MovedFields, MovedRest
  <2>6. ASSUME NEW target \in TASK_STATES
        PROVE  LET new == [Moved(old, target) EXCEPT !.lease = NoLease]
               IN /\ new \in Task /\ new.state = target /\ new.attempt = old.attempt
                  /\ new.revision = old.revision + 1 /\ new.lease = NoLease
    <3>. DEFINE m == Moved(old, target)
    <3>1. m \in Task /\ m.state = target /\ m.attempt = old.attempt /\ m.revision = old.revision + 1
      BY <2>5
    <3>. HIDE DEF m
    <3>2. LET new == [m EXCEPT !.lease = NoLease]
          IN /\ new \in Task /\ new.state = target /\ new.attempt = old.attempt
             /\ new.revision = old.revision + 1 /\ new.lease = NoLease
      BY <1>3, <3>1 DEF Task
    <3>. QED BY <3>2 DEF m
  <2>7. CASE start(p, t, token)
    <3>. DEFINE new == Moved(old, "running")
    <3>1. /\ new \in Task /\ new.state = "running" /\ new.attempt = old.attempt
          /\ new.revision = old.revision + 1 /\ new.lease = old.lease
      BY <2>5 DEF TASK_STATES
    <3>2. /\ EnterUpdate(p, "start", t, t, WorkerEvent("task.started", t, token, new))
          /\ CanMove(old, "running")
      BY <1>4, <2>7 DEF start
    <3>. HIDE DEF new
    <3>. QED BY <2>4, <3>1, <3>2 DEF WorkerActions
  <2>8. CASE heartbeat(p, t, token)
    <3>. DEFINE new == [old EXCEPT !.lease.expires = clock + LeaseSeconds]
    <3>1. new \in Task
      BY <1>2, <1>3, TaskUpdateType
    <3>2. /\ EnterUpdate(p, "heartbeat", t, t, WorkerEvent("task.heartbeat", t, token, new))
          /\ old.state \in {"claimed", "running"}
      BY <1>4, <2>8 DEF heartbeat
    <3>3. /\ new.state = old.state /\ new.attempt = old.attempt /\ new.revision = old.revision
          /\ new.lease.holder = old.lease.holder /\ new.lease.token = old.lease.token
      BY <1>2, <1>3 DEF Task, Lease
    <3>. HIDE DEF new
    <3>. QED BY <2>4, <3>1, <3>2, <3>3 DEF WorkerActions
  <2>9. CASE block(p, t, token)
    <3>. DEFINE new == [Moved(old, "blocked") EXCEPT !.lease = NoLease]
    <3>1. /\ new \in Task /\ new.state = "blocked" /\ new.attempt = old.attempt
          /\ new.revision = old.revision + 1 /\ new.lease.holder = Nobody
      BY <1>3, <2>6 DEF TASK_STATES
    <3>2. /\ EnterUpdate(p, "block", t, t, WorkerEvent("task.blocked", t, token, new))
          /\ CanMove(old, "blocked")
      BY <1>4, <2>9 DEF block
    <3>. HIDE DEF new
    <3>. QED BY <2>4, <3>1, <3>2 DEF WorkerActions
  <2>10. CASE submit(p, t, token)
    <3>. DEFINE new == [Moved(old, "submitted") EXCEPT !.lease = NoLease]
    <3>1. /\ new \in Task /\ new.state = "submitted" /\ new.attempt = old.attempt
          /\ new.revision = old.revision + 1 /\ new.lease.holder = Nobody
      BY <1>3, <2>6 DEF TASK_STATES
    <3>2. /\ EnterUpdate(p, "submit", t, t, WorkerEvent("task.submitted", t, token, new))
          /\ CanMove(old, "submitted") /\ old.state # "submitted"
      BY <1>4, <2>10 DEF submit, CanMove, TRANSITIONS
    <3>. HIDE DEF new
    <3>. QED BY <2>4, <3>1, <3>2 DEF WorkerActions
  <2>. QED BY <2>1, <2>7, <2>8, <2>9, <2>10
<1>7. ASSUME NEW v \in Verifiers, verify(p, t, v) PROVE Decided(p)
  <2>. DEFINE event == [MkEvent("verification.started", v, t, NoTask)
                          EXCEPT !.run = secrets + 1, !.attempt = old.attempt]
  <2>1. /\ event.action = "verification.started" /\ event.id = t /\ event.actor = v
        /\ event.task = NoTask /\ event.note = NoNote
    BY DEF MkEvent
  <2>2. /\ Enter(p, "verify", t, t, "begin", event, old) /\ old.state = "submitted"
        /\ OsIsolationProven
        /\ \E i \in 1..Len(ledger) : IsLatestSubmission(i, t) /\ Independent(ledger[i].actor, v)
    BY <1>4, <1>7 DEF verify
  <2>. HIDE DEF event
  <2>3. Entered(p, t, t, "begin", event, old)
    BY <2>2, EnterFrame
  <2>. QED BY <1>4, <2>1, <2>2, <2>3 DEF Entered, Decided
<1>8. CASE add_task(p, t)
  <2>. DEFINE record == [NoTask EXCEPT !.state = "pending", !.revision = 1]
              event == MkEvent("task.created", Orchestrator, t, record)
  <2>1. record.state = "pending" /\ record.lease = NoLease
    BY DEF NoTask
  <2>2. EnterUpdate(p, "add_task", t, CreationLock, event) /\ old = NoTask
    BY <1>4, <1>8 DEF add_task
  <2>. HIDE DEF record
  <2>3. /\ event.action = "task.created" /\ event.id = t /\ event.task = record
        /\ event.note = NoNote
    BY DEF MkEvent
  <2>. HIDE DEF event
  <2>4. Entered(p, t, CreationLock, "append", event, record)
    BY <2>2, <2>3, EnterFrame DEF EnterUpdate
  <2>. QED BY <1>4, <2>1, <2>2, <2>3, <2>4 DEF Entered, Decided
<1>9. ASSUME NEW force \in BOOLEAN, recover_lease(p, t, force) PROVE Decided(p)
  <2>. DEFINE b == Moved(old, "blocked")
              c == Moved(b, "pending")
              requeued == [c EXCEPT !.lease = NoLease]
              action == IF force THEN "task.lease_force_recovered" ELSE "task.lease_recovered"
              op == IF force THEN "recover_lease.force" ELSE "recover_lease"
              event == MkEvent(action, Orchestrator, t, requeued)
  <2>1. b \in Task /\ b.attempt = old.attempt /\ b.revision = old.revision + 1
    BY <1>2, MovedType, MovedFields, MovedRest DEF TASK_STATES
  <2>2. EnterUpdate(p, op, t, t, event) /\ old.state \in {"claimed", "running"}
    BY <1>4, <1>9 DEF recover_lease
  <2>. HIDE DEF b
  <2>3. /\ c \in Task /\ c.state = "pending" /\ c.attempt = old.attempt
        /\ c.revision = old.revision + 2
    <3>1. c \in Task /\ c.state = "pending" /\ c.attempt = b.attempt /\ c.revision = b.revision + 1
      BY <2>1, MovedType, MovedFields, MovedRest DEF TASK_STATES
    <3>. HIDE DEF c
    <3>. QED BY <1>3, <2>1, <3>1
  <2>. HIDE DEF c
  <2>4. /\ requeued \in Task /\ requeued.state = "pending" /\ requeued.attempt = old.attempt
        /\ requeued.revision = old.revision + 2 /\ requeued.lease.holder = Nobody
    BY <1>3, <2>3 DEF Task
  <2>5. action \in Recoveries
    BY DEF Recoveries
  <2>. HIDE DEF requeued, action, op
  <2>6. old # NoTask /\ action \in UpdateActions
    BY <2>2, <2>5 DEF NoTask, UpdateActions
  <2>7. \A e \in Event : e.action = action /\ e.task = requeued =>
           LegalSuccessor(old, e) /\ LeaseStep(old, e)
    BY <1>3, <2>2, <2>4, <2>5 DEF LegalSuccessor, CanMove, TRANSITIONS, LeaseStep, WorkerActions,
       Recoveries
  <2>8. action # "task.submitted"
    BY <2>5 DEF Recoveries
  <2>9. event \in {MkEvent(action, Orchestrator, t, requeued)} /\ 0 \in Nat
    OBVIOUS
  <2>. HIDE DEF event
  <2>. QED BY <1>2, <1>4, <2>2, <2>4, <2>5, <2>6, <2>7, <2>8, <2>9, UpdateDecided
<1>10. ASSUME NEW r \in 1..secrets, reconcile_verification(p, t, r) PROVE Decided(p)
  <2>1. PICK s \in Starts(r), i \in 1..Len(ledger) :
          /\ ledger[s].id = t /\ IsLatest(i, t)
          /\ Enter(p, "reconcile", t, t, ReconcileStep(r),
                   FailedEvent(Orchestrator, ledger[s]), ledger[i].task)
    BY <1>10 DEF reconcile_verification
  <2>. DEFINE event == FailedEvent(Orchestrator, ledger[s])
  <2>2. /\ s \in 1..Len(ledger) /\ ledger[s] \in Event
        /\ ledger[s].action = "verification.started"
    BY DEF Starts, TypeOK
  <2>3. /\ event.action = "verification.failed" /\ event.id = t
        /\ event.task = ledger[s].task /\ event.note = ledger[s].note
    BY <2>1, <2>2 DEF FailedEvent, Event
  <2>4. Entered(p, t, t, ReconcileStep(r), event, ledger[i].task)
    BY <2>1, EnterFrame
  <2>5. pc'[p] \in {"append", "write"}
    BY <2>4 DEF Entered, ReconcileStep
  <2>. HIDE DEF event
  <2>. QED BY <2>1, <2>2, <2>3, <2>4, <2>5 DEF Entered, Decided
<1>11. ASSUME NEW k \in 1..Len(ledger), NEW status \in Statuses, NEW reason \in Reasons,
              restate_verification(p, t, k, status, reason)
       PROVE  Decided(p)
  <2>. DEFINE note == [target |-> k, status |-> status, reason |-> reason]
              event == [MkEvent("verification.restatement", Orchestrator, t, NoTask)
                          EXCEPT !.note = note, !.attempt = ledger[k].attempt]
  <2>1. /\ Enter(p, "restate", t, t, "record", event, NoTask)
        /\ old # NoTask /\ ledger[k].id = t /\ ledger[k].action = "task.verified"
        /\ OsIsolationProven
        /\ \A i \in 1..Len(ledger) : IsLatestRestatement(i, k) =>
             ledger[i].note.status # "verification_revoked"
    BY <1>4, <1>11 DEF restate_verification, MayRestate
  <2>2. note.target = k /\ note.status = status
    OBVIOUS
  <2>. HIDE DEF note
  <2>3. /\ event.action = "verification.restatement" /\ event.id = t /\ event.task = NoTask
        /\ event.note = note /\ event.actor = Orchestrator
    BY DEF MkEvent
  <2>. HIDE DEF event
  <2>4. Entered(p, t, t, "record", event, NoTask)
    BY <2>1, EnterFrame
  <2>. QED BY <1>4, <2>1, <2>2, <2>3, <2>4 DEF Entered, Decided
<1>. QED BY <1>1, <1>5, <1>6, <1>7, <1>8, <1>9, <1>10, <1>11 DEF OrchestratorCall

-----------------------------------------------------------------------------
(* What the other steps change *)

LEMMA AppendFacts ==
    ASSUME TypeOK, NEW p \in Procs, AppendStep(p)
    PROVE  LET e == job[p].event
               n == Len(ledger) + 1
           IN /\ e \in Event /\ job[p].id \in Tasks /\ job[p].task \in Task
              /\ Len(ledger) \in Nat /\ n \in Nat /\ Len(ledger') = n
              /\ 1..Len(ledger') = 1..Len(ledger) \union {n}
              /\ \A i \in 1..Len(ledger) : ledger'[i] = ledger[i] /\ i < n
              /\ ledger'[n] = e
              /\ UNCHANGED <<projection, job, secrets>>
              /\ \A q \in Procs : q # p => pc'[q] = pc[q]
              /\ \/ pc[p] = "append" /\ pc'[p] = "write"
                 \/ pc[p] = "begin" /\ pc'[p] = "validate"
                 \/ pc[p] = "record" /\ pc'[p] = "release"
<1>1. job[p] \in Job
  BY DEF AppendStep, Appending, TypeOK
<1>2. job[p].event \in Event /\ job[p].id \in Tasks /\ job[p].task \in Task
  BY <1>1 DEF Job
<1>3. ledger' = Append(ledger, job[p].event) /\ Len(ledger) \in Nat
  BY DEF AppendStep, TypeOK
<1>4. /\ \/ pc[p] = "append" /\ pc'[p] = "write"
         \/ pc[p] = "begin" /\ pc'[p] = "validate"
         \/ pc[p] = "record" /\ pc'[p] = "release"
      /\ \A q \in Procs : q # p => pc'[q] = pc[q]
      /\ UNCHANGED <<projection, job, secrets>>
  BY DEF AppendStep, Appending, TypeOK
<1>5. Len(ledger') = Len(ledger) + 1 /\ ledger'[Len(ledger) + 1] = job[p].event
      /\ \A i \in 1..Len(ledger) : ledger'[i] = ledger[i]
  BY <1>2, <1>3, Appended
<1>. QED BY <1>2, <1>3, <1>4, <1>5

\* What the end of the validations leaves in memory, beyond VerdictFields and
\* FailureFields.
LEMMA ValidationFacts ==
    ASSUME TypeOK, NEW p \in Procs, Validation(p)
    PROVE  LET e == job[p].event
               f == job'[p].event
               new == job'[p].task
           IN /\ UNCHANGED <<ledger, projection, secrets>> /\ pc[p] = "validate"
              /\ \A q \in Procs : q # p => pc'[q] = pc[q] /\ job'[q] = job[q]
              /\ job'[p].id = job[p].id /\ job'[p].lock = job[p].lock
              /\ \/ pc'[p] = "release"
                 \/ /\ pc'[p] = "record" /\ f.action = "verification.failed"
                    /\ f.id = e.id /\ f.task = e.task /\ f.note = e.note
                 \/ /\ pc'[p] = "append" /\ f.action \in Verdicts
                    /\ f.id = e.id /\ f.task = new /\ f.note = NoNote /\ f.actor = e.actor
                    /\ f.attempt = new.attempt /\ new.attempt = job[p].task.attempt
                    /\ new.lease = job[p].task.lease
                    /\ new.revision = job[p].task.revision + 1
                    /\ new.state \in {"verified", "rejected"} /\ CanMove(job[p].task, new.state)
                    /\ f.run = e.run /\ new.run = e.run
                    /\ (new.state = "verified") = (f.action = "task.verified")
<1>. DEFINE e == job[p].event
            f == job'[p].event
<1>1. UNCHANGED <<ledger, projection, secrets>> /\ pc[p] = "validate"
  BY DEF Validation, ValidationFails, Validated
<1>2. /\ \A q \in Procs : q # p => pc'[q] = pc[q] /\ job'[q] = job[q]
      /\ job'[p].id = job[p].id /\ job'[p].lock = job[p].lock
  BY InsideFrame
<1>3. job[p] \in Job
  BY <1>1 DEF TypeOK
<1>4. e \in Event /\ job[p].task \in Task
  BY <1>3 DEF Job
<1>5. CASE ValidationFails(p)
  <2>. DEFINE g == FailedEvent(e.actor, e)
  <2>1. g.note = e.note /\ g.task = e.task /\ g.id = e.id /\ g.action = "verification.failed"
    BY <1>4 DEF FailedEvent, Event
  <2>2. \/ pc'[p] = "release"
        \/ pc'[p] = "record" /\ job'[p] = [job[p] EXCEPT !.event = g]
    BY <1>5 DEF ValidationFails, TypeOK
  <2>. HIDE DEF g
  <2>3. [job[p] EXCEPT !.event = g].event = g
    BY <1>3 DEF Job
  <2>. QED BY <1>1, <1>2, <2>1, <2>2, <2>3
<1>6. ASSUME NEW target \in {"verified", "rejected"}, Validated(p, target)
      PROVE  LET new == job'[p].task
             IN /\ pc'[p] = "append" /\ f.action \in Verdicts
                /\ f.id = e.id /\ f.task = new /\ f.note = NoNote /\ f.actor = e.actor
                /\ f.attempt = new.attempt /\ new.attempt = job[p].task.attempt
                /\ new.lease = job[p].task.lease
                /\ new.revision = job[p].task.revision + 1
                /\ new.state = target /\ CanMove(job[p].task, target)
                /\ f.run = e.run /\ new.run = e.run
                /\ (new.state = "verified") = (f.action = "task.verified")
  <2>. DEFINE m == Moved(job[p].task, target)
              new == [m EXCEPT !.run = e.run]
              action == IF target = "verified" THEN "task.verified" ELSE "task.rejected"
              g == MkEvent(action, e.actor, e.id, new)
              h == [g EXCEPT !.run = e.run]
  <2>1. /\ job'[p] = [job[p] EXCEPT !.event = h, !.task = new] /\ pc'[p] = "append"
        /\ CanMove(job[p].task, target)
    BY <1>6 DEF Validated, TypeOK
  <2>2. job'[p].event = h /\ job'[p].task = new
    <3>. HIDE DEF h, new
    <3>. QED BY <1>3, <2>1 DEF Job
  <2>3. /\ m \in Task /\ m.state = target /\ m.attempt = job[p].task.attempt
        /\ m.lease = job[p].task.lease /\ m.revision = job[p].task.revision + 1
    <3>1. target \in TASK_STATES
      BY DEF TASK_STATES
    <3>. QED BY <1>4, <3>1, MovedType, MovedFields, MovedRest
  <2>4. e.actor \in Agents /\ e.id \in Tasks /\ e.run \in Nat
    BY <1>4 DEF Event
  <2>. HIDE DEF m
  <2>5. /\ new \in Task /\ new.state = target /\ new.attempt = m.attempt
        /\ new.lease = m.lease /\ new.revision = m.revision /\ new.run = e.run
    BY <2>3, <2>4 DEF Task
  <2>6. /\ action \in Actions /\ action \in Verdicts
        /\ (target = "verified") = (action = "task.verified")
    BY DEF Actions, TerminalActions, Verdicts
  <2>. HIDE DEF new, action
  <2>7. /\ g \in Event /\ g.action = action /\ g.id = e.id /\ g.task = new
        /\ g.note = NoNote /\ g.actor = e.actor /\ g.attempt = new.attempt
    BY <2>4, <2>5, <2>6, MkEventType DEF MkEvent
  <2>. HIDE DEF g
  <2>8. /\ h.action = action /\ h.id = e.id /\ h.task = new
        /\ h.note = NoNote /\ h.actor = e.actor /\ h.attempt = new.attempt /\ h.run = e.run
    BY <2>4, <2>7 DEF Event
  <2>. QED BY <2>1, <2>2, <2>3, <2>5, <2>6, <2>8
<1>. QED BY <1>1, <1>2, <1>5, <1>6 DEF Validation

LEMMA WriteFacts ==
    ASSUME TypeOK, NEW p \in Procs, WriteProjection(p)
    PROVE  /\ pc[p] = "write" /\ pc'[p] = "release" /\ UNCHANGED <<ledger, job>>
           /\ \A q \in Procs : q # p => pc'[q] = pc[q]
           /\ job[p].id \in Tasks
           /\ \A t \in Tasks :
                projection'[t] = IF t = job[p].id THEN job[p].task ELSE projection[t]
<1>1. job[p] \in Job
  BY DEF WriteProjection, TypeOK
<1>2. job[p].id \in Tasks
  BY <1>1 DEF Job
<1>. QED BY <1>2 DEF WriteProjection, TypeOK

\* The process is between its decision and the end of what it decided.
Busy(p) == pc[p] \notin {"idle", "release", "abort"}

\* The steps that neither sign nor write: a process may only leave.
Leaves == /\ UNCHANGED <<ledger, projection>>
          /\ \A q \in Procs : \/ pc'[q] = pc[q] /\ job'[q] = job[q]
                             \/ ~Busy(q)'

LEMMA OtherSteps ==
    ASSUME TypeOK,
           \/ \E p \in Procs : Release(p) \/ AppendFails(p) \/ Crash(p)
           \/ TakesOver
           \/ Tick \/ UNCHANGED vars
    PROVE  Leaves
<1>1. ASSUME NEW p \in Procs, Release(p) \/ AppendFails(p) \/ Crash(p) PROVE Leaves
  <2>1. UNCHANGED <<ledger, projection>>
    BY <1>1 DEF Release, AppendFails, Crash
  <2>2. \A q \in Procs : \/ pc'[q] = pc[q] /\ job'[q] = job[q]
                         \/ pc'[q] \in {"idle", "release", "abort"}
    BY <1>1 DEF Release, AppendFails, Crash, TypeOK
  <2>. QED BY <2>1, <2>2 DEF Leaves, Busy
<1>2. CASE TakesOver \/ Tick \/ UNCHANGED vars
  BY <1>2 DEF TakesOver, FindStale, UnlinkStale, Tick, vars, Leaves
<1>. QED BY <1>1, <1>2

LEMMA OnlyAppendsSign ==
    ASSUME TypeOK, [Next]_vars
    PROVE  UNCHANGED ledger \/ \E p \in Procs : AppendStep(p)
<1>1. ASSUME NEW p \in Procs, Call(p) PROVE UNCHANGED ledger
  BY <1>1, CallEffects DEF CallEffect
<1>2. ASSUME NEW p \in Procs, Validation(p) \/ WriteProjection(p) PROVE UNCHANGED ledger
  BY <1>2, ValidationFacts, WriteFacts
<1>. QED BY <1>1, <1>2, OtherSteps DEF Leaves, Next, Progress, TakesOver

-----------------------------------------------------------------------------
(* One process per task.  add_task works under another lock than the other *)
(* operations, but only on a task that has no file, and they need one.     *)

\* add_task works under the creation lock, on a task that has no file yet;
\* every other operation under the task's own lock, on a task that has one.
JobBound(p) ==
    LET j == job[p]
        e == j.event
    IN /\ e.id = j.id
       /\ \/ /\ j.lock = CreationLock /\ e.action = "task.created"
             /\ pc[p] \in {"append", "write"} /\ projection[j.id] = NoTask
          \/ /\ j.lock = j.id /\ e.action # "task.created" /\ projection[j.id] # NoTask
       /\ pc[p] \in {"append", "write"} => j.task # NoTask
       /\ pc[p] \in {"begin", "validate"} <=> e.action = "verification.started"
       /\ pc[p] \in {"begin", "validate", "record"} => e.task = NoTask
       /\ pc[p] = "record" => e.action \in {"verification.failed", "verification.restatement"}
       /\ pc[p] = "append" =>
            e.task = IF e.action = "verification.failed" THEN NoTask ELSE j.task

\* Every event but a creation is about a task that has a file, and a start
\* carries no version of the task.
BusyInv ==
    /\ \A p \in Procs : Busy(p) => JobBound(p)
    /\ \A i \in 1..Len(ledger) :
         /\ ledger[i].action # "task.created" => projection[ledger[i].id] # NoTask
         /\ ledger[i].action = "verification.started" => ledger[i].task = NoTask

\* At most one process works on a task, add_task included.
LEMMA OneAtATime ==
    ASSUME TypeOK, TaskLockExclusive, BusyInv, NEW p \in Procs, NEW q \in Procs,
           Busy(p), Busy(q), job[p].id = job[q].id
    PROVE  p = q
<1>1. JobBound(p) /\ JobBound(q)
  BY DEF BusyInv
<1>2. job[p].lock = job[q].lock
  BY <1>1 DEF JobBound
<1>. QED BY <1>2 DEF TaskLockExclusive, Busy

LEMMA BusyStep ==
    ASSUME TypeOK, TypeOK', TaskLockExclusive, BusyInv, [Next]_vars
    PROVE  BusyInv'
<1>1. ASSUME NEW p \in Procs, Call(p) PROVE BusyInv'
  <2>. DEFINE j == job'[p]
              e == j.event
  <2>1. CallEffect(p) /\ Decided(p)
    BY <1>1, CallEffects, CallDecides
  <2>2. UNCHANGED <<ledger, projection>>
        /\ \A q \in Procs : q # p => pc'[q] = pc[q] /\ job'[q] = job[q]
    BY <2>1 DEF CallEffect
  <2>3. JobBound(p)'
    <3>1. NoTask.state = "absent"
      BY DEF NoTask
    <3>2. ASSUME e.action = "verification.failed",
                 NEW s \in 1..Len(ledger), ledger[s].action = "verification.started",
                 ledger[s].id = j.id, e.task = ledger[s].task,
                 NEW i \in 1..Len(ledger), IsLatest(i, j.id), j.task = ledger[i].task
          PROVE  projection[j.id] # NoTask /\ e.task = NoTask /\ j.task # NoTask
      BY <3>2 DEF BusyInv, IsLatest, IsSnapshot
    <3>. QED BY <2>1, <2>2, <3>1, <3>2
         DEF Decided, JobBound, UpdateActions, WorkerActions, Recoveries
  <2>4. \A q \in Procs : q # p /\ Busy(q)' => JobBound(q)'
    BY <2>2 DEF BusyInv, Busy, JobBound
  <2>. QED BY <2>2, <2>3, <2>4 DEF BusyInv
<1>2. ASSUME NEW p \in Procs, AppendStep(p) PROVE BusyInv'
  <2>. DEFINE e == job[p].event
              n == Len(ledger) + 1
  <2>1. Busy(p) /\ JobBound(p)
    BY <1>2, AppendFacts DEF BusyInv, Busy
  <2>2. \A q \in Procs : Busy(q)' => JobBound(q)'
    <3>1. \A q \in Procs : q # p /\ Busy(q)' => JobBound(q)'
      BY <1>2, AppendFacts DEF BusyInv, Busy, JobBound
    <3>2. Busy(p)' => JobBound(p)'
      BY <1>2, <2>1, AppendFacts DEF Busy, JobBound
    <3>. QED BY <3>1, <3>2
  <2>3. /\ e.action # "task.created" => projection[e.id] # NoTask
        /\ e.action = "verification.started" => e.task = NoTask
    BY <2>1 DEF JobBound
  <2>4. /\ 1..Len(ledger') = 1..Len(ledger) \union {n}
        /\ \A i \in 1..Len(ledger) : ledger'[i] = ledger[i]
        /\ ledger'[n] = e /\ projection' = projection
    BY <1>2, AppendFacts
  <2>. HIDE DEF n
  <2>. QED BY <2>2, <2>3, <2>4 DEF BusyInv
<1>3. ASSUME NEW p \in Procs, Validation(p) PROVE BusyInv'
  <2>1. /\ Busy(p) /\ JobBound(p) /\ pc[p] = "validate"
        /\ UNCHANGED <<ledger, projection>>
        /\ \A q \in Procs : q # p => pc'[q] = pc[q] /\ job'[q] = job[q]
    BY <1>3, ValidationFacts DEF BusyInv, Busy
  <2>2. \A q \in Procs : q # p /\ Busy(q)' => JobBound(q)'
    BY <2>1 DEF BusyInv, Busy, JobBound
  <2>3. CASE pc'[p] = "release"
    BY <2>1, <2>2, <2>3 DEF BusyInv, Busy
  <2>4. CASE pc'[p] # "release"
    <3>1. NoTask.state = "absent"
      BY DEF NoTask
    <3>2. JobBound(p)'
      BY <1>3, <2>1, <2>4, <3>1, ValidationFacts DEF JobBound, Verdicts
    <3>. QED BY <2>1, <2>2, <3>2 DEF BusyInv
  <2>. QED BY <2>3, <2>4
<1>4. ASSUME NEW p \in Procs, WriteProjection(p) PROVE BusyInv'
  <2>1. Busy(p) /\ JobBound(p) /\ job[p].task # NoTask
    BY <1>4, WriteFacts DEF BusyInv, Busy, JobBound
  <2>2. ASSUME NEW q \in Procs, Busy(q)' PROVE JobBound(q)'
    <3>1. q # p /\ Busy(q) /\ pc'[q] = pc[q] /\ job'[q] = job[q]
      BY <1>4, <2>2, WriteFacts DEF Busy
    <3>2. job[q].id # job[p].id
      BY <2>1, <3>1, OneAtATime
    <3>3. job[q].id \in Tasks
      BY <3>1 DEF Busy, TypeOK, Job
    <3>4. projection'[job[q].id] = projection[job[q].id]
      BY <1>4, <3>2, <3>3, WriteFacts
    <3>. QED BY <3>1, <3>4 DEF BusyInv, JobBound
  <2>3. \A i \in 1..Len(ledger) : ledger[i].id \in Tasks
    <3>1. \A i \in 1..Len(ledger) : ledger[i] \in Event
      BY DEF TypeOK
    <3>. QED BY <3>1 DEF Event
  <2>. QED BY <1>4, <2>1, <2>2, <2>3, WriteFacts DEF BusyInv
<1>5. ASSUME Leaves PROVE BusyInv'
  <2>1. \A q \in Procs : Busy(q)' => JobBound(q)'
    BY <1>5 DEF Leaves, BusyInv, Busy, JobBound
  <2>. QED BY <1>5, <2>1 DEF Leaves, BusyInv
<1>. QED BY <1>1, <1>2, <1>3, <1>4, <1>5, OtherSteps DEF Next, Progress, TakesOver

-----------------------------------------------------------------------------
(* The signed history.  When no process dies, what a process read when it  *)
(* took the lock is still the latest signed version when it signs.         *)

\* The latest signed version of t is task, which is NoTask when there is none.
SignedIs(t, task) ==
    \/ task = NoTask /\ \A i \in 1..Len(ledger) : ~IsSnapshot(ledger[i], t)
    \/ \E i \in 1..Len(ledger) : IsLatest(i, t) /\ ledger[i].task = task

\* Somebody has signed a version of the task and is about to write it.
Writing(t) == \E p \in Procs : pc[p] = "write" /\ job[p].id = t

\* What a process holds in memory is still right when it signs and writes it.
Fits(p) ==
    LET old == projection[job[p].id]
        e == job[p].event
    IN /\ pc[p] \in {"begin", "validate"} => job[p].task = old
       /\ pc[p] = "append" /\ e.action = "verification.failed" => job[p].task = old
       /\ pc[p] = "append" /\ e.action # "verification.failed" =>
            /\ LeaseStep(old, e)
            /\ e.action # "task.created" => LegalSuccessor(old, e)
       /\ pc[p] = "write" => SignedIs(job[p].id, job[p].task)

\* The task files, the memory of the processes and the ledger agree.
SyncInv ==
    /\ \A t \in Tasks : Writing(t) \/ SignedIs(t, projection[t])
    /\ \A p \in Procs : Fits(p)
    /\ LegalHistory

LEMMA LatestUnique ==
    ASSUME TypeOK, NEW t, NEW i, NEW k, IsLatest(i, t), IsLatest(k, t)
    PROVE  i = k
<1>1. i \in 1..Len(ledger) /\ k \in 1..Len(ledger) /\ Len(ledger) \in Nat
  BY DEF IsLatest, TypeOK
<1>2. ~(i < k) /\ ~(k < i)
  BY <1>1 DEF IsLatest
<1>. QED BY <1>1, <1>2

\* The signed versions after an event has been signed.
LEMMA AppendSigned ==
    ASSUME TypeOK, NEW p \in Procs, AppendStep(p), NEW t
    PROVE  LET e == job[p].event
           IN /\ IsSnapshot(e, t) =>
                   /\ \A i : IsLatest(i, t)' <=> i = Len(ledger) + 1
                   /\ \A task : task = e.task => SignedIs(t, task)'
              /\ ~IsSnapshot(e, t) =>
                   /\ \A i : IsLatest(i, t)' <=> IsLatest(i, t)
                   /\ \A task : SignedIs(t, task) => SignedIs(t, task)'
<1>. DEFINE e == job[p].event
            n == Len(ledger) + 1
<1>1. /\ Len(ledger) \in Nat /\ n \in Nat /\ Len(ledger') = n
      /\ 1..Len(ledger') = 1..Len(ledger) \union {n}
      /\ \A i \in 1..Len(ledger) : ledger'[i] = ledger[i] /\ i < n
      /\ ledger'[n] = e
  BY AppendFacts
<1>2. ASSUME IsSnapshot(e, t)
      PROVE  /\ \A i : IsLatest(i, t)' <=> i = n
             /\ \A task : task = e.task => SignedIs(t, task)'
  <2>1. IsSnapshot(ledger'[n], t) /\ (n + 1)..n = {}
    BY <1>1, <1>2
  <2>2. ASSUME NEW i, i = n PROVE IsLatest(i, t)'
    BY <1>1, <2>1, <2>2 DEF IsLatest, IsSnapshot
  <2>3. ASSUME NEW i, IsLatest(i, t)' PROVE i = n
    <3>1. i \in 1..n /\ (i < n => n \in (i + 1)..n)
      BY <1>1, <2>3 DEF IsLatest
    <3>2. ~(i < n)
      BY <1>1, <2>1, <2>3, <3>1 DEF IsLatest, IsSnapshot
    <3>. QED BY <1>1, <3>1, <3>2
  <2>4. n \in 1..Len(ledger') /\ ledger'[n].task = e.task
    BY <1>1
  <2>5. ASSUME NEW task, task = e.task PROVE SignedIs(t, task)'
    <3>1. PICK i : i = n
      OBVIOUS
    <3>. HIDE DEF n
    <3>. QED BY <2>2, <2>4, <2>5, <3>1 DEF SignedIs
  <2>. QED BY <2>2, <2>3, <2>5
<1>3. ASSUME ~IsSnapshot(e, t)
      PROVE  /\ \A i : IsLatest(i, t)' <=> IsLatest(i, t)
             /\ \A task : SignedIs(t, task) => SignedIs(t, task)'
  <2>1. ~IsSnapshot(ledger'[n], t)
    BY <1>1, <1>3
  <2>2. ASSUME NEW i PROVE IsLatest(i, t)' <=> IsLatest(i, t)
    <3>1. i \in 1..Len(ledger) =>
            /\ ledger'[i] = ledger[i]
            /\ (i + 1)..n = (i + 1)..Len(ledger) \union {n}
            /\ \A k \in (i + 1)..Len(ledger) : ledger'[k] = ledger[k]
      BY <1>1
    <3>2. i \in 1..n => i \in 1..Len(ledger) \/ i = n
      BY <1>1
    <3>. HIDE DEF n
    <3>. QED BY <1>1, <2>1, <3>1, <3>2 DEF IsLatest, IsSnapshot
  <2>3. ASSUME NEW task, SignedIs(t, task) PROVE SignedIs(t, task)'
    <3>1. CASE task = NoTask /\ \A i \in 1..Len(ledger) : ~IsSnapshot(ledger[i], t)
      <4>1. \A i \in 1..Len(ledger') : ~IsSnapshot(ledger'[i], t)
        <5>. HIDE DEF n
        <5>. QED BY <1>1, <2>1, <3>1
      <4>. QED BY <3>1, <4>1 DEF SignedIs, IsSnapshot
    <3>2. ASSUME NEW i \in 1..Len(ledger), IsLatest(i, t), ledger[i].task = task
          PROVE  SignedIs(t, task)'
      <4>1. i \in 1..Len(ledger') /\ ledger'[i] = ledger[i] /\ IsLatest(i, t)'
        <5>. HIDE DEF n
        <5>. QED BY <1>1, <2>2, <3>2
      <4>. QED BY <3>2, <4>1 DEF SignedIs
    <3>. QED BY <2>3, <3>1, <3>2 DEF SignedIs
  <2>. QED BY <2>2, <2>3
<1>. QED BY <1>2, <1>3

\* Between two signatures the ledger says the same of every task.
LEMMA SameSigned ==
    ASSUME ledger' = ledger
    PROVE  \A t, task : SignedIs(t, task)' <=> SignedIs(t, task)
BY DEF SignedIs, IsLatest, IsSnapshot

\* The process that is about to sign works on a task nobody is writing.
LEMMA NotWriting ==
    ASSUME TypeOK, TaskLockExclusive, BusyInv, NEW p \in Procs, Busy(p), pc[p] # "write"
    PROVE  ~Writing(job[p].id)
BY OneAtATime DEF Writing, Busy

LEMMA SyncCall ==
    ASSUME TypeOK, TypeOK', TaskLockExclusive', BusyInv', SyncInv, NEW p \in Procs, Call(p)
    PROVE  SyncInv'
<1>. DEFINE j == job'[p]
            e == j.event
<1>1. CallEffect(p) /\ Decided(p)
  BY CallEffects, CallDecides
<1>2. /\ UNCHANGED <<ledger, projection>> /\ pc[p] = "idle"
      /\ \A q \in Procs : q # p => pc'[q] = pc[q] /\ job'[q] = job[q]
  BY <1>1 DEF CallEffect
<1>3. \A t, task : SignedIs(t, task)' <=> SignedIs(t, task)
  BY <1>2, SameSigned
<1>4. \A t \in Tasks : Writing(t)' \/ SignedIs(t, projection[t])
  BY <1>2 DEF SyncInv, Writing
<1>5. ~Writing(j.id) /\ j.id \in Tasks
  <2>1. Busy(p)'
    BY <1>1 DEF CallEffect, Appending, Busy
  <2>2. \A q \in Procs : Busy(q)' /\ job'[q].id = j.id => q = p
    BY <2>1 DEF BusyInv, JobBound, TaskLockExclusive, Busy
  <2>3. \A q \in Procs : pc[q] = "write" => q # p /\ Busy(q)' /\ job'[q] = job[q]
    BY <1>2 DEF Busy
  <2>4. job'[p] \in Job
    BY <2>1 DEF Busy, TypeOK
  <2>. QED BY <2>2, <2>3, <2>4 DEF Writing, Job
<1>6. SignedIs(j.id, projection[j.id])
  BY <1>5 DEF SyncInv
<1>7. ASSUME NEW i \in 1..Len(ledger), IsLatest(i, j.id)
      PROVE  /\ ledger[i].task = projection[j.id]
             /\ SignedIs(j.id, ledger[i].task)
  <2>1. IsSnapshot(ledger[i], j.id)
    BY <1>7 DEF IsLatest
  <2>2. \A k \in 1..Len(ledger) : IsLatest(k, j.id) => k = i
    BY <1>7, LatestUnique
  <2>. QED BY <1>6, <1>7, <2>1, <2>2 DEF SignedIs
<1>8. Fits(p)'
  <2>. DEFINE old == projection[j.id]
  <2>1. CASE pc'[p] = "append" /\ e.action = "task.created" /\ e.task.lease = NoLease
    <3>1. e.task.lease.holder = Nobody
      BY <2>1 DEF NoLease
    <3>2. LeaseStep(old, e)
      BY <2>1, <3>1 DEF LeaseStep, WorkerActions
    <3>. QED BY <1>2, <2>1, <3>2 DEF Fits
  <2>2. CASE /\ pc'[p] = "append" /\ e.action \in UpdateActions
             /\ LegalSuccessor(old, e) /\ LeaseStep(old, e)
    BY <1>2, <2>2 DEF Fits, UpdateActions, WorkerActions, Recoveries
  <2>3. CASE pc'[p] = "begin" /\ j.task = old
    BY <1>2, <2>3 DEF Fits
  <2>4. CASE /\ pc'[p] \in {"append", "write"} /\ e.action = "verification.failed"
             /\ \E i \in 1..Len(ledger) : IsLatest(i, j.id) /\ j.task = ledger[i].task
    <3>1. j.task = old /\ SignedIs(j.id, j.task)
      BY <1>7, <2>4
    <3>2. SignedIs(job[p].id, job[p].task)'
      BY <1>2, <3>1 DEF SignedIs, IsLatest, IsSnapshot
    <3>. QED BY <1>2, <2>4, <3>1, <3>2 DEF Fits
  <2>5. CASE pc'[p] = "record"
    BY <2>5 DEF Fits
  <2>. QED BY <1>1, <2>1, <2>2, <2>3, <2>4, <2>5 DEF Decided
<1>9. ASSUME NEW q \in Procs, q # p PROVE Fits(q)'
  <2>1. Fits(q) /\ pc'[q] = pc[q] /\ job'[q] = job[q]
    BY <1>2, <1>9 DEF SyncInv
  <2>2. SignedIs(job[q].id, job[q].task) => SignedIs(job[q].id, job[q].task)'
    BY <1>2, <2>1 DEF SignedIs, IsLatest, IsSnapshot
  <2>. QED BY <1>2, <2>1, <2>2 DEF Fits
<1>10. LegalHistory'
  BY <1>2 DEF SyncInv, LegalHistory, IsSnapshot
<1>11. \A t \in Tasks : Writing(t)' \/ SignedIs(t, projection[t])'
  BY <1>2, <1>3, <1>4 DEF SignedIs, IsLatest, IsSnapshot
<1>. QED BY <1>8, <1>9, <1>10, <1>11 DEF SyncInv

LEMMA SyncAppend ==
    ASSUME TypeOK, TypeOK', TaskLockExclusive, BusyInv, SyncInv, NEW p \in Procs, AppendStep(p)
    PROVE  SyncInv'
<1>. DEFINE j == job[p]
            e == j.event
            n == Len(ledger) + 1
<1>1. /\ e \in Event /\ j.id \in Tasks
      /\ Len(ledger) \in Nat /\ n \in Nat /\ Len(ledger') = n
      /\ 1..Len(ledger') = 1..Len(ledger) \union {n}
      /\ \A i \in 1..Len(ledger) : ledger'[i] = ledger[i] /\ i < n
      /\ ledger'[n] = e
      /\ UNCHANGED <<projection, job>>
      /\ \A q \in Procs : q # p => pc'[q] = pc[q]
      /\ \/ pc[p] = "append" /\ pc'[p] = "write"
         \/ pc[p] = "begin" /\ pc'[p] = "validate"
         \/ pc[p] = "record" /\ pc'[p] = "release"
  BY AppendFacts
<1>2. Busy(p) /\ JobBound(p) /\ Fits(p) /\ e.id = j.id
  BY <1>1 DEF BusyInv, SyncInv, Busy, JobBound
<1>3. ~Writing(j.id) /\ SignedIs(j.id, projection[j.id])
  BY <1>1, <1>2, NotWriting DEF SyncInv
<1>4. \A q \in Procs : q # p /\ Busy(q) => job[q].id # j.id
  BY <1>2, OneAtATime
<1>5. \A t : t # j.id => ~IsSnapshot(e, t)
  BY <1>2 DEF IsSnapshot
<1>6. \A t, task : t # j.id /\ SignedIs(t, task) => SignedIs(t, task)'
  BY <1>5, AppendSigned
<1>7. pc'[p] = "write" => SignedIs(j.id, j.task)'
  <2>1. CASE pc[p] = "append" /\ e.action = "verification.failed"
    <3>1. e.task = NoTask /\ j.task = projection[j.id]
      BY <1>2, <2>1 DEF JobBound, Fits
    <3>2. ~IsSnapshot(e, j.id)
      BY <3>1 DEF IsSnapshot
    <3>3. \A t, task : t = j.id /\ SignedIs(t, task) => SignedIs(t, task)'
      BY <3>2, AppendSigned
    <3>. QED BY <1>1, <1>3, <3>1, <3>3
  <2>2. CASE pc[p] = "append" /\ e.action # "verification.failed"
    <3>1. e.task = j.task /\ j.task # NoTask
      BY <1>2, <2>2 DEF JobBound
    <3>2. IsSnapshot(e, j.id)
      BY <1>2, <3>1 DEF IsSnapshot
    <3>3. \A t, task : t = j.id /\ task = e.task => SignedIs(t, task)'
      BY <3>2, AppendSigned
    <3>. QED BY <1>1, <3>1, <3>3
  <2>. QED BY <1>1, <2>1, <2>2
<1>8. ASSUME NEW q \in Procs, q # p PROVE Fits(q)'
  <2>1. Fits(q) /\ pc'[q] = pc[q] /\ job'[q] = job[q]
    BY <1>1, <1>8 DEF SyncInv
  <2>2. pc[q] = "write" => job[q].id # j.id
    BY <1>4, <1>8 DEF Busy
  <2>3. pc[q] = "write" => SignedIs(job[q].id, job[q].task)'
    <3>1. \A t, task : t = job[q].id /\ task = job[q].task /\ pc[q] = "write"
                         => SignedIs(t, task)'
      BY <1>6, <2>1, <2>2 DEF Fits
    <3>. QED BY <2>1, <3>1
  <2>. QED BY <1>1, <2>1, <2>3 DEF Fits
<1>9. Fits(p)'
  BY <1>1, <1>2, <1>7 DEF Fits
<1>10. ASSUME NEW t \in Tasks PROVE Writing(t)' \/ SignedIs(t, projection[t])'
  <2>1. CASE t # j.id
    <3>1. Writing(t) => Writing(t)'
      BY <1>1 DEF Writing
    <3>2. SignedIs(t, projection[t]) => SignedIs(t, projection[t])'
      <4>1. \A task : task = projection[t] /\ SignedIs(t, task) => SignedIs(t, task)'
        BY <1>6, <2>1
      <4>. QED BY <1>1, <4>1
    <3>. QED BY <3>1, <3>2 DEF SyncInv
  <2>2. CASE t = j.id /\ pc[p] = "append"
    BY <1>1, <2>2 DEF Writing
  <2>3. CASE t = j.id /\ pc[p] # "append"
    <3>1. ~IsSnapshot(e, t)
      BY <1>1, <1>2, <2>3 DEF JobBound, IsSnapshot
    <3>2. \A task : task = projection[t] => SignedIs(t, task)'
      BY <1>3, <2>3, <3>1, AppendSigned
    <3>. QED BY <1>1, <3>2
  <2>. QED BY <2>1, <2>2, <2>3
<1>11. LegalHistory'
  <2>. DEFINE Legal(t, k) == \E i \in 1..(k - 1) :
                /\ IsSnapshot(ledger'[i], t)
                /\ \A m \in (i + 1)..(k - 1) : ~IsSnapshot(ledger'[m], t)
                /\ LegalSuccessor(ledger'[i].task, ledger'[k])
  <2>1. ASSUME NEW t \in Tasks, NEW k \in 1..Len(ledger),
               IsSnapshot(ledger'[k], t), ledger'[k].action # "task.created"
        PROVE  Legal(t, k)
    <3>1. ledger'[k] = ledger[k] /\ 1..(k - 1) \subseteq 1..Len(ledger)
      BY <1>1
    <3>2. PICK i \in 1..(k - 1) :
             /\ IsSnapshot(ledger[i], t)
             /\ \A m \in (i + 1)..(k - 1) : ~IsSnapshot(ledger[m], t)
             /\ LegalSuccessor(ledger[i].task, ledger[k])
      BY <2>1, <3>1 DEF SyncInv, LegalHistory
    <3>3. (i + 1)..(k - 1) \subseteq 1..(k - 1)
      BY <1>1
    <3>4. ledger'[i] = ledger[i] /\ \A m \in (i + 1)..(k - 1) : ledger'[m] = ledger[m]
      BY <1>1, <3>1, <3>3
    <3>. QED BY <3>1, <3>2, <3>4
  <2>2. ASSUME NEW t \in Tasks, IsSnapshot(e, t), e.action # "task.created"
        PROVE  Legal(t, n)
    <3>1. t = j.id /\ e.task # NoTask
      BY <1>2, <2>2 DEF IsSnapshot
    <3>2. pc[p] = "append" /\ e.action # "verification.failed" /\ projection[t] # NoTask
      BY <1>1, <1>2, <2>2, <3>1 DEF JobBound
    <3>3. LegalSuccessor(projection[t], e)
      BY <1>2, <2>2, <3>1, <3>2 DEF Fits
    <3>4. PICK i \in 1..Len(ledger) : IsLatest(i, t) /\ ledger[i].task = projection[t]
      BY <1>3, <3>1, <3>2 DEF SignedIs
    <3>5. n - 1 = Len(ledger) /\ \A m \in (i + 1)..Len(ledger) : m \in 1..Len(ledger)
      BY <1>1
    <3>. HIDE DEF n
    <3>. QED BY <1>1, <3>3, <3>4, <3>5 DEF IsLatest
  <2>3. \A t \in Tasks, k \in 1..Len(ledger') :
           IsSnapshot(ledger'[k], t) /\ ledger'[k].action # "task.created" => Legal(t, k)
    <3>. HIDE DEF n, Legal
    <3>. QED BY <1>1, <2>1, <2>2
  <2>. QED BY <2>3 DEF LegalHistory, IsSnapshot
<1>. QED BY <1>8, <1>9, <1>10, <1>11 DEF SyncInv

LEMMA SyncStep ==
    ASSUME TypeOK, TypeOK', TaskLockExclusive, TaskLockExclusive',
           BusyInv, BusyInv', SyncInv, ~torn', [Next]_vars
    PROVE  SyncInv'
<1>1. ASSUME NEW p \in Procs, Validation(p) PROVE SyncInv'
  <2>. DEFINE old == projection[job[p].id]
              e == job[p].event
              f == job'[p].event
              new == job'[p].task
  <2>1. /\ UNCHANGED <<ledger, projection>> /\ pc[p] = "validate"
        /\ \A q \in Procs : q # p => pc'[q] = pc[q] /\ job'[q] = job[q]
        /\ job'[p].id = job[p].id /\ pc'[p] \in {"append", "record", "release"}
    BY <1>1, ValidationFacts
  <2>2. \A t, task : SignedIs(t, task)' <=> SignedIs(t, task)
    BY <2>1, SameSigned
  <2>3. job[p].task = old
    BY <2>1 DEF SyncInv, Fits
  <2>4. old \in Task
    <3>1. job[p] \in Job
      BY <2>1 DEF TypeOK
    <3>. QED BY <2>3, <3>1 DEF Job
  <2>5. pc'[p] = "append" => f.action \in Verdicts /\ LegalSuccessor(old, f) /\ LeaseStep(old, f)
    <3>. SUFFICES ASSUME pc'[p] = "append" PROVE f.action \in Verdicts /\ LegalSuccessor(old, f)
                                                 /\ LeaseStep(old, f)
      OBVIOUS
    <3>1. /\ f.action \in Verdicts /\ f.task = new /\ new.attempt = old.attempt
          /\ new.lease = old.lease /\ new.revision = old.revision + 1
          /\ CanMove(old, new.state)
      BY <1>1, <2>3, ValidationFacts
    <3>2. old.attempt + 0 = old.attempt
      BY <2>4 DEF Task
    <3>3. LegalSuccessor(old, f)
      BY <3>1, <3>2 DEF LegalSuccessor, Verdicts
    <3>4. LeaseStep(old, f)
      BY <3>1 DEF LeaseStep, Verdicts, WorkerActions, Recoveries
    <3>. QED BY <3>1, <3>3, <3>4
  <2>6. Fits(p)'
    BY <2>1, <2>5 DEF Fits, Verdicts
  <2>7. ASSUME NEW q \in Procs, q # p PROVE Fits(q)'
    <3>1. Fits(q) /\ pc'[q] = pc[q] /\ job'[q] = job[q]
      BY <2>1, <2>7 DEF SyncInv
    <3>. QED BY <2>1, <3>1 DEF Fits, SignedIs, IsLatest, IsSnapshot
  <2>8. \A t \in Tasks : Writing(t) => Writing(t)'
    BY <2>1 DEF Writing
  <2>. QED BY <2>1, <2>6, <2>7, <2>8
       DEF SyncInv, SignedIs, IsLatest, IsSnapshot, LegalHistory
<1>2. ASSUME NEW p \in Procs, WriteProjection(p) PROVE SyncInv'
  <2>1. /\ pc[p] = "write" /\ pc'[p] = "release" /\ UNCHANGED <<ledger, job>>
        /\ \A q \in Procs : q # p => pc'[q] = pc[q]
        /\ job[p].id \in Tasks
        /\ \A t \in Tasks :
             projection'[t] = IF t = job[p].id THEN job[p].task ELSE projection[t]
    BY <1>2, WriteFacts
  <2>2. SignedIs(job[p].id, job[p].task) /\ Busy(p)
    BY <2>1 DEF SyncInv, Fits, Busy
  <2>3. ASSUME NEW q \in Procs PROVE Fits(q)'
    <3>1. CASE q = p
      BY <2>1, <3>1 DEF Fits
    <3>2. CASE ~Busy(q)
      BY <2>1, <3>2 DEF Fits, Busy
    <3>3. CASE q # p /\ Busy(q)
      <4>1. job[q].id # job[p].id /\ job[q].id \in Tasks
        <5>1. job[q] \in Job
          BY <3>3 DEF Busy, TypeOK
        <5>. QED BY <2>2, <3>3, <5>1, OneAtATime DEF Job
      <4>2. projection'[job[q].id] = projection[job[q].id] /\ Fits(q)
        BY <2>1, <4>1 DEF SyncInv
      <4>. QED BY <2>1, <3>3, <4>2 DEF Fits, SignedIs, IsLatest, IsSnapshot
    <3>. QED BY <3>1, <3>2, <3>3
  <2>4. ASSUME NEW t \in Tasks PROVE Writing(t)' \/ SignedIs(t, projection[t])'
    <3>1. CASE t = job[p].id
      <4>1. projection'[t] = job[p].task /\ SignedIs(t, job[p].task)
        BY <2>1, <2>2, <3>1
      <4>. QED BY <2>1, <4>1 DEF SignedIs, IsLatest, IsSnapshot
    <3>2. CASE t # job[p].id
      <4>1. Writing(t) => Writing(t)'
        BY <2>1, <3>2 DEF Writing
      <4>2. SignedIs(t, projection[t]) => SignedIs(t, projection[t])'
        BY <2>1, <3>2 DEF SignedIs, IsLatest, IsSnapshot
      <4>. QED BY <4>1, <4>2 DEF SyncInv
    <3>. QED BY <3>1, <3>2
  <2>. QED BY <2>1, <2>3, <2>4 DEF SyncInv, LegalHistory, IsSnapshot
<1>3. ASSUME Leaves, \A q \in Procs : pc[q] = "write" => pc'[q] = "write" /\ job'[q] = job[q]
      PROVE  SyncInv'
  <2>1. ASSUME NEW q \in Procs PROVE Fits(q)'
    <3>1. CASE ~Busy(q)'
      BY <3>1 DEF Fits, Busy
    <3>2. CASE pc'[q] = pc[q] /\ job'[q] = job[q]
      <4>1. Fits(q)
        BY DEF SyncInv
      <4>. QED BY <1>3, <3>2, <4>1 DEF Leaves, Fits, SignedIs, IsLatest, IsSnapshot
    <3>. QED BY <1>3, <3>1, <3>2 DEF Leaves
  <2>2. \A t \in Tasks : Writing(t) => Writing(t)'
    BY <1>3 DEF Writing
  <2>. QED BY <1>3, <2>1, <2>2
       DEF Leaves, SyncInv, SignedIs, IsLatest, IsSnapshot, LegalHistory
<1>4. ASSUME \/ \E p \in Procs : Release(p) \/ AppendFails(p) \/ Crash(p)
             \/ TakesOver
             \/ Tick \/ UNCHANGED vars
      PROVE  SyncInv'
  <2>1. Leaves
    BY <1>4, OtherSteps
  <2>2. ASSUME NEW p \in Procs, Crash(p)
        PROVE  \A q \in Procs : pc[q] = "write" => pc'[q] = "write" /\ job'[q] = job[q]
    <3>1. torn' = (torn \/ pc[p] = "write")
      BY <2>2 DEF Crash
    <3>2. pc[p] # "write"
      BY <3>1, Zenon
    <3>. QED BY <2>2, <3>2 DEF Crash, TypeOK
  <2>3. ASSUME ~ \E p \in Procs : Crash(p)
        PROVE  \A q \in Procs : pc[q] = "write" => pc'[q] = "write" /\ job'[q] = job[q]
    BY <1>4, <2>3 DEF Release, AppendFails, Appending, TakesOver, FindStale, UnlinkStale, Tick,
                      vars, TypeOK
  <2>. QED BY <1>3, <2>1, <2>2, <2>3
<1>. QED BY <1>1, <1>2, <1>4, SyncCall, SyncAppend DEF Next, Progress, TakesOver

-----------------------------------------------------------------------------
(* Leases *)

\* The last claim of t was signed with this token, and no recovery since.
Leased(t, token) ==
    \E c \in 1..Len(ledger) :
        /\ ledger[c].action = "task.claimed" /\ ledger[c].id = t /\ ledger[c].token = token
        /\ \A j \in (c + 1)..Len(ledger) : ledger[j].id = t =>
             ledger[j].action \notin Recoveries \union {"task.claimed"}

\* The lease in the latest signed version is the one of the last claim.
LeaseBacked ==
    \A i \in 1..Len(ledger) : \A t \in Tasks :
        IsLatest(i, t) /\ ledger[i].task.lease.holder # Nobody => Leased(t, ledger[i].task.lease.token)

LeaseInv == LeaseBacked /\ TokensCurrent

\* The fence of a token stands until the next claim or recovery is signed.
LEMMA LeasedKept ==
    ASSUME TypeOK, NEW p \in Procs, AppendStep(p), NEW t, NEW token,
           \/ /\ Leased(t, token)
              /\ job[p].event.id = t => job[p].event.action \notin Recoveries \union {"task.claimed"}
           \/ /\ job[p].event.id = t /\ job[p].event.action = "task.claimed"
              /\ job[p].event.token = token
    PROVE  Leased(t, token)'
<1>. DEFINE e == job[p].event
            n == Len(ledger) + 1
<1>1. /\ Len(ledger) \in Nat /\ n \in Nat /\ Len(ledger') = n
      /\ 1..Len(ledger') = 1..Len(ledger) \union {n}
      /\ \A i \in 1..Len(ledger) : ledger'[i] = ledger[i] /\ i < n
      /\ ledger'[n] = e
  BY AppendFacts
<1>2. CASE e.id = t /\ e.action = "task.claimed" /\ e.token = token
  <2>1. (n + 1)..n = {}
    BY <1>1
  <2>. HIDE DEF n
  <2>. QED BY <1>1, <1>2, <2>1 DEF Leased
<1>3. CASE Leased(t, token) /\ (e.id = t => e.action \notin Recoveries \union {"task.claimed"})
  <2>1. PICK c \in 1..Len(ledger) :
          /\ ledger[c].action = "task.claimed" /\ ledger[c].id = t /\ ledger[c].token = token
          /\ \A k \in (c + 1)..Len(ledger) : ledger[k].id = t =>
               ledger[k].action \notin Recoveries \union {"task.claimed"}
    BY <1>3 DEF Leased
  <2>2. /\ (c + 1)..n = (c + 1)..Len(ledger) \union {n}
        /\ (c + 1)..Len(ledger) \subseteq 1..Len(ledger)
    BY <1>1
  <2>. HIDE DEF n
  <2>3. \A k \in (c + 1)..n : ledger'[k].id = t =>
          ledger'[k].action \notin Recoveries \union {"task.claimed"}
    BY <1>1, <1>3, <2>1, <2>2
  <2>4. c \in 1..Len(ledger') /\ ledger'[c] = ledger[c]
    BY <1>1
  <2>. QED BY <1>1, <2>1, <2>3, <2>4 DEF Leased
<1>. QED BY <1>2, <1>3

LEMMA LeaseInvStep ==
    ASSUME TypeOK, TypeOK', TaskLockExclusive, BusyInv, SyncInv, LeaseInv, [Next]_vars
    PROVE  LeaseInv'
<1>1. CASE UNCHANGED ledger
  BY <1>1 DEF LeaseInv, LeaseBacked, TokensCurrent, Leased, IsLatest, IsSnapshot
<1>2. ASSUME NEW p \in Procs, AppendStep(p) PROVE LeaseInv'
  <2>. DEFINE j == job[p]
              e == j.event
              old == projection[j.id]
              n == Len(ledger) + 1
  <2>1. /\ e \in Event /\ j.id \in Tasks
        /\ Len(ledger) \in Nat /\ n \in Nat /\ Len(ledger') = n
        /\ 1..Len(ledger') = 1..Len(ledger) \union {n}
        /\ \A i \in 1..Len(ledger) : ledger'[i] = ledger[i] /\ i < n
        /\ ledger'[n] = e
        /\ pc[p] \in {"append", "begin", "record"}
    BY <1>2, AppendFacts
  <2>2. Busy(p) /\ JobBound(p) /\ Fits(p) /\ e.id = j.id
    BY <2>1 DEF BusyInv, SyncInv, Busy, JobBound
  <2>3. SignedIs(j.id, old)
    BY <2>1, <2>2, NotWriting DEF SyncInv
  <2>4. old.lease.holder # Nobody => Leased(j.id, old.lease.token)
    <3>1. ASSUME NEW i \in 1..Len(ledger), IsLatest(i, j.id), ledger[i].task = old,
                 old.lease.holder # Nobody
          PROVE  Leased(j.id, old.lease.token)
      BY <2>1, <3>1 DEF LeaseInv, LeaseBacked
    <3>2. NoTask.lease.holder = Nobody
      BY DEF NoTask, NoLease
    <3>. QED BY <2>3, <3>1, <3>2 DEF SignedIs
  <2>5. ASSUME e.action \in WorkerActions \union Recoveries \union {"task.claimed"}
        PROVE  pc[p] = "append" /\ LeaseStep(old, e) /\ IsSnapshot(e, j.id)
    <3>1. /\ e.action # "verification.started" /\ e.action # "verification.failed"
          /\ e.action # "verification.restatement"
      BY <2>5 DEF WorkerActions, Recoveries
    <3>2. pc[p] = "append"
      BY <2>1, <2>2, <3>1 DEF JobBound
    <3>. QED BY <2>2, <3>1, <3>2 DEF JobBound, Fits, IsSnapshot
  <2>6. LeaseBacked'
    <3>1. ASSUME NEW t \in Tasks, NEW i, IsLatest(i, t)', ledger'[i].task.lease.holder # Nobody
          PROVE  \A token : token = ledger'[i].task.lease.token => Leased(t, token)'
      <4>1. CASE IsSnapshot(e, t)
        <5>1. i = n /\ t = j.id /\ e.task # NoTask
          BY <1>2, <2>2, <3>1, <4>1, AppendSigned DEF IsSnapshot
        <5>2. pc[p] = "append" /\ LeaseStep(old, e)
          BY <2>1, <2>2, <5>1 DEF JobBound, Fits
        <5>3. ledger'[i].task = e.task /\ e.task.lease.holder # Nobody
          BY <2>1, <3>1, <5>1
        <5>4. CASE e.action = "task.claimed"
          <6>1. e.token = e.task.lease.token
            BY <5>2, <5>3, <5>4 DEF LeaseStep
          <6>. QED BY <1>2, <2>2, <5>1, <5>3, <5>4, <6>1, LeasedKept
        <5>5. CASE e.action # "task.claimed"
          <6>1. /\ e.action \notin Recoveries /\ old.lease.holder # Nobody
                /\ e.task.lease.token = old.lease.token
            BY <5>2, <5>3, <5>5 DEF LeaseStep
          <6>2. Leased(t, old.lease.token)
            BY <2>4, <5>1, <6>1
          <6>. QED BY <1>2, <5>3, <5>5, <6>1, <6>2, LeasedKept
        <5>. QED BY <5>4, <5>5
      <4>2. CASE ~IsSnapshot(e, t)
        <5>1. IsLatest(i, t)
          BY <1>2, <3>1, <4>2, AppendSigned
        <5>2. i \in 1..Len(ledger) /\ ledger'[i] = ledger[i]
          BY <2>1, <5>1 DEF IsLatest
        <5>3. Leased(t, ledger[i].task.lease.token)
          BY <3>1, <5>1, <5>2 DEF LeaseInv, LeaseBacked
        <5>4. e.id = t => e.action \notin Recoveries \union {"task.claimed"}
          BY <2>2, <2>5, <4>2
        <5>. QED BY <1>2, <5>2, <5>3, <5>4, LeasedKept
      <4>. QED BY <4>1, <4>2
    <3>2. \A i : \A t \in Tasks : IsLatest(i, t)' /\ ledger'[i].task.lease.holder # Nobody =>
             Leased(t, ledger[i].task.lease.token)'
      BY <3>1
    <3>. QED BY <3>2 DEF LeaseBacked
  <2>7. TokensCurrent'
    <3>. DEFINE Fence(i) == \E c \in 1..(i - 1) :
                  /\ ledger'[c].action = "task.claimed"
                  /\ ledger'[c].id = ledger'[i].id
                  /\ ledger'[c].token = ledger'[i].token
                  /\ \A k \in (c + 1)..(i - 1) : ledger'[k].id = ledger'[i].id =>
                       ledger'[k].action \notin {"task.claimed", "task.lease_recovered",
                                                 "task.lease_force_recovered"}
    <3>1. ASSUME NEW i \in 1..Len(ledger), ledger'[i].action \in WorkerActions PROVE Fence(i)
      <4>1. ledger'[i] = ledger[i] /\ 1..(i - 1) \subseteq 1..Len(ledger)
        BY <2>1
      <4>2. PICK c \in 1..(i - 1) :
                  /\ ledger[c].action = "task.claimed"
                  /\ ledger[c].id = ledger[i].id
                  /\ ledger[c].token = ledger[i].token
                  /\ \A k \in (c + 1)..(i - 1) : ledger[k].id = ledger[i].id =>
                       ledger[k].action \notin {"task.claimed", "task.lease_recovered",
                                                "task.lease_force_recovered"}
        BY <3>1, <4>1 DEF LeaseInv, TokensCurrent, WorkerActions
      <4>3. (c + 1)..(i - 1) \subseteq 1..(i - 1)
        BY <2>1
      <4>4. ledger'[c] = ledger[c] /\ \A k \in (c + 1)..(i - 1) : ledger'[k] = ledger[k]
        BY <2>1, <4>1, <4>3
      <4>. QED BY <4>1, <4>2, <4>4
    <3>2. ASSUME e.action \in WorkerActions PROVE Fence(n)
      <4>1. old.lease.holder # Nobody /\ e.token = old.lease.token
        BY <2>5, <3>2 DEF LeaseStep
      <4>2. Leased(j.id, e.token)
        BY <2>4, <4>1
      <4>3. PICK c \in 1..Len(ledger) :
          /\ ledger[c].action = "task.claimed" /\ ledger[c].id = j.id /\ ledger[c].token = e.token
          /\ \A k \in (c + 1)..Len(ledger) : ledger[k].id = j.id =>
               ledger[k].action \notin Recoveries \union {"task.claimed"}
        BY <4>2 DEF Leased
      <4>4. n - 1 = Len(ledger) /\ (c + 1)..Len(ledger) \subseteq 1..Len(ledger)
        BY <2>1
      <4>. HIDE DEF n
      <4>5. \A k \in (c + 1)..(n - 1) : ledger'[k].id = e.id =>
              ledger'[k].action \notin {"task.claimed", "task.lease_recovered",
                                        "task.lease_force_recovered"}
        BY <2>1, <2>2, <4>3, <4>4 DEF Recoveries
      <4>. QED BY <2>1, <2>2, <4>3, <4>4, <4>5
    <3>3. \A i \in 1..Len(ledger') : ledger'[i].action \in WorkerActions => Fence(i)
      <4>. HIDE DEF n, Fence
      <4>. QED BY <2>1, <3>1, <3>2
    <3>. QED BY <3>3 DEF TokensCurrent, WorkerActions
  <2>. QED BY <2>6, <2>7 DEF LeaseInv
<1>. QED BY <1>1, <1>2, OnlyAppendsSign

LEMMA BusyHeld == Spec => [](~robbed => BusyInv)
<1>1. Init => BusyInv
  BY DEF Init, BusyInv, Busy
<1>2. TypeOK /\ TypeOK' /\ LockInv /\ (~robbed => BusyInv) /\ [Next]_vars => (~robbed' => BusyInv')
  BY HistoriesStay, BusyStep DEF LockInv
<1>. QED BY <1>1, <1>2, TypeCorrect, LocksHeld, PTL DEF Spec

\* The invariant behind the three theorems that follow.
HistoryInv == Orderly => SyncInv /\ LeaseInv

LEMMA HistoryInvariant == Spec => []HistoryInv
<1>1. Init => HistoryInv
  <2>. SUFFICES ASSUME Init PROVE HistoryInv
    OBVIOUS
  <2>2. \A t \in Tasks : SignedIs(t, projection[t])
    BY DEF Init, SignedIs
  <2>3. \A p \in Procs : Fits(p)
    BY DEF Init, Fits
  <2>4. LegalHistory /\ TokensCurrent /\ LeaseBacked
    BY DEF Init, LegalHistory, TokensCurrent, LeaseBacked
  <2>. QED BY <2>2, <2>3, <2>4 DEF HistoryInv, SyncInv, LeaseInv
<1>2. ASSUME TypeOK, TypeOK', LockInv, LockInv', ~robbed => BusyInv, ~robbed' => BusyInv',
             HistoryInv, [Next]_vars
      PROVE  HistoryInv'
  <2>. SUFFICES ASSUME ~robbed', ~torn' PROVE SyncInv' /\ LeaseInv'
    BY DEF HistoryInv, Orderly
  <2>1. ~robbed /\ ~torn
    BY <1>2, HistoriesStay
  <2>2. /\ TaskLockExclusive /\ TaskLockExclusive' /\ BusyInv /\ BusyInv'
        /\ SyncInv /\ LeaseInv
    BY <1>2, <2>1 DEF LockInv, HistoryInv, Orderly
  <2>. QED BY <1>2, <2>2, SyncStep, LeaseInvStep
<1>. QED BY <1>1, <1>2, TypeCorrect, LocksHeld, BusyHeld, PTL DEF Spec

\* Every signed version of a task, but the first, follows the signed version
\* before it by a move of the state table: workspace.py builds it from the task
\* file, and the task file is the latest signed version until a process dies
\* between Ledger.append and atomic_write_json, or loses its lock to a waiter.
\* Deaths at any other point and take-overs of their locks do not disturb it.
THEOREM HistoryLegal == Spec => []SignedHistoryLegal
<1>1. HistoryInv => SignedHistoryLegal
  BY DEF HistoryInv, SyncInv, SignedHistoryLegal
<1>. QED BY <1>1, HistoryInvariant, PTL

\* An event of a worker carries the token of the last claim of the task, with
\* no recovery signed since: recover_lease fences the worker off, although the
\* tokens it was given stay valid strings.  Like HistoryLegal it holds until the
\* file is left behind the ledger or a lock is taken from a live process.
THEOREM LeasesFence == Spec => []LeaseFenced
<1>1. HistoryInv => LeaseFenced
  BY DEF HistoryInv, LeaseInv, LeaseFenced
<1>. QED BY <1>1, HistoryInvariant, PTL

\* The task file is the latest signed version of the task, but for the one a
\* process has just signed and is about to write: what audit_projections of
\* workspace.py looks for has no other causes than a death between the two
\* writes and a lock taken from a live process.
THEOREM FilesFollowLedger == Spec => []ProjectionFollowsLedger
<1>1. ASSUME TypeOK, ~robbed => BusyInv, HistoryInv PROVE ProjectionFollowsLedger
  <2>. SUFFICES ASSUME Orderly
                PROVE  \A t \in Tasks :
                         /\ projection[t] # NoTask => \E i \in 1..Len(ledger) : IsLatest(i, t)
                         /\ \A i \in 1..Len(ledger) : IsLatest(i, t) =>
                              \/ projection[t] = ledger[i].task
                              \/ \E p \in Procs : pc[p] = "write" /\ job[p].id = t
                                                 /\ job[p].task = ledger[i].task
    BY DEF ProjectionFollowsLedger
  <2>0. BusyInv /\ SyncInv
    BY <1>1 DEF Orderly, HistoryInv
  <2>1. ASSUME NEW t \in Tasks, SignedIs(t, projection[t])
        PROVE  /\ projection[t] # NoTask => \E i \in 1..Len(ledger) : IsLatest(i, t)
               /\ \A i \in 1..Len(ledger) : IsLatest(i, t) => projection[t] = ledger[i].task
    <3>1. ASSUME NEW i \in 1..Len(ledger), IsLatest(i, t)
          PROVE  projection[t] = ledger[i].task
      <4>1. IsSnapshot(ledger[i], t)
        BY <3>1 DEF IsLatest
      <4>2. \A k \in 1..Len(ledger) : IsLatest(k, t) => k = i
        BY <1>1, <3>1, LatestUnique
      <4>. QED BY <2>1, <4>1, <4>2 DEF SignedIs
    <3>. QED BY <2>1, <3>1 DEF SignedIs
  <2>2. ASSUME NEW t \in Tasks, NEW p \in Procs, pc[p] = "write", job[p].id = t
        PROVE  /\ \E i \in 1..Len(ledger) : IsLatest(i, t)
               /\ \A i \in 1..Len(ledger) : IsLatest(i, t) => job[p].task = ledger[i].task
    <3>1. SignedIs(t, job[p].task)
      BY <2>0, <2>2 DEF SyncInv, Fits
    <3>2. job[p].task # NoTask
      BY <2>0, <2>2 DEF BusyInv, Busy, JobBound
    <3>3. PICK k \in 1..Len(ledger) : IsLatest(k, t) /\ ledger[k].task = job[p].task
      BY <3>1, <3>2 DEF SignedIs
    <3>4. \A i \in 1..Len(ledger) : IsLatest(i, t) => i = k
      BY <1>1, <3>3, LatestUnique
    <3>. QED BY <3>3, <3>4
  <2>3. \A t \in Tasks : Writing(t) \/ SignedIs(t, projection[t])
    BY <2>0 DEF SyncInv
  <2>. QED BY <2>1, <2>2, <2>3 DEF Writing
<1>. QED BY <1>1, HistoryInvariant, BusyHeld, TypeCorrect, PTL

-----------------------------------------------------------------------------
(* Verdicts and the submissions they judge *)

\* The latest submission of t is of this attempt (and v may judge it).
Submitted(t, attempt) ==
    \E s \in 1..Len(ledger) : IsLatestSubmission(s, t) /\ ledger[s].attempt = attempt

Judged(t, attempt, v) ==
    \E s \in 1..Len(ledger) : IsLatestSubmission(s, t) /\ ledger[s].attempt = attempt
                              /\ Independent(ledger[s].actor, v)

\* A version in memory that says "submitted" is the latest submission, unless it
\* is the one about to be signed; a verifier may judge what it has in memory.
SubmissionBehind(p) ==
    LET j == job[p]
        e == j.event
    IN /\ pc[p] = "append" /\ e.action = "task.submitted" =>
            projection[j.id].state # "submitted" /\ e.task.state = "submitted" /\ e.attempt = e.task.attempt
       /\ pc[p] = "append" /\ e.task.state = "submitted" => e.action = "task.submitted"
       /\ \/ pc[p] = "write"
          \/ pc[p] = "append" /\ e.action = "verification.failed"
          => (j.task.state = "submitted" => Submitted(j.id, j.task.attempt))
       /\ pc[p] \in {"begin", "validate"} => Judged(j.id, j.task.attempt, e.actor)
       /\ pc[p] = "append" /\ e.action \in Verdicts => Judged(j.id, e.attempt, e.actor)
       /\ pc[p] \in {"begin", "record"} => e.action \notin Verdicts \union {"task.submitted"}

\* The same of the task files and of the signed versions.
VerdictInv ==
    /\ \A t \in Tasks : projection[t].state = "submitted" => Submitted(t, projection[t].attempt)
    /\ \A i \in 1..Len(ledger) : (ledger[i].task.state = "submitted") = (ledger[i].action = "task.submitted")
    /\ \A i \in 1..Len(ledger) : ledger[i].action = "task.submitted" => ledger[i].attempt = ledger[i].task.attempt
    /\ \A p \in Procs : SubmissionBehind(p)
    /\ JudgedIndependently

LEMMA SubmissionUnique ==
    ASSUME TypeOK, NEW t, NEW i, NEW k, IsLatestSubmission(i, t), IsLatestSubmission(k, t)
    PROVE  i = k
<1>1. i \in 1..Len(ledger) /\ k \in 1..Len(ledger) /\ Len(ledger) \in Nat
  BY DEF IsLatestSubmission, TypeOK
<1>2. ~(i < k) /\ ~(k < i)
  BY <1>1 DEF IsLatestSubmission
<1>. QED BY <1>1, <1>2

\* The submissions after an event has been signed.
LEMMA AppendSubmission ==
    ASSUME TypeOK, NEW p \in Procs, AppendStep(p), NEW t, NEW attempt, NEW v
    PROVE  LET e == job[p].event
           IN /\ e.id = t /\ e.action = "task.submitted" /\ e.attempt = attempt =>
                   Submitted(t, attempt)'
              /\ ~(e.id = t /\ e.action = "task.submitted") =>
                   /\ Submitted(t, attempt) => Submitted(t, attempt)'
                   /\ Judged(t, attempt, v) => Judged(t, attempt, v)'
<1>. DEFINE e == job[p].event
            n == Len(ledger) + 1
<1>1. /\ Len(ledger) \in Nat /\ n \in Nat /\ Len(ledger') = n
      /\ 1..Len(ledger') = 1..Len(ledger) \union {n}
      /\ \A i \in 1..Len(ledger) : ledger'[i] = ledger[i] /\ i < n
      /\ ledger'[n] = e
  BY AppendFacts
<1>2. ASSUME e.id = t, e.action = "task.submitted", e.attempt = attempt
      PROVE  Submitted(t, attempt)'
  <2>1. (n + 1)..n = {}
    BY <1>1
  <2>2. PICK i : i = n
    OBVIOUS
  <2>3. IsLatestSubmission(i, t)' /\ i \in 1..Len(ledger') /\ ledger'[i].attempt = attempt
    <3>. HIDE DEF n
    <3>. QED BY <1>1, <1>2, <2>1, <2>2 DEF IsLatestSubmission
  <2>. QED BY <2>3 DEF Submitted
<1>3. ASSUME ~(e.id = t /\ e.action = "task.submitted"),
             NEW i \in 1..Len(ledger), IsLatestSubmission(i, t)
      PROVE  IsLatestSubmission(i, t)' /\ i \in 1..Len(ledger') /\ ledger'[i] = ledger[i]
  <2>1. /\ (i + 1)..n = (i + 1)..Len(ledger) \union {n}
        /\ \A k \in (i + 1)..Len(ledger) : ledger'[k] = ledger[k]
    BY <1>1
  <2>. HIDE DEF n
  <2>. QED BY <1>1, <1>3, <2>1 DEF IsLatestSubmission
<1>4. ASSUME ~(e.id = t /\ e.action = "task.submitted")
      PROVE  /\ Submitted(t, attempt) => Submitted(t, attempt)'
             /\ Judged(t, attempt, v) => Judged(t, attempt, v)'
  BY <1>3, <1>4 DEF Submitted, Judged, Independent
<1>. QED BY <1>2, <1>4

LEMMA SameSubmissions ==
    ASSUME ledger' = ledger
    PROVE  \A t, attempt, v : /\ Submitted(t, attempt)' <=> Submitted(t, attempt)
                              /\ Judged(t, attempt, v)' <=> Judged(t, attempt, v)
BY DEF Submitted, Judged, Independent, IsLatestSubmission

\* The latest signed version says "submitted" only when the latest submission
\* signed it.
LEMMA LatestIsSubmission ==
    ASSUME TypeOK, VerdictInv, NEW t, NEW i \in 1..Len(ledger), IsLatest(i, t),
           ledger[i].task.state = "submitted"
    PROVE  Submitted(t, ledger[i].task.attempt)
<1>1. /\ ledger[i].action = "task.submitted" /\ ledger[i].attempt = ledger[i].task.attempt
      /\ ledger[i].id = t
  BY DEF VerdictInv, IsLatest, IsSnapshot
<1>2. ASSUME NEW k \in (i + 1)..Len(ledger), ledger[k].id = t, ledger[k].action = "task.submitted"
      PROVE  FALSE
  <2>1. k \in 1..Len(ledger)
    BY DEF TypeOK
  <2>2. ledger[k].task.state = "submitted"
    BY <1>2, <2>1 DEF VerdictInv
  <2>3. IsSnapshot(ledger[k], t)
    BY <1>2, <2>2 DEF IsSnapshot, NoTask
  <2>. QED BY <2>3 DEF IsLatest
<1>3. IsLatestSubmission(i, t)
  BY <1>1, <1>2 DEF IsLatestSubmission
<1>. QED BY <1>1, <1>3 DEF Submitted

LEMMA VerdictCall ==
    ASSUME TypeOK, TypeOK', BusyInv, VerdictInv, NEW p \in Procs, Call(p)
    PROVE  VerdictInv'
<1>. DEFINE j == job'[p]
            e == j.event
            old == projection[j.id]
<1>1. CallEffect(p) /\ Decided(p)
  BY CallEffects, CallDecides
<1>2. /\ UNCHANGED <<ledger, projection>> /\ pc[p] = "idle"
      /\ \A q \in Procs : q # p => pc'[q] = pc[q] /\ job'[q] = job[q]
  BY <1>1 DEF CallEffect
<1>3. j.id \in Tasks
  <2>1. job'[p] \in Job
    BY <1>1 DEF CallEffect, Appending, TypeOK
  <2>. QED BY <2>1 DEF Job
<1>4. \A t, attempt, v : /\ Submitted(t, attempt)' <=> Submitted(t, attempt)
                         /\ Judged(t, attempt, v)' <=> Judged(t, attempt, v)
  BY <1>2, SameSubmissions
<1>5. NoTask.state = "absent"
  BY DEF NoTask
<1>6. SubmissionBehind(p)'
  <2>1. CASE pc'[p] = "append" /\ e.action = "task.created" /\ e.task.state = "pending"
    BY <2>1 DEF SubmissionBehind, Verdicts
  <2>2. CASE /\ pc'[p] = "append" /\ e.action \in UpdateActions
             /\ e.attempt = e.task.attempt
             /\ (e.task.state = "submitted") = (e.action = "task.submitted")
             /\ e.action = "task.submitted" => old.state # "submitted"
    BY <1>2, <2>2 DEF SubmissionBehind, UpdateActions, WorkerActions, Recoveries, Verdicts
  <2>3. CASE /\ pc'[p] = "begin" /\ e.action = "verification.started"
             /\ old.state = "submitted" /\ j.task = old
             /\ \E i \in 1..Len(ledger) :
                  IsLatestSubmission(i, j.id) /\ Independent(ledger[i].actor, e.actor)
    <3>1. Submitted(j.id, old.attempt)
      BY <1>3, <2>3 DEF VerdictInv
    <3>2. Judged(j.id, j.task.attempt, e.actor)
      BY <2>3, <3>1, SubmissionUnique DEF Submitted, Judged
    <3>3. \A t, attempt, v : t = j.id /\ attempt = j.task.attempt /\ v = e.actor =>
             Judged(t, attempt, v)'
      BY <1>4, <3>2
    <3>. QED BY <2>3, <3>3 DEF SubmissionBehind, Verdicts
  <2>4. CASE /\ pc'[p] \in {"append", "write"} /\ e.action = "verification.failed"
             /\ \E s \in 1..Len(ledger) :
                  ledger[s].action = "verification.started" /\ e.task = ledger[s].task
             /\ \E i \in 1..Len(ledger) : IsLatest(i, j.id) /\ j.task = ledger[i].task
    <3>1. e.task.state = "absent"
      BY <1>5, <2>4 DEF BusyInv
    <3>2. j.task.state = "submitted" => Submitted(j.id, j.task.attempt)
      BY <2>4, LatestIsSubmission
    <3>3. \A t, attempt : t = j.id /\ attempt = j.task.attempt /\ j.task.state = "submitted" =>
             Submitted(t, attempt)'
      BY <1>4, <3>2
    <3>. QED BY <2>4, <3>1, <3>3 DEF SubmissionBehind, Verdicts
  <2>5. CASE pc'[p] = "record" /\ e.action = "verification.restatement"
    BY <2>5 DEF SubmissionBehind, Verdicts
  <2>. QED BY <1>1, <2>1, <2>2, <2>3, <2>4, <2>5 DEF Decided
<1>7. ASSUME NEW q \in Procs, q # p PROVE SubmissionBehind(q)'
  <2>1. SubmissionBehind(q) /\ pc'[q] = pc[q] /\ job'[q] = job[q]
    BY <1>2, <1>7 DEF VerdictInv
  <2>. QED BY <1>2, <2>1
       DEF SubmissionBehind, Submitted, Judged, Independent, IsLatestSubmission
<1>8. \A t \in Tasks : projection'[t].state = "submitted" => Submitted(t, projection[t].attempt)'
  BY <1>2 DEF VerdictInv, Submitted, IsLatestSubmission
<1>. QED BY <1>2, <1>6, <1>7, <1>8 DEF VerdictInv, JudgedIndependently

LEMMA VerdictAppend ==
    ASSUME TypeOK, TypeOK', TaskLockExclusive, BusyInv, VerdictInv,
           NEW p \in Procs, AppendStep(p)
    PROVE  VerdictInv'
<1>. DEFINE j == job[p]
            e == j.event
            n == Len(ledger) + 1
<1>1. /\ e \in Event /\ j.id \in Tasks
      /\ Len(ledger) \in Nat /\ n \in Nat /\ Len(ledger') = n
      /\ 1..Len(ledger') = 1..Len(ledger) \union {n}
      /\ \A i \in 1..Len(ledger) : ledger'[i] = ledger[i] /\ i < n
      /\ ledger'[n] = e
      /\ UNCHANGED <<projection, job>>
      /\ \A q \in Procs : q # p => pc'[q] = pc[q]
      /\ \/ pc[p] = "append" /\ pc'[p] = "write"
         \/ pc[p] = "begin" /\ pc'[p] = "validate"
         \/ pc[p] = "record" /\ pc'[p] = "release"
  BY AppendFacts
<1>2. Busy(p) /\ JobBound(p) /\ SubmissionBehind(p) /\ e.id = j.id
  BY <1>1 DEF BusyInv, VerdictInv, Busy, JobBound
<1>3. \A q \in Procs : q # p /\ Busy(q) => job[q].id # j.id
  BY <1>2, OneAtATime
<1>4. NoTask.state = "absent"
  BY DEF NoTask
<1>5. /\ (e.task.state = "submitted") = (e.action = "task.submitted")
      /\ e.action = "task.submitted" =>
           /\ pc[p] = "append" /\ e.attempt = e.task.attempt /\ projection[j.id].state # "submitted"
  BY <1>1, <1>2, <1>4 DEF JobBound, SubmissionBehind
<1>6. ASSUME NEW t \in Tasks, projection'[t].state = "submitted"
      PROVE  Submitted(t, projection[t].attempt)'
  <2>1. Submitted(t, projection[t].attempt) /\ ~(e.id = t /\ e.action = "task.submitted")
    BY <1>1, <1>2, <1>5, <1>6 DEF VerdictInv
  <2>2. \A attempt : attempt = projection[t].attempt => Submitted(t, attempt)'
    BY <2>1, AppendSubmission
  <2>. QED BY <1>1, <2>2
<1>7. /\ \A i \in 1..Len(ledger') :
            (ledger'[i].task.state = "submitted") = (ledger'[i].action = "task.submitted")
      /\ \A i \in 1..Len(ledger') :
            ledger'[i].action = "task.submitted" => ledger'[i].attempt = ledger'[i].task.attempt
  <2>. HIDE DEF n
  <2>. QED BY <1>1, <1>5 DEF VerdictInv
<1>8. ASSUME NEW q \in Procs, q # p PROVE SubmissionBehind(q)'
  <2>1. SubmissionBehind(q) /\ pc'[q] = pc[q] /\ job'[q] = job[q]
    BY <1>1, <1>8 DEF VerdictInv
  <2>2. CASE Busy(q)
    <3>1. ~(e.id = job[q].id /\ e.action = "task.submitted")
      BY <1>2, <1>3, <1>8, <2>2
    <3>2. \A t, attempt, v : t = job[q].id =>
             /\ Submitted(t, attempt) => Submitted(t, attempt)'
             /\ Judged(t, attempt, v) => Judged(t, attempt, v)'
      BY <3>1, AppendSubmission
    <3>3. \A t, attempt, v : t = job'[q].id =>
             /\ Submitted(t, attempt) => Submitted(t, attempt)'
             /\ Judged(t, attempt, v) => Judged(t, attempt, v)'
      BY <2>1, <3>2
    <3>. DEFINE S(t, attempt) == Submitted(t, attempt)'
                J(t, attempt, v) == Judged(t, attempt, v)'
    <3>4. /\ \A attempt : Submitted(job[q].id, attempt) => S(job[q].id, attempt)
          /\ \A attempt, v : Judged(job[q].id, attempt, v) => J(job[q].id, attempt, v)
      BY <2>1, <3>2, <3>3
    <3>. HIDE DEF S, J
    <3>5. LET k == job[q]
              f == k.event
          IN /\ pc[q] = "append" /\ f.action = "task.submitted" =>
                  projection[k.id].state # "submitted" /\ f.task.state = "submitted"
                  /\ f.attempt = f.task.attempt
             /\ pc[q] = "append" /\ f.task.state = "submitted" => f.action = "task.submitted"
             /\ \/ pc[q] = "write"
                \/ pc[q] = "append" /\ f.action = "verification.failed"
                => (k.task.state = "submitted" => S(k.id, k.task.attempt))
             /\ pc[q] \in {"begin", "validate"} => J(k.id, k.task.attempt, f.actor)
             /\ pc[q] = "append" /\ f.action \in Verdicts => J(k.id, f.attempt, f.actor)
             /\ pc[q] \in {"begin", "record"} => f.action \notin Verdicts \union {"task.submitted"}
      BY <2>1, <3>4 DEF SubmissionBehind
    <3>. QED BY <1>1, <2>1, <3>5 DEF SubmissionBehind, S, J
  <2>3. CASE ~Busy(q)
    BY <2>1, <2>3 DEF SubmissionBehind, Busy
  <2>. QED BY <2>2, <2>3
<1>9. SubmissionBehind(p)'
  <2>1. CASE pc[p] = "append"
    <3>1. ASSUME j.task.state = "submitted" PROVE \A t, attempt :
              t = j.id /\ attempt = j.task.attempt => Submitted(t, attempt)'
      <4>1. CASE e.action = "task.submitted"
        <5>1. e.task = j.task
          BY <1>2, <2>1, <4>1 DEF JobBound
        <5>. QED BY <1>2, <1>5, <4>1, <5>1, AppendSubmission
      <4>2. CASE e.action = "verification.failed"
        <5>1. Submitted(j.id, j.task.attempt)
          BY <1>2, <2>1, <3>1, <4>2 DEF SubmissionBehind
        <5>. QED BY <4>2, <5>1, AppendSubmission
      <4>3. CASE e.action \notin {"task.submitted", "verification.failed"}
        BY <1>2, <1>5, <2>1, <3>1, <4>3 DEF JobBound
      <4>. QED BY <4>1, <4>2, <4>3
    <3>. QED BY <1>1, <2>1, <3>1 DEF SubmissionBehind
  <2>2. CASE pc[p] = "begin"
    <3>1. Judged(j.id, j.task.attempt, e.actor) /\ e.action = "verification.started"
      BY <1>2, <2>2 DEF SubmissionBehind, JobBound
    <3>2. \A t, attempt, v : t = j.id /\ attempt = j.task.attempt /\ v = e.actor =>
             Judged(t, attempt, v)'
      BY <3>1, AppendSubmission
    <3>. QED BY <1>1, <2>2, <3>2 DEF SubmissionBehind
  <2>3. CASE pc[p] = "record"
    BY <1>1, <2>3 DEF SubmissionBehind
  <2>. QED BY <1>1, <2>1, <2>2, <2>3
<1>10. JudgedIndependently'
  <2>. DEFINE Sound(i) == \E s \in 1..(i - 1) :
            /\ ledger'[s].action = "task.submitted" /\ ledger'[s].id = ledger'[i].id
            /\ ledger'[s].attempt = ledger'[i].attempt
            /\ evaluate_independence(Identity[ledger'[s].actor], Identity[ledger'[i].actor])
            /\ \A k \in (s + 1)..(i - 1) :
                 ~(ledger'[k].action = "task.submitted" /\ ledger'[k].id = ledger'[i].id)
  <2>1. ASSUME NEW i \in 1..Len(ledger), ledger'[i].action \in Verdicts PROVE Sound(i)
    <3>1. ledger'[i] = ledger[i] /\ 1..(i - 1) \subseteq 1..Len(ledger)
      BY <1>1
    <3>2. PICK s \in 1..(i - 1) :
            /\ ledger[s].action = "task.submitted" /\ ledger[s].id = ledger[i].id
            /\ ledger[s].attempt = ledger[i].attempt
            /\ evaluate_independence(Identity[ledger[s].actor], Identity[ledger[i].actor])
            /\ \A k \in (s + 1)..(i - 1) :
                 ~(ledger[k].action = "task.submitted" /\ ledger[k].id = ledger[i].id)
      BY <2>1, <3>1 DEF VerdictInv, JudgedIndependently, Verdicts
    <3>3. (s + 1)..(i - 1) \subseteq 1..(i - 1)
      BY <1>1
    <3>4. ledger'[s] = ledger[s] /\ \A k \in (s + 1)..(i - 1) : ledger'[k] = ledger[k]
      BY <1>1, <3>1, <3>3
    <3>. QED BY <3>1, <3>2, <3>4
  <2>2. ASSUME e.action \in Verdicts PROVE Sound(n)
    <3>1. pc[p] = "append" /\ Judged(j.id, e.attempt, e.actor)
      BY <1>1, <1>2, <2>2 DEF SubmissionBehind
    <3>2. PICK s \in 1..Len(ledger) : IsLatestSubmission(s, j.id) /\ ledger[s].attempt = e.attempt
                                      /\ Independent(ledger[s].actor, e.actor)
      BY <3>1 DEF Judged
    <3>3. /\ n - 1 = Len(ledger) /\ ledger'[s] = ledger[s]
          /\ \A k \in (s + 1)..Len(ledger) : ledger'[k] = ledger[k]
      BY <1>1
    <3>. HIDE DEF n
    <3>. QED BY <1>1, <1>2, <3>2, <3>3 DEF IsLatestSubmission, Independent
  <2>3. \A i \in 1..Len(ledger') : ledger'[i].action \in Verdicts => Sound(i)
    <3>. HIDE DEF n, Sound
    <3>. QED BY <1>1, <2>1, <2>2
  <2>. QED BY <2>3 DEF JudgedIndependently, Verdicts
<1>. QED BY <1>6, <1>7, <1>8, <1>9, <1>10 DEF VerdictInv

LEMMA VerdictStep ==
    ASSUME TypeOK, TypeOK', TaskLockExclusive, BusyInv, VerdictInv, [Next]_vars
    PROVE  VerdictInv'
<1>1. ASSUME NEW p \in Procs, Validation(p) PROVE VerdictInv'
  <2>. DEFINE e == job[p].event
              f == job'[p].event
  <2>1. /\ UNCHANGED <<ledger, projection>> /\ pc[p] = "validate"
        /\ \A q \in Procs : q # p => pc'[q] = pc[q] /\ job'[q] = job[q]
        /\ job'[p].id = job[p].id
    BY <1>1, ValidationFacts
  <2>2. Judged(job[p].id, job[p].task.attempt, e.actor)
    BY <2>1 DEF VerdictInv, SubmissionBehind
  <2>3. SubmissionBehind(p)'
    <3>1. CASE pc'[p] = "release"
      BY <3>1 DEF SubmissionBehind
    <3>2. CASE pc'[p] = "record" /\ f.action = "verification.failed"
      BY <3>2 DEF SubmissionBehind, Verdicts
    <3>3. CASE /\ pc'[p] = "append" /\ f.action \in Verdicts /\ f.actor = e.actor
               /\ f.attempt = job[p].task.attempt /\ f.task.state \in {"verified", "rejected"}
      <4>1. Judged(job[p].id, f.attempt, f.actor)
        BY <2>2, <3>3
      <4>2. \A t, attempt, v : t = job[p].id /\ attempt = f.attempt /\ v = f.actor =>
               Judged(t, attempt, v)'
        BY <2>1, <4>1, SameSubmissions
      <4>3. f.action # "task.submitted" /\ f.action # "verification.failed"
        BY <3>3 DEF Verdicts
      <4>. QED BY <2>1, <3>3, <4>2, <4>3 DEF SubmissionBehind
    <3>. QED BY <1>1, <3>1, <3>2, <3>3, ValidationFacts
  <2>4. ASSUME NEW q \in Procs, q # p PROVE SubmissionBehind(q)'
    <3>1. SubmissionBehind(q) /\ pc'[q] = pc[q] /\ job'[q] = job[q]
      BY <2>1, <2>4 DEF VerdictInv
    <3>. QED BY <2>1, <3>1
         DEF SubmissionBehind, Submitted, Judged, Independent, IsLatestSubmission
  <2>5. \A t \in Tasks : projection'[t].state = "submitted" => Submitted(t, projection[t].attempt)'
    BY <2>1 DEF VerdictInv, Submitted, IsLatestSubmission
  <2>. QED BY <2>1, <2>3, <2>4, <2>5 DEF VerdictInv, JudgedIndependently
<1>2. ASSUME NEW p \in Procs, WriteProjection(p) PROVE VerdictInv'
  <2>1. /\ pc[p] = "write" /\ pc'[p] = "release" /\ UNCHANGED <<ledger, job>>
        /\ \A q \in Procs : q # p => pc'[q] = pc[q]
        /\ job[p].id \in Tasks
        /\ \A t \in Tasks :
             projection'[t] = IF t = job[p].id THEN job[p].task ELSE projection[t]
    BY <1>2, WriteFacts
  <2>2. SubmissionBehind(p) /\ Busy(p)
    BY <2>1 DEF VerdictInv, Busy
  <2>3. ASSUME NEW q \in Procs PROVE SubmissionBehind(q)'
    <3>1. CASE q = p
      BY <2>1, <3>1 DEF SubmissionBehind
    <3>2. CASE ~Busy(q)
      BY <2>1, <3>2 DEF SubmissionBehind, Busy
    <3>3. CASE q # p /\ Busy(q)
      <4>1. job[q].id # job[p].id /\ job[q].id \in Tasks
        <5>1. job[q] \in Job
          BY <3>3 DEF Busy, TypeOK
        <5>. QED BY <2>2, <3>3, <5>1, OneAtATime DEF Job
      <4>2. projection'[job[q].id] = projection[job[q].id] /\ SubmissionBehind(q)
        BY <2>1, <4>1 DEF VerdictInv
      <4>. QED BY <2>1, <3>3, <4>2
           DEF SubmissionBehind, Submitted, Judged, Independent, IsLatestSubmission
    <3>. QED BY <3>1, <3>2, <3>3
  <2>4. ASSUME NEW t \in Tasks, projection'[t].state = "submitted"
        PROVE  Submitted(t, projection[t].attempt)'
    <3>1. Submitted(t, projection'[t].attempt)
      BY <2>1, <2>2, <2>4 DEF SubmissionBehind, VerdictInv
    <3>. QED BY <2>1, <3>1 DEF Submitted, IsLatestSubmission
  <2>. QED BY <2>1, <2>3, <2>4 DEF VerdictInv, JudgedIndependently
<1>3. ASSUME Leaves PROVE VerdictInv'
  <2>1. ASSUME NEW q \in Procs PROVE SubmissionBehind(q)'
    <3>1. CASE ~Busy(q)'
      BY <3>1 DEF SubmissionBehind, Busy
    <3>2. CASE pc'[q] = pc[q] /\ job'[q] = job[q]
      <4>1. SubmissionBehind(q)
        BY DEF VerdictInv
      <4>. QED BY <1>3, <3>2, <4>1
           DEF Leaves, SubmissionBehind, Submitted, Judged, Independent, IsLatestSubmission
    <3>. QED BY <1>3, <3>1, <3>2 DEF Leaves
  <2>2. \A t \in Tasks : projection'[t].state = "submitted" => Submitted(t, projection[t].attempt)'
    BY <1>3 DEF Leaves, VerdictInv, Submitted, IsLatestSubmission
  <2>. QED BY <1>3, <2>1, <2>2 DEF Leaves, VerdictInv, JudgedIndependently
<1>. QED BY <1>1, <1>2, <1>3, OtherSteps, VerdictCall, VerdictAppend DEF Next, Progress, TakesOver

\* A verdict is signed by a verifier that is independent of the worker whose
\* submission it judges, the last one signed before it and of its attempt:
\* verify looks for that submission before it runs the validations, and the
\* task lock it holds keeps another from being signed, whatever dies and however
\* long the validations run, until a waiter unlinks the lock of a live process.
THEOREM VerdictsIndependent == Spec => []VerdictIndependent
<1>1. Init => VerdictInv
  <2>. SUFFICES ASSUME Init PROVE VerdictInv
    OBVIOUS
  <2>2. \A t \in Tasks : projection[t].state = "absent"
    BY DEF Init, NoTask
  <2>3. \A p \in Procs : SubmissionBehind(p)
    BY DEF Init, SubmissionBehind
  <2>4. Len(ledger) = 0
    BY DEF Init
  <2>. QED BY <2>2, <2>3, <2>4 DEF VerdictInv, JudgedIndependently
<1>2. TypeOK /\ TypeOK' /\ LockInv /\ (~robbed => BusyInv) /\ (~robbed => VerdictInv) /\ [Next]_vars
        => (~robbed' => VerdictInv')
  BY HistoriesStay, VerdictStep DEF LockInv
<1>3. (~robbed => VerdictInv) => VerdictIndependent
  BY DEF VerdictInv, VerdictIndependent, Undisturbed
<1>. QED BY <1>1, <1>2, <1>3, TypeCorrect, LocksHeld, BusyHeld, PTL DEF Spec

-----------------------------------------------------------------------------
(* Restatements *)

\* The event at k has been revoked.
Revoked(k) == \E i \in 1..Len(ledger) : ledger[i].note.target = k /\ ledger[i].note.status = "verification_revoked"

\* A process about to sign a restatement holds the lock of the task of the
\* event it restates, which is not revoked yet; nothing else carries a note.
RevocationInv ==
    /\ \A i \in 1..Len(ledger) : 
         ledger[i].note = NoNote \/ (ledger[i].note.target # 0 /\ ledger[i].action = "verification.restatement")
    /\ \A p \in Procs : pc[p] \in Appending \union {"validate"} =>
         LET note == job[p].event.note
         IN \/ note = NoNote
            \/ /\ pc[p] = "record" /\ job[p].event.action = "verification.restatement"
               /\ note.target \in 1..Len(ledger)
               /\ ledger[note.target].id = job[p].lock /\ ~Revoked(note.target)
    /\ NothingAfterRevocation

LEMMA RevocationCall ==
    ASSUME TypeOK, RevocationInv, NEW p \in Procs, Call(p)
    PROVE  RevocationInv'
<1>. DEFINE j == job'[p]
            e == j.event
<1>1. CallEffect(p) /\ Decided(p)
  BY CallEffects, CallDecides
<1>2. /\ UNCHANGED ledger
      /\ \A q \in Procs : q # p => pc'[q] = pc[q] /\ job'[q] = job[q]
  BY <1>1 DEF CallEffect
<1>3. \A k : Revoked(k)' <=> Revoked(k)
  BY <1>2 DEF Revoked
<1>4. ASSUME NEW k \in 1..Len(ledger),
             \A i \in 1..Len(ledger) : IsLatestRestatement(i, k) =>
                 ledger[i].note.status # "verification_revoked"
      PROVE  ~Revoked(k)
  <2>1. ASSUME NEW i \in 1..Len(ledger), ledger[i].note.target = k,
               ledger[i].note.status = "verification_revoked"
        PROVE  FALSE
    <3>1. ASSUME NEW m \in (i + 1)..Len(ledger) PROVE ledger[m].note.target # k
      <4>1. m \in 1..Len(ledger) /\ i < m
        BY DEF TypeOK
      <4>. QED BY <2>1, <4>1 DEF RevocationInv, NothingAfterRevocation
    <3>2. IsLatestRestatement(i, k)
      BY <2>1, <3>1 DEF IsLatestRestatement
    <3>. QED BY <1>4, <2>1, <3>2
  <2>. QED BY <2>1 DEF Revoked
<1>5. \/ e.note = NoNote
      \/ /\ pc'[p] = "record" /\ e.action = "verification.restatement"
         /\ e.note.target \in 1..Len(ledger)
         /\ ledger[e.note.target].id = j.lock /\ ~Revoked(e.note.target)
  <2>1. ASSUME NEW s \in 1..Len(ledger), ledger[s].action = "verification.started"
        PROVE  ledger[s].note = NoNote
    BY <2>1 DEF RevocationInv
  <2>. QED BY <1>1, <1>4, <2>1 DEF Decided
<1>6. \A k : k = e.note.target => Revoked(k)' = Revoked(k)
  BY <1>3
<1>7. ~Revoked(e.note.target) => ~Revoked(job[p].event.note.target)'
  BY <1>6
<1>. QED BY <1>2, <1>5, <1>7 DEF RevocationInv, NothingAfterRevocation, Revoked

LEMMA RevocationAppend ==
    ASSUME TypeOK, TaskLockExclusive, RevocationInv, NEW p \in Procs, AppendStep(p)
    PROVE  RevocationInv'
<1>. DEFINE e == job[p].event
            n == Len(ledger) + 1
<1>1. /\ Len(ledger) \in Nat /\ n \in Nat /\ Len(ledger') = n
      /\ 1..Len(ledger') = 1..Len(ledger) \union {n}
      /\ \A i \in 1..Len(ledger) : ledger'[i] = ledger[i] /\ i < n
      /\ ledger'[n] = e
      /\ UNCHANGED job
      /\ \A q \in Procs : q # p => pc'[q] = pc[q]
      /\ \/ pc[p] = "append" /\ pc'[p] = "write"
         \/ pc[p] = "begin" /\ pc'[p] = "validate"
         \/ pc[p] = "record" /\ pc'[p] = "release"
  BY AppendFacts
<1>2. \/ e.note = NoNote
      \/ /\ pc[p] = "record" /\ e.action = "verification.restatement"
         /\ e.note.target \in 1..Len(ledger)
         /\ ledger[e.note.target].id = job[p].lock /\ ~Revoked(e.note.target)
  BY <1>1 DEF RevocationInv, Appending
<1>3. NoNote.target = 0 /\ NoNote.status = "none"
  BY DEF NoNote
<1>4. \A i \in 1..Len(ledger') :
        \/ ledger'[i].note = NoNote
        \/ ledger'[i].note.target # 0 /\ ledger'[i].action = "verification.restatement"
  <2>1. e.note = NoNote \/ (e.note.target # 0 /\ e.action = "verification.restatement")
    BY <1>1, <1>2
  <2>. HIDE DEF n
  <2>. QED BY <1>1, <2>1 DEF RevocationInv
<1>5. \A k : Revoked(k)' => Revoked(k) \/ e.note.target = k
  <2>. HIDE DEF n
  <2>. QED BY <1>1 DEF Revoked
<1>6. ASSUME NEW q \in Procs, pc'[q] \in Appending \union {"validate"}
      PROVE  LET note == job'[q].event.note
             IN \/ note = NoNote
                \/ /\ pc'[q] = "record" /\ job'[q].event.action = "verification.restatement"
                   /\ note.target \in 1..Len(ledger')
                   /\ ledger'[note.target].id = job'[q].lock /\ ~Revoked(job[q].event.note.target)'
  <2>. DEFINE note == job[q].event.note
  <2>1. CASE q = p
    BY <1>1, <1>2, <1>6, <2>1 DEF Appending
  <2>2. CASE q # p
    <3>1. \/ note = NoNote
          \/ /\ pc[q] = "record" /\ job[q].event.action = "verification.restatement"
             /\ note.target \in 1..Len(ledger)
             /\ ledger[note.target].id = job[q].lock /\ ~Revoked(note.target)
      BY <1>1, <1>6, <2>2 DEF RevocationInv
    <3>2. ASSUME note # NoNote PROVE e.note.target # note.target
      <4>1. job[p].lock # job[q].lock
        BY <1>1, <1>6, <2>2 DEF TaskLockExclusive, Appending
      <4>. QED BY <1>1, <1>2, <1>3, <3>1, <3>2, <4>1
    <3>3. note # NoNote => ~Revoked(job[q].event.note.target)'
      <4>1. \A k : note # NoNote /\ k = note.target => ~Revoked(k)'
        BY <1>5, <3>1, <3>2
      <4>. QED BY <1>1, <4>1
    <3>. HIDE DEF n
    <3>. QED BY <1>1, <2>2, <3>1, <3>3
  <2>. QED BY <2>1, <2>2
<1>7. NothingAfterRevocation'
  <2>1. ASSUME NEW i \in 1..Len(ledger), ledger[i].note.status = "verification_revoked"
        PROVE  /\ e.note.target # ledger[i].note.target
               /\ \A m \in 1..Len(ledger) : i < m => ledger[m].note.target # ledger[i].note.target
    <3>1. ledger[i].note.target # 0
      BY <1>3, <2>1 DEF RevocationInv
    <3>2. Revoked(ledger[i].note.target)
      BY <2>1 DEF Revoked
    <3>. QED BY <1>2, <1>3, <2>1, <3>1, <3>2 DEF RevocationInv, NothingAfterRevocation
  <2>2. \A i \in 1..Len(ledger') : \A m \in 1..Len(ledger') : i < m =>
           /\ i \in 1..Len(ledger) /\ ledger'[i] = ledger[i]
           /\ m = n \/ (m \in 1..Len(ledger) /\ ledger'[m] = ledger[m])
    BY <1>1
  <2>. HIDE DEF n
  <2>. QED BY <1>1, <2>1, <2>2 DEF NothingAfterRevocation
<1>. QED BY <1>4, <1>6, <1>7 DEF RevocationInv

LEMMA RevocationStep ==
    ASSUME TypeOK, TaskLockExclusive, RevocationInv, [Next]_vars
    PROVE  RevocationInv'
<1>1. ASSUME NEW p \in Procs, Validation(p) PROVE RevocationInv'
  <2>1. /\ UNCHANGED ledger /\ pc[p] = "validate"
        /\ \A q \in Procs : q # p => pc'[q] = pc[q] /\ job'[q] = job[q]
        /\ \/ pc'[p] = "release"
           \/ pc'[p] = "record" /\ job'[p].event.note = job[p].event.note
           \/ pc'[p] = "append" /\ job'[p].event.note = NoNote
    BY <1>1, ValidationFacts
  <2>2. pc'[p] # "release" => job'[p].event.note = NoNote
    BY <2>1 DEF RevocationInv
  <2>. QED BY <2>1, <2>2 DEF RevocationInv, NothingAfterRevocation, Revoked, Appending
<1>2. ASSUME NEW p \in Procs, WriteProjection(p) PROVE RevocationInv'
  <2>1. /\ pc'[p] = "release" /\ UNCHANGED <<ledger, job>>
        /\ \A q \in Procs : q # p => pc'[q] = pc[q]
    BY <1>2, WriteFacts
  <2>. QED BY <2>1 DEF RevocationInv, NothingAfterRevocation, Revoked, Appending
<1>3. ASSUME Leaves PROVE RevocationInv'
  <2>1. ASSUME NEW q \in Procs, pc'[q] \in Appending \union {"validate"}
        PROVE  pc'[q] = pc[q] /\ job'[q] = job[q]
    BY <1>3, <2>1 DEF Leaves, Busy, Appending
  <2>. QED BY <1>3, <2>1 DEF Leaves, RevocationInv, NothingAfterRevocation, Revoked
<1>. QED BY <1>1, <1>2, <1>3, OtherSteps, RevocationCall, RevocationAppend DEF Next, Progress, TakesOver

\* A revocation is the last word on a verification event, whatever dies: between
\* the moment restate_verification reads the ledger and the moment it signs, no
\* other restatement of that event can be signed, until a waiter unlinks the
\* lock of a live process.
THEOREM RevocationsFinal == Spec => []RevocationFinal
<1>1. Init => RevocationInv
  BY DEF Init, RevocationInv, NothingAfterRevocation, Appending
<1>2. TypeOK /\ TypeOK' /\ LockInv /\ (~robbed => RevocationInv) /\ [Next]_vars
        => (~robbed' => RevocationInv')
  BY HistoriesStay, RevocationStep DEF LockInv
<1>3. (~robbed => RevocationInv) => RevocationFinal
  BY DEF RevocationInv, RevocationFinal, Undisturbed
<1>. QED BY <1>1, <1>2, <1>3, TypeCorrect, LocksHeld, PTL DEF Spec

-----------------------------------------------------------------------------
(* What the readers of the ledger find *)

\* A task that was ever claimed has an attempt.
Tried(task) ==
    task.state \notin {"absent", "pending"} \/ task.lease.holder # Nobody => task.attempt # 0

\* A version that says "verified" is one that a verdict signed.
Backed(t, task) ==
    \E i \in 1..Len(ledger) :
        ledger[i].action = "task.verified" /\ ledger[i].id = t /\ ledger[i].task = task

\* The run of e was started by the actor of e.
StartedBy(e) == \E s \in Starts(e.run) : ledger[s].actor = e.actor

\* What trust_projection.py and the doctor ask of an event.
Auditable(e) ==
    /\ (e.task.state = "verified") = (e.action = "task.verified")
    /\ Tried(e.task)
    /\ e.action = "task.submitted" => e.actor = Owner[e.id]
    /\ e.action = "verification.started" => OsIsolationProven
    /\ e.action = "task.verified" =>
         /\ OsIsolationProven /\ StartedBy(e)
         /\ e.task.run = e.run /\ e.task.attempt = e.attempt
    /\ e.action = "verification.restatement" =>
         /\ OsIsolationProven /\ e.actor = Orchestrator /\ e.note.status \in Statuses
         /\ e.note.target \in 1..Len(ledger)
         /\ ledger[e.note.target].action = "task.verified" /\ ledger[e.note.target].id = e.id

\* The same of what a process at `at` is about to sign and to write.
Intends(at, j) ==
    /\ at \in Appending \union {"validate"} => Auditable(j.event)
    /\ at = "validate" => StartedBy(j.event)
    /\ at \in {"begin", "validate"} => j.task.state = "submitted"
    /\ Tried(j.task)
    /\ \/ at = "write"
       \/ at = "append" /\ j.event.action = "verification.failed"
       => (j.task.state = "verified" => Backed(j.id, j.task))

\* TrustFollowsLedger speaks of all events at once; it is kept because each one
\* is signed as the audits ask, and each file that says "verified" was signed.
TrustInv ==
    /\ \A i \in 1..Len(ledger) :
         /\ Auditable(ledger[i])
         /\ ledger[i].action = "verification.restatement" => ledger[i].note.target < i
    /\ \A t \in Tasks :
         /\ Tried(projection[t])
         /\ projection[t].state = "verified" => Backed(t, projection[t])
    /\ \A p \in Procs : Busy(p) => Intends(pc[p], job[p])

\* While nothing is signed, what was found stands; what is signed takes nothing away.
LEMMA TrustStands ==
    ASSUME ledger' = ledger
    PROVE  /\ \A t, task : Backed(t, task) => Backed(t, task)'
           /\ \A e : Auditable(e) => Auditable(e)'
           /\ \A at, j : Intends(at, j) => Intends(at, j)'
<1>1. \A t, task : Backed(t, task) => Backed(t, task)'
  BY DEF Backed
<1>2. \A e : StartedBy(e) => StartedBy(e)'
  BY DEF StartedBy, Starts
<1>3. \A e : Auditable(e) => Auditable(e)'
  BY <1>2 DEF Auditable, Tried
<1>. QED BY <1>1, <1>2, <1>3 DEF Intends, Tried

LEMMA TrustGrows ==
    ASSUME TypeOK, NEW p \in Procs, AppendStep(p)
    PROVE  /\ \A t, task : Backed(t, task) => Backed(t, task)'
           /\ \A e : StartedBy(e) => StartedBy(e)'
           /\ \A e : Auditable(e) => Auditable(e)'
           /\ \A at, j : Intends(at, j) => Intends(at, j)'
<1>1. /\ 1..Len(ledger) \subseteq 1..Len(ledger')
      /\ \A i \in 1..Len(ledger) : ledger'[i] = ledger[i]
  BY AppendFacts
<1>2. \A t, task : Backed(t, task) => Backed(t, task)'
  BY <1>1 DEF Backed
<1>3. \A e : StartedBy(e) => StartedBy(e)'
  BY <1>1 DEF StartedBy, Starts
<1>4. \A e : Auditable(e) => Auditable(e)'
  BY <1>1, <1>3 DEF Auditable, Tried
<1>. QED BY <1>2, <1>3, <1>4 DEF Intends, Tried

LEMMA TrustCall ==
    ASSUME TypeOK, TypeOK', BusyInv, TrustInv, NEW p \in Procs, Call(p)
    PROVE  TrustInv'
<1>. DEFINE j == job'[p]
            e == j.event
            old == projection[j.id]
<1>1. CallEffect(p) /\ Decided(p)
  BY CallEffects, CallDecides
<1>2. /\ UNCHANGED <<ledger, projection>> /\ pc[p] = "idle"
      /\ \A q \in Procs : q # p => pc'[q] = pc[q] /\ job'[q] = job[q]
  BY <1>1 DEF CallEffect
<1>3. /\ j.id \in Tasks /\ e \in Event /\ j.task \in Task /\ old \in Task /\ e.task \in Task
      /\ old.attempt \in Nat /\ e.task.attempt \in Nat
  <2>1. job'[p] \in Job
    BY <1>1 DEF CallEffect, Appending, TypeOK
  <2>. QED BY <2>1 DEF Job, Event, Task, TypeOK
<1>4. Tried(old) /\ NoTask.state = "absent" /\ NoTask.lease.holder = Nobody /\ NoLease.holder = Nobody
  BY <1>3 DEF TrustInv, NoTask, NoLease
<1>5. Intends(pc'[p], j)
  <2>1. CASE /\ pc'[p] = "append" /\ e.action = "task.created" /\ j.task = e.task
             /\ e.task.state = "pending" /\ e.task.lease = NoLease
    BY <1>4, <2>1 DEF Intends, Auditable, Tried
  <2>2. CASE /\ pc'[p] = "append" /\ e.action \in UpdateActions /\ j.task = e.task /\ e.id = j.id
             /\ LegalSuccessor(old, e) /\ LeaseStep(old, e)
             /\ e.action = "task.submitted" => e.actor = Owner[j.id]
             /\ e.action \in Recoveries => e.task.state = "pending"
    <3>1. e.action \notin RunActions /\ e.action \notin {"verification.restatement", "task.verified"}
      BY <2>2 DEF UpdateActions, WorkerActions, Recoveries, RunActions, TerminalActions
    <3>2. e.task.state # "verified"
      BY <1>1, <3>1 DEF CallEffect, RunActions, TerminalActions, Done
    <3>3. Tried(e.task)
      <4>1. CASE e.action = "task.claimed"
        BY <1>3, <2>2, <4>1 DEF LegalSuccessor, Tried
      <4>2. CASE e.action \in WorkerActions
        <5>1. e.action # "task.claimed"
          BY <4>2 DEF WorkerActions
        <5>2. e.task.attempt = old.attempt
          BY <1>3, <2>2, <5>1 DEF LegalSuccessor
        <5>. QED BY <1>4, <2>2, <4>2, <5>2 DEF LeaseStep, Tried
      <4>3. CASE e.action \in Recoveries
        <5>1. e.action # "task.claimed"
          BY <4>3 DEF Recoveries
        <5>. QED BY <2>2, <4>3, <5>1 DEF LeaseStep, Tried
      <4>. QED BY <2>2, <4>1, <4>2, <4>3 DEF UpdateActions
    <3>. QED BY <2>2, <3>1, <3>2, <3>3 DEF Intends, Auditable, RunActions, TerminalActions
  <2>3. CASE /\ pc'[p] = "begin" /\ e.action = "verification.started" /\ old.state = "submitted"
             /\ j.task = old /\ e.task = NoTask /\ OsIsolationProven
    BY <1>4, <2>3 DEF Intends, Auditable, Tried
  <2>4. CASE /\ pc'[p] \in {"append", "write"} /\ e.action = "verification.failed"
             /\ \E s \in 1..Len(ledger) :
                  ledger[s].action = "verification.started" /\ e.task = ledger[s].task
             /\ \E i \in 1..Len(ledger) : IsLatest(i, j.id) /\ j.task = ledger[i].task
    <3>1. e.task = NoTask
      BY <2>4 DEF BusyInv
    <3>2. Auditable(e)
      BY <1>4, <2>4, <3>1 DEF Auditable, Tried
    <3>3. PICK i \in 1..Len(ledger) : IsLatest(i, j.id) /\ j.task = ledger[i].task
      BY <2>4
    <3>4. ledger[i].id = j.id /\ Auditable(ledger[i])
      BY <3>3 DEF IsLatest, IsSnapshot, TrustInv
    <3>5. Tried(j.task) /\ (j.task.state = "verified" => Backed(j.id, j.task))
      BY <3>3, <3>4 DEF Auditable, Backed
    <3>. QED BY <2>4, <3>2, <3>5 DEF Intends
  <2>5. CASE /\ pc'[p] = "record" /\ e.action = "verification.restatement" /\ e.task = NoTask
             /\ OsIsolationProven /\ e.actor = Orchestrator /\ e.note.status \in Statuses
             /\ e.note.target \in 1..Len(ledger) /\ ledger[e.note.target].id = j.id /\ e.id = j.id
             /\ ledger[e.note.target].action = "task.verified" /\ j.task = NoTask
    BY <1>4, <2>5 DEF Intends, Auditable, Tried
  <2>. QED BY <1>1, <2>1, <2>2, <2>3, <2>4, <2>5 DEF Decided
<1>6. ASSUME NEW q \in Procs, Busy(q)' PROVE Intends(pc[q], job[q])'
  <2>1. Intends(pc'[q], job'[q])
    BY <1>2, <1>5, <1>6 DEF TrustInv, Busy
  <2>2. \A at, k : at = pc'[q] /\ k = job'[q] => Intends(at, k)'
    BY <1>2, <2>1, TrustStands
  <2>. QED BY <2>2
<1>7. \A i \in 1..Len(ledger') :
        /\ Auditable(ledger[i])'
        /\ ledger'[i].action = "verification.restatement" => ledger'[i].note.target < i
  <2>1. \A i \in 1..Len(ledger) : \A f : f = ledger[i] => Auditable(f)'
    BY <1>2, TrustStands DEF TrustInv
  <2>. QED BY <1>2, <2>1 DEF TrustInv
<1>8. \A t \in Tasks :
        /\ Tried(projection[t])'
        /\ projection'[t].state = "verified" => Backed(t, projection[t])'
  <2>1. \A t \in Tasks : \A task : task = projection[t] /\ task.state = "verified" => Backed(t, task)'
    BY <1>2, TrustStands DEF TrustInv
  <2>. QED BY <1>2, <2>1 DEF TrustInv, Tried
<1>. QED BY <1>6, <1>7, <1>8 DEF TrustInv

LEMMA TrustAppend ==
    ASSUME TypeOK, BusyInv, TrustInv, NEW p \in Procs, AppendStep(p)
    PROVE  TrustInv'
<1>. DEFINE j == job[p]
            e == j.event
            n == Len(ledger) + 1
<1>1. /\ e \in Event /\ j.id \in Tasks
      /\ Len(ledger) \in Nat /\ n \in Nat /\ Len(ledger') = n
      /\ 1..Len(ledger') = 1..Len(ledger) \union {n}
      /\ \A i \in 1..Len(ledger) : ledger'[i] = ledger[i] /\ i < n
      /\ ledger'[n] = e
      /\ UNCHANGED <<projection, job>>
      /\ \A q \in Procs : q # p => pc'[q] = pc[q]
      /\ \/ pc[p] = "append" /\ pc'[p] = "write"
         \/ pc[p] = "begin" /\ pc'[p] = "validate"
         \/ pc[p] = "record" /\ pc'[p] = "release"
  BY AppendFacts
<1>2. JobBound(p) /\ Intends(pc[p], j) /\ Auditable(e) /\ e.id = j.id
  BY <1>1 DEF BusyInv, TrustInv, Busy, JobBound, Intends, Appending
<1>3. \A f : f = e => Auditable(f)'
  BY <1>2, TrustGrows
<1>4. \A i \in 1..Len(ledger') :
        /\ Auditable(ledger[i])'
        /\ ledger'[i].action = "verification.restatement" => ledger'[i].note.target < i
  <2>1. \A i \in 1..Len(ledger) : \A f : f = ledger[i] => Auditable(f)'
    BY TrustGrows DEF TrustInv
  <2>2. \A i \in 1..Len(ledger') : \A f : f = ledger'[i] => Auditable(f)'
    <3>. HIDE DEF n, e
    <3>. QED BY <1>1, <1>3, <2>1
  <2>3. e.action = "verification.restatement" => e.note.target < n
    BY <1>1, <1>2 DEF Auditable
  <2>4. \A i \in 1..Len(ledger') :
          ledger'[i].action = "verification.restatement" => ledger'[i].note.target < i
    <3>. HIDE DEF n, e
    <3>. QED BY <1>1, <2>3 DEF TrustInv
  <2>. QED BY <2>2, <2>4
<1>5. \A t \in Tasks :
        /\ Tried(projection[t])'
        /\ projection'[t].state = "verified" => Backed(t, projection[t])'
  <2>1. \A t \in Tasks : \A task : task = projection[t] /\ task.state = "verified" => Backed(t, task)'
    BY TrustGrows DEF TrustInv
  <2>. QED BY <1>1, <2>1 DEF TrustInv, Tried
<1>6. ASSUME NEW q \in Procs, Busy(q)' PROVE Intends(pc[q], job[q])'
  <2>1. CASE q # p
    <3>1. Intends(pc'[q], job'[q])
      BY <1>1, <1>6, <2>1 DEF TrustInv, Busy
    <3>2. \A at, k : at = pc'[q] /\ k = job'[q] => Intends(at, k)'
      BY <3>1, TrustGrows
    <3>. QED BY <3>2
  <2>2. CASE q = p /\ pc[p] = "append"
    <3>1. Tried(j.task)
      BY <1>2 DEF Intends
    <3>2. ASSUME j.task.state = "verified"
          PROVE  \A t, task : t = j.id /\ task = j.task => Backed(t, task)'
      <4>1. CASE e.action = "verification.failed"
        <5>1. Backed(j.id, j.task)
          BY <1>2, <2>2, <3>2, <4>1 DEF Intends
        <5>. QED BY <5>1, TrustGrows
      <4>2. CASE e.action # "verification.failed"
        <5>1. e.task = j.task /\ e.action = "task.verified"
          BY <1>2, <2>2, <3>2, <4>2 DEF JobBound, Auditable
        <5>. HIDE DEF n
        <5>. QED BY <1>1, <1>2, <5>1 DEF Backed
      <4>. QED BY <4>1, <4>2
    <3>3. \A at, k : at = "write" /\ k = j => Intends(at, k)'
      BY <3>1, <3>2 DEF Intends, Appending, Tried
    <3>4. \A at, k : at = pc'[q] /\ k = job'[q] => Intends(at, k)'
      BY <1>1, <2>2, <3>3
    <3>. QED BY <3>4
  <2>3. CASE q = p /\ pc[p] = "begin"
    <3>1. e.action = "verification.started" /\ Tried(j.task) /\ j.task.state = "submitted"
      BY <1>2, <2>3 DEF JobBound, Intends
    <3>2. \A f : f = e => StartedBy(f)'
      <4>1. n \in Starts(e.run)'
        <5>. HIDE DEF n
        <5>. QED BY <1>1, <3>1 DEF Starts
      <4>. HIDE DEF n
      <4>. QED BY <1>1, <4>1 DEF StartedBy, Starts
    <3>3. \A at, k : at = "validate" /\ k = j => Intends(at, k)'
      BY <1>3, <3>1, <3>2 DEF Intends, Tried
    <3>4. \A at, k : at = pc'[q] /\ k = job'[q] => Intends(at, k)'
      BY <1>1, <2>3, <3>3
    <3>. QED BY <3>4
  <2>4. CASE q = p /\ pc[p] = "record"
    BY <1>1, <1>6, <2>4 DEF Busy
  <2>. QED BY <1>1, <2>1, <2>2, <2>3, <2>4
<1>. QED BY <1>4, <1>5, <1>6 DEF TrustInv

LEMMA TrustStep ==
    ASSUME TypeOK, TypeOK', BusyInv, TrustInv, [Next]_vars
    PROVE  TrustInv'
<1>1. ASSUME ledger' = ledger,
             \A t \in Tasks : Tried(projection'[t])
                              /\ (projection'[t].state = "verified" => Backed(t, projection'[t])),
             \A q \in Procs : Busy(q)' => Intends(pc'[q], job'[q])
      PROVE  TrustInv'
  <2>1. \A i \in 1..Len(ledger) : \A f : f = ledger[i] => Auditable(f)'
    BY <1>1, TrustStands DEF TrustInv
  <2>2. \A t \in Tasks : \A task : task = projection'[t] /\ task.state = "verified" => Backed(t, task)'
    BY <1>1, TrustStands
  <2>3. \A q \in Procs : Busy(q)' => \A at, k : at = pc'[q] /\ k = job'[q] => Intends(at, k)'
    BY <1>1, TrustStands
  <2>4. \A i \in 1..Len(ledger') :
          /\ Auditable(ledger[i])'
          /\ ledger'[i].action = "verification.restatement" => ledger'[i].note.target < i
    BY <1>1, <2>1 DEF TrustInv
  <2>5. \A t \in Tasks :
          /\ Tried(projection[t])'
          /\ projection'[t].state = "verified" => Backed(t, projection[t])'
    BY <1>1, <2>2 DEF Tried
  <2>6. \A q \in Procs : Busy(q)' => Intends(pc[q], job[q])'
    BY <2>3
  <2>. QED BY <2>4, <2>5, <2>6 DEF TrustInv
<1>2. ASSUME NEW p \in Procs, Validation(p) PROVE TrustInv'
  <2>. DEFINE e == job[p].event
              f == job'[p].event
              new == job'[p].task
  <2>1. /\ UNCHANGED <<ledger, projection>> /\ pc[p] = "validate"
        /\ \A q \in Procs : q # p => pc'[q] = pc[q] /\ job'[q] = job[q]
    BY <1>2, ValidationFacts
  <2>2. /\ Auditable(e) /\ StartedBy(e) /\ Tried(job[p].task) /\ e.task = NoTask
        /\ e.action = "verification.started" /\ OsIsolationProven
    BY <2>1 DEF TrustInv, Intends, BusyInv, Busy, JobBound, Auditable, Appending
  <2>3. Busy(p)' => Intends(pc'[p], job'[p])
    <3>1. CASE pc'[p] = "release"
      BY <3>1 DEF Busy
    <3>2. CASE pc'[p] = "record" /\ f.action = "verification.failed" /\ f.task = e.task
      <4>1. new = job[p].task
        <5>1. ValidationFails(p)
          BY <1>2, <3>2 DEF Validation, Validated, TypeOK
        <5>2. job[p] \in Job
          BY <2>1 DEF TypeOK
        <5>. QED BY <3>2, <5>1, <5>2 DEF ValidationFails, TypeOK, Job
      <4>2. Auditable(f)
        BY <2>2, <3>2 DEF Auditable
      <4>. QED BY <2>2, <3>2, <4>1, <4>2 DEF Intends
    <3>3. CASE /\ pc'[p] = "append" /\ f.action \in Verdicts /\ f.task = new /\ f.actor = e.actor
               /\ f.attempt = new.attempt /\ new.attempt = job[p].task.attempt
               /\ CanMove(job[p].task, new.state) /\ f.run = e.run /\ new.run = e.run
               /\ (new.state = "verified") = (f.action = "task.verified")
               /\ new.state \in {"verified", "rejected"}
      <4>1. job[p].task.state = "submitted"
        BY <2>1 DEF TrustInv, Busy, Intends
      <4>2. Tried(new)
        BY <2>2, <3>3, <4>1 DEF Tried
      <4>3. StartedBy(f)
        BY <2>2, <3>3 DEF StartedBy
      <4>4. Auditable(f)
        BY <2>2, <3>3, <4>2, <4>3 DEF Auditable, Verdicts
      <4>. QED BY <3>3, <4>2, <4>4 DEF Intends, Verdicts
    <3>. QED BY <1>2, <3>1, <3>2, <3>3, ValidationFacts
  <2>. QED BY <1>1, <2>1, <2>3 DEF TrustInv, Busy
<1>3. ASSUME NEW p \in Procs, WriteProjection(p) PROVE TrustInv'
  <2>1. /\ pc[p] = "write" /\ pc'[p] = "release" /\ UNCHANGED <<ledger, job>>
        /\ \A q \in Procs : q # p => pc'[q] = pc[q]
        /\ \A t \in Tasks :
             projection'[t] = IF t = job[p].id THEN job[p].task ELSE projection[t]
    BY <1>3, WriteFacts
  <2>2. Tried(job[p].task) /\ (job[p].task.state = "verified" => Backed(job[p].id, job[p].task))
    BY <2>1 DEF TrustInv, Busy, Intends
  <2>. QED BY <1>1, <2>1, <2>2 DEF TrustInv, Busy
<1>4. ASSUME Leaves PROVE TrustInv'
  BY <1>1, <1>4 DEF Leaves, TrustInv, Busy
<1>. QED BY <1>2, <1>3, <1>4, OtherSteps, TrustCall, TrustAppend DEF Next, Progress, TakesOver

\* A restated event has a last restatement, the one that decides.
LastRestated ==
    \A i \in 1..Len(ledger) :
        \E j \in 1..Len(ledger) : IsLatestRestatement(j, ledger[i].note.target)

LEMMA LastRestatedStep ==
    ASSUME TypeOK, LastRestated, [Next]_vars
    PROVE  LastRestated'
<1>1. CASE UNCHANGED ledger
  BY <1>1 DEF LastRestated, IsLatestRestatement
<1>2. ASSUME NEW p \in Procs, AppendStep(p) PROVE LastRestated'
  <2>. DEFINE e == job[p].event
              n == Len(ledger) + 1
  <2>1. /\ Len(ledger) \in Nat /\ n \in Nat /\ Len(ledger') = n
        /\ 1..Len(ledger') = 1..Len(ledger) \union {n}
        /\ \A i \in 1..Len(ledger) : ledger'[i] = ledger[i] /\ i < n
        /\ ledger'[n] = e
    BY <1>2, AppendFacts
  <2>2. SUFFICES ASSUME NEW i \in 1..Len(ledger')
                 PROVE  \E j \in 1..Len(ledger') : IsLatestRestatement(j, ledger[i].note.target)'
    BY DEF LastRestated, IsLatestRestatement
  <2>3. CASE e.note.target = ledger'[i].note.target
    <3>1. (n + 1)..Len(ledger') = {} /\ n \in 1..Len(ledger')
      BY <2>1
    <3>. HIDE DEF n
    <3>. QED BY <2>1, <2>3, <3>1 DEF IsLatestRestatement
  <2>4. CASE e.note.target # ledger'[i].note.target
    <3>1. i \in 1..Len(ledger) /\ ledger'[i] = ledger[i]
      <4>. HIDE DEF n, e
      <4>. QED BY <2>1, <2>4
    <3>2. PICK j \in 1..Len(ledger) : IsLatestRestatement(j, ledger[i].note.target)
      BY <3>1 DEF LastRestated
    <3>3. \A m \in (j + 1)..Len(ledger') : m = n \/ m \in (j + 1)..Len(ledger)
      BY <2>1
    <3>4. \A m \in (j + 1)..Len(ledger) : ledger'[m] = ledger[m]
      BY <2>1
    <3>5. \A m \in (j + 1)..Len(ledger) : ledger'[m].note.target # ledger'[i].note.target
      BY <3>1, <3>2, <3>4 DEF IsLatestRestatement
    <3>6. j \in 1..Len(ledger') /\ ledger'[j].note.target = ledger'[i].note.target
      <4>. HIDE DEF n, e
      <4>. QED BY <2>1, <3>1, <3>2 DEF IsLatestRestatement
    <3>7. \A m \in (j + 1)..Len(ledger') : ledger'[m].note.target # ledger'[i].note.target
      <4>. HIDE DEF n, e
      <4>. QED BY <2>1, <2>4, <3>3, <3>5
    <3>. QED BY <3>6, <3>7 DEF IsLatestRestatement
  <2>. QED BY <2>3, <2>4
<1>. QED BY <1>1, <1>2, OnlyAppendsSign

\* What the audits need of a restatement: it is the orchestrator's, and about an
\* earlier verdict on the same task.
Restated(i) ==
    /\ ledger[i].action = "verification.restatement" /\ OsIsolationProven
    /\ ledger[i].actor = Orchestrator /\ ledger[i].note.status \in Statuses
    /\ ledger[i].note.target \in 1..Len(ledger) /\ ledger[i].note.target < i
    /\ ledger[ledger[i].note.target].action = "task.verified"
    /\ ledger[ledger[i].note.target].id = ledger[i].id

\* And of a verdict: its run is complete, and its verifier independent.
Sound(k) ==
    /\ OsIsolationProven
    /\ ledger[k].task.state = "verified" /\ ledger[k].task.run = ledger[k].run
    /\ ledger[k].task.attempt = ledger[k].attempt /\ ledger[k].task.attempt >= 1
    /\ \E s \in Starts(ledger[k].run) : ledger[s].id = ledger[k].id /\ RunValid(s, k)
    /\ evaluate_independence(Identity[Owner[ledger[k].id]], Identity[ledger[k].actor])
    /\ AuditedIndependence(k)

LEMMA RestatementsSound ==
    ASSUME TypeOK, RevocationInv, TrustInv, NEW i \in 1..Len(ledger),
           \/ ledger[i].action = "verification.restatement"
           \/ ledger[i].note.target # 0 \/ ledger[i].note.status \in Statuses
    PROVE  Restated(i)
<1>1. ledger[i].action = "verification.restatement"
  <2>1. NoNote.target = 0 /\ NoNote.status \notin Statuses
    BY DEF NoNote, Statuses
  <2>. QED BY <2>1 DEF RevocationInv
<1>. QED BY <1>1 DEF TrustInv, Auditable, Restated

LEMMA VerdictsSound ==
    ASSUME TypeOK, ~robbed, RunInv, VerdictInv, TrustInv,
           NEW k \in 1..Len(ledger), ledger[k].action = "task.verified"
    PROVE  Sound(k)
<1>. DEFINE e == ledger[k]
            r == e.run
<1>1. e \in Event /\ Auditable(e)
  BY DEF TypeOK, TrustInv
<1>2. /\ OsIsolationProven /\ StartedBy(e) /\ e.task.state = "verified"
      /\ e.task.run = r /\ e.task.attempt = e.attempt /\ Tried(e.task)
  BY <1>1 DEF Auditable
<1>3. e.task.attempt >= 1
  <2>1. e.task.attempt \in Nat
    BY <1>1 DEF Event, Task
  <2>. QED BY <1>2, <2>1 DEF Tried
<1>4. \E s \in Starts(r) : ledger[s].id = e.id /\ RunValid(s, k)
  <2>1. r \in 1..secrets /\ k \in Terminals(r)
    BY DEF RunInv, RunActions, TerminalActions, Terminals
  <2>2. PICK s \in Starts(r) : s < k /\ ledger[s].id = e.id /\ ledger[s].attempt = e.attempt
    BY <2>1 DEF RunInv, OneTerminalPerRun, Undisturbed
  <2>3. Starts(r) = {s} /\ Terminals(r) = {k}
    BY <2>1, <2>2 DEF RunInv, OneTerminalPerRun, Undisturbed
  <2>4. ledger[s].actor = e.actor /\ ledger[s].run = r
    BY <1>2, <2>3 DEF StartedBy, Starts
  <2>. QED BY <1>2, <2>2, <2>3, <2>4 DEF RunValid, BindingValid
<1>5. PICK s \in 1..(k - 1) :
        /\ ledger[s].action = "task.submitted" /\ ledger[s].id = e.id
        /\ evaluate_independence(Identity[ledger[s].actor], Identity[e.actor])
        /\ \A j \in (s + 1)..(k - 1) : ~(ledger[j].action = "task.submitted" /\ ledger[j].id = e.id)
  BY DEF VerdictInv, JudgedIndependently
<1>6. s \in 1..Len(ledger) /\ s < k
  <2>1. Len(ledger) \in Nat
    BY DEF TypeOK
  <2>. QED BY <2>1
<1>7. ledger[s].actor = Owner[e.id]
  BY <1>5, <1>6 DEF TrustInv, Auditable
<1>8. AuditedIndependence(k)
  BY <1>5, <1>6 DEF AuditedIndependence, AuditedSubmission, Indices
<1>. QED BY <1>2, <1>3, <1>4, <1>5, <1>7, <1>8 DEF Sound

LEMMA AuditsAccept ==
    ASSUME TypeOK, NothingAfterRevocation,
           \A i \in 1..Len(ledger) :
               ledger[i].action = "verification.restatement" => Restated(i),
           \A k \in 1..Len(ledger) : ledger[k].action = "task.verified" => Sound(k)
    PROVE  AuditValid /\ \A t : RestatementsAccepted(t)
<1>1. ASSUME NEW i \in Indices, ledger[i].action = "verification.restatement"
      PROVE  \E k \in Indices :
               /\ Restates(i, k)
               /\ ~ \E j \in 1..(i - 1) : /\ Restates(j, k)
                                          /\ ledger[j].note.status = "verification_revoked"
                                          /\ ledger[i].note.status # "verification_revoked"
  <2>. DEFINE k == ledger[i].note.target
  <2>1. k \in Indices /\ Restates(i, k)
    BY <1>1 DEF Restated, Restates, Indices
  <2>2. \A j \in 1..(i - 1) : j \in 1..Len(ledger) /\ j < i
    <3>1. Len(ledger) \in Nat
      BY DEF TypeOK
    <3>. QED BY <3>1 DEF Indices
  <2>3. \A j \in 1..(i - 1) : Restates(j, k) => ledger[j].note.status # "verification_revoked"
    BY <2>2 DEF NothingAfterRevocation, Restates, Indices
  <2>. QED BY <2>1, <2>3
<1>2. \A k \in Indices : ledger[k].action = "task.verified" => AuditedIndependence(k)
  BY DEF Sound, Indices
<1>3. ASSUME NEW t PROVE RestatementsAccepted(t)
  <2>1. \A i \in Restatements(t) :
          i \in 1..Len(ledger) /\ ledger[i].id = t /\ Restated(i)
    BY DEF Restatements, Indices
  <2>. QED BY <2>1 DEF RestatementsAccepted, Restated, ReceiptTrusted, Indices, NothingAfterRevocation
<1>. QED BY <1>1, <1>2, <1>3 DEF AuditValid

\* The last restatement of the one verdict on the attempt decides, and a
\* revocation is the last one.
LEMMA RestatementDecides ==
    ASSUME TypeOK, NothingAfterRevocation, LastRestated, NEW t, NEW k \in 1..Len(ledger),
           ledger[k].action = "task.verified", ledger[k].id = t, AuditedIndependence(k),
           \A i \in 1..Len(ledger) : ledger[i].note.target = k => Restated(i)
    PROVE  LET Said(status) == \E i \in 1..Len(ledger) :
                                  ledger[i].note.target = k /\ ledger[i].note.status = status
           IN \/ /\ Said("verification_revoked")
                 /\ Effective(t, k) = {"verification_revoked"}
                 /\ AuditStatus(k) = "verification_revoked"
              \/ /\ ~Said("verification_revoked") /\ Said("verification_disputed")
                 /\ Effective(t, k) = {"verification_disputed"}
                 /\ AuditStatus(k) = "verification_disputed"
              \/ /\ ~Said("verification_revoked") /\ ~Said("verification_disputed")
                 /\ Effective(t, k) = {}
                 /\ AuditStatus(k) = "verified"
<1>. DEFINE about == {i \in 1..Len(ledger) : ledger[i].note.target = k}
            Latest(i) == i \in about /\ \A m \in about : m <= i
            Said(status) == \E i \in about : ledger[i].note.status = status
<1>1. \A i \in about : i \in Nat /\ ledger[i].id = t /\ ledger[i].note.status \in Statuses
                       /\ ledger[i].action = "verification.restatement" /\ Restates(i, k)
  BY DEF Restated, Restates
<1>2. \A i \in Indices : Restates(i, k) => i \in about
  BY DEF Restates, Indices
<1>3. Effective(t, k) = {ledger[i].note.status : i \in {j \in about : \A m \in about : m <= j}}
  <2>1. {i \in Restatements(t) : ledger[i].note.target = k} = about
    BY <1>1 DEF Restatements, Indices
  <2>. QED BY <2>1 DEF Effective
<1>4. \A i, j : Latest(i) /\ Latest(j) => i = j
  BY <1>1
<1>5. \A i : Latest(i) => Effective(t, k) = {ledger[i].note.status}
  <2>. HIDE DEF about
  <2>. QED BY <1>3, <1>4
<1>6. CASE Said("verification_revoked")
  <2>1. PICK i \in about : ledger[i].note.status = "verification_revoked"
    BY <1>6
  <2>2. Latest(i)
    BY <1>1, <2>1 DEF NothingAfterRevocation
  <2>3. AuditStatus(k) = "verification_revoked"
    BY <1>1, <2>1 DEF AuditStatus, Indices
  <2>. QED BY <1>5, <2>1, <2>2, <2>3
<1>7. CASE ~Said("verification_revoked") /\ about # {}
  <2>1. PICK i : Latest(i)
    <3>1. PICK m \in about : TRUE
      BY <1>7
    <3>2. PICK i \in 1..Len(ledger) : IsLatestRestatement(i, k)
      BY <3>1 DEF LastRestated
    <3>3. Len(ledger) \in Nat
      BY DEF TypeOK
    <3>4. Latest(i)
      BY <3>2, <3>3 DEF IsLatestRestatement
    <3>. QED BY <3>4
  <2>2. ledger[i].note.status = "verification_disputed"
    BY <1>1, <1>7, <2>1 DEF Statuses
  <2>3. AuditStatus(k) = "verification_disputed"
    <3>1. ~ \E m \in Indices : Restates(m, k) /\ ledger[m].note.status = "verification_revoked"
      BY <1>2, <1>7
    <3>2. \E m \in Indices : Restates(m, k)
      BY <1>1, <2>1 DEF Indices
    <3>. QED BY <3>1, <3>2 DEF AuditStatus
  <2>. QED BY <1>5, <1>7, <2>1, <2>2, <2>3
<1>8. CASE about = {}
  <2>1. Effective(t, k) = {}
    BY <1>3, <1>8
  <2>2. AuditStatus(k) = "verified"
    BY <1>2, <1>8 DEF AuditStatus
  <2>. QED BY <1>8, <2>1, <2>2
<1>. QED BY <1>6, <1>7, <1>8

LEMMA TrustRead ==
    ASSUME TypeOK, ~robbed, RunInv, VerdictInv, RevocationInv, TrustInv, LastRestated
    PROVE  TrustFollowsLedger
<1>1. \A i \in 1..Len(ledger) :
        \/ ledger[i].action = "verification.restatement"
        \/ ledger[i].note.target # 0 \/ ledger[i].note.status \in Statuses
        => Restated(i)
  BY RestatementsSound
<1>2. \A k \in 1..Len(ledger) : ledger[k].action = "task.verified" => Sound(k)
  BY VerdictsSound
<1>3. NothingAfterRevocation
  BY DEF RevocationInv
<1>4. AuditValid /\ \A t : RestatementsAccepted(t)
  BY <1>1, <1>2, <1>3, AuditsAccept
<1>5. ASSUME NEW t \in Tasks, projection[t].state = "verified"
      PROVE  LET task == projection[t]
                 verdicts == {i \in Indices : /\ ledger[i].action = "task.verified"
                                              /\ ledger[i].id = t
                                              /\ ledger[i].attempt = task.attempt}
                 Said(status) == \E i \in Indices, k \in verdicts :
                                    ledger[i].note.target = k /\ ledger[i].note.status = status
             IN /\ TrustState(t, task) =
                     IF \E i, j \in verdicts : i # j THEN "verification_disputed"
                     ELSE IF Said("verification_revoked") THEN "verification_revoked"
                     ELSE IF Said("verification_disputed") THEN "verification_disputed"
                     ELSE "verified"
                /\ \A k \in verdicts : verdicts = {k} => TrustState(t, task) = AuditStatus(k)
  <2>. DEFINE task == projection[t]
              verdicts == {i \in Indices : /\ ledger[i].action = "task.verified"
                                           /\ ledger[i].id = t
                                           /\ ledger[i].attempt = task.attempt}
              Said(status) == \E i \in Indices, k \in verdicts :
                                 ledger[i].note.target = k /\ ledger[i].note.status = status
  <2>1. PICK b \in 1..Len(ledger) :
          ledger[b].action = "task.verified" /\ ledger[b].id = t /\ ledger[b].task = task
    BY <1>5 DEF TrustInv, Backed
  <2>2. Sound(b) /\ b \in verdicts
    BY <1>2, <2>1 DEF Sound, Indices
  <2>3. Candidates(t, task) = verdicts
    BY <1>2 DEF Candidates, Sound, Indices
  <2>4. \A i : Authoritative(t, task, i) => verdicts = {i}
    BY <2>3 DEF Authoritative
  <2>5. CASE \E i, j \in verdicts : i # j
    <3>1. ~ \E k \in Indices : Authoritative(t, task, k)
      BY <2>4, <2>5
    <3>2. TrustState(t, task) = "verification_disputed"
      BY <1>5, <3>1 DEF TrustState
    <3>3. \A k : verdicts # {k}
      BY <2>5
    <3>. QED BY <2>5, <3>2, <3>3
  <2>6. CASE \A i, j \in verdicts : i = j
    <3>1. verdicts = {b}
      BY <2>2, <2>6
    <3>2. Authoritative(t, task, b)
      BY <1>5, <2>1, <2>2, <2>3, <3>1
         DEF Authoritative, AuthoritativeTerminal, Sound, ReceiptTrusted
    <3>3. (CHOOSE i \in Indices : Authoritative(t, task, i)) = b
      BY <2>1, <2>4, <3>1, <3>2 DEF Indices
    <3>4. TrustState(t, task) =
            IF Effective(t, b) = {} THEN "verified" ELSE CHOOSE s \in Effective(t, b) : TRUE
      <4>1. \E k \in Indices :
              /\ Authoritative(t, task, k)
              /\ evaluate_independence(Identity[Owner[t]], Identity[ledger[k].actor])
              /\ RestatementsAccepted(t)
        BY <1>4, <2>1, <2>2, <3>2 DEF Sound, Indices
      <4>2. task.state = "verified" /\ task.state \in {"verified", "archived"}
        BY <1>5
      <4>. DEFINE k == CHOOSE i \in Indices : Authoritative(t, task, i)
      <4>3. TrustState(t, task) =
              IF Effective(t, k) = {} THEN task.state ELSE CHOOSE s \in Effective(t, k) : TRUE
        <5>. HIDE DEF task
        <5>. QED BY <4>1, <4>2, Zenon DEF TrustState
      <4>4. k = b
        BY <3>3
      <4>. HIDE DEF task, k
      <4>. QED BY <4>2, <4>3, <4>4
    <3>5. \A s : (CHOOSE x \in {s} : TRUE) = s
      OBVIOUS
    <3>6. \A i \in 1..Len(ledger) : ledger[i].note.target = b => Restated(i)
      BY <1>1
    <3>7. \A status : Said(status) <=> \E i \in 1..Len(ledger) :
                        ledger[i].note.target = b /\ ledger[i].note.status = status
      BY <3>1 DEF Indices
    <3>8. /\ TrustState(t, task) = IF Said("verification_revoked") THEN "verification_revoked"
                                   ELSE IF Said("verification_disputed")
                                   THEN "verification_disputed" ELSE "verified"
          /\ TrustState(t, task) = AuditStatus(b)
      <4>1. AuditedIndependence(b)
        BY <2>2 DEF Sound
      <4>. HIDE DEF task, verdicts, Said
      <4>. QED BY <1>3, <2>1, <3>4, <3>5, <3>6, <3>7, <4>1, RestatementDecides
    <3>. QED BY <2>6, <3>1, <3>8
  <2>. QED BY <2>5, <2>6
<1>. QED BY <1>4, <1>5 DEF TrustFollowsLedger

\* Until a waiter unlinks the lock of a live process, what task_trust_projection
\* tells of a file that says "verified" is what was signed, whatever dies and
\* however long the validations run: revoked once the verdict was, disputed when
\* it was or when one attempt has two verdicts, and trusted otherwise; the
\* doctor's audit_verification_events accepts every such history and agrees on
\* each single verdict.
THEOREM TrustFollows == Spec => []TrustFollowsLedger
<1>. DEFINE Inv == VerdictInv /\ RevocationInv /\ TrustInv /\ LastRestated
            Knows == RunInv /\ (~robbed => Inv)
<1>1. Init => Knows
  <2>. SUFFICES ASSUME Init PROVE Knows
    OBVIOUS
  <2>1. RunInv
    BY DEF Init, RunInv, OneTerminalPerRun, RunOpen
  <2>2. \A t \in Tasks : projection[t].state = "absent" /\ projection[t].lease.holder = Nobody
    BY DEF Init, NoTask, NoLease
  <2>3. \A p \in Procs : SubmissionBehind(p) /\ ~Busy(p)
    BY DEF Init, SubmissionBehind, Busy
  <2>4. Len(ledger) = 0
    BY DEF Init
  <2>5. VerdictInv
    BY <2>2, <2>3, <2>4 DEF VerdictInv, JudgedIndependently
  <2>6. RevocationInv
    BY DEF Init, RevocationInv, NothingAfterRevocation, Appending
  <2>7. TrustInv /\ LastRestated
    BY <2>2, <2>3, <2>4 DEF TrustInv, LastRestated, Tried
  <2>. QED BY <2>1, <2>5, <2>6, <2>7
<1>2. ASSUME TypeOK, TypeOK', LockInv, ~robbed => BusyInv, Knows, [Next]_vars PROVE Knows'
  <2>1. RunInv'
    BY <1>2, RunStep
  <2>. SUFFICES ASSUME ~robbed' PROVE Inv'
    BY <2>1
  <2>2. ~robbed
    BY <1>2, HistoriesStay
  <2>3. TaskLockExclusive /\ BusyInv /\ RunInv /\ Inv
    BY <1>2, <2>2 DEF LockInv
  <2>. QED BY <1>2, <2>2, <2>3, VerdictStep, RevocationStep, TrustStep, LastRestatedStep
<1>3. TypeOK /\ Knows => TrustFollowsLedger
  BY TrustRead DEF TrustFollowsLedger, Undisturbed
<1>. HIDE DEF Knows
<1>. QED BY <1>1, <1>2, <1>3, TypeCorrect, LocksHeld, BusyHeld, PTL DEF Spec

-----------------------------------------------------------------------------
(* Model families *)

\* Behind place n, the label has only roles.
RolesBehind(family, n) == \A k \in (n + 1)..Len(family) : family[k] \in MODEL_ROLE_SUFFIXES
Shortest(family, n) ==
    /\ n \in 1..Len(family) /\ RolesBehind(family, n)
    /\ \A m \in 1..(n - 1) : ~ RolesBehind(family, m)

\* A set of numbers that is not empty has a least one.
LEMMA LeastNumber ==
  ASSUME NEW T, T \subseteq Nat, T # {}
  PROVE  \E n \in T : \A m \in T : n <= m
<1>1. PICK x \in T : \A y \in T : ~ (<<y, x>> \in OpToRel(<, Nat))
  BY WFMin, NatLessThanWellFounded, Zenon
<1>2. \A y \in T : ~ (y < x)
  BY <1>1 DEF OpToRel
<1> QED
  BY <1>2

\* The canonical family is the label up to the only place that is shortest.
LEMMA FamilyShortest ==
  ASSUME NEW S, NEW family \in Seq(S), family # <<>>
  PROVE  /\ \E n : Shortest(family, n)
         /\ \A n : Shortest(family, n) => canonical_model_family(family) = SubSeq(family, 1, n)
<1> DEFINE T == {n \in 1..Len(family) : RolesBehind(family, n)}
<1>1. Len(family) \in Nat \ {0}
  OBVIOUS
<1>2. Len(family) \in T
  BY <1>1 DEF RolesBehind
<1>3. PICK n \in T : \A m \in T : n <= m
  <2>1. T \subseteq Nat /\ T # {}
    BY <1>1, <1>2
  <2> HIDE DEF T
  <2> QED
    BY <2>1, LeastNumber
<1>4. Shortest(family, n)
  <2>1. \A m \in 1..(n - 1) : m \in 1..Len(family) /\ ~ (n <= m)
    BY <1>1
  <2> QED
    BY <2>1, <1>3 DEF Shortest
<1>5. \A m, k : Shortest(family, m) /\ Shortest(family, k) => m = k
  <2> SUFFICES ASSUME NEW m, NEW k, Shortest(family, m), Shortest(family, k) PROVE m = k
    OBVIOUS
  <2>1. m \in 1..Len(family) /\ k \in 1..Len(family)
    BY DEF Shortest
  <2>2. ~ m \in 1..(k - 1) /\ ~ k \in 1..(m - 1)
    BY DEF Shortest
  <2> QED
    BY <1>1, <2>1, <2>2
<1>6. canonical_model_family(family) = SubSeq(family, 1, CHOOSE k \in 1..Len(family) :
          RolesBehind(family, k) /\ \A m \in 1..(k - 1) : ~ RolesBehind(family, m))
  BY DEF canonical_model_family, RolesBehind
<1> DEFINE c == CHOOSE k \in 1..Len(family) :
          RolesBehind(family, k) /\ \A m \in 1..(k - 1) : ~ RolesBehind(family, m)
<1>7. Shortest(family, c)
  BY <1>4 DEF Shortest
<1> HIDE DEF c
<1>8. canonical_model_family(family) = SubSeq(family, 1, c)
  BY <1>6 DEF c
<1> QED
  BY <1>4, <1>5, <1>7, <1>8

\* A role put behind a label does not change its family.
LEMMA RoleIgnored ==
  ASSUME NEW S, NEW family \in Seq(S), family # <<>>, NEW role \in S, role \in MODEL_ROLE_SUFFIXES
  PROVE  canonical_model_family(Append(family, role)) = canonical_model_family(family)
<1> DEFINE longer == Append(family, role)
           len == Len(family)
<1>1. /\ longer \in Seq(S) /\ longer # <<>> /\ len \in Nat \ {0} /\ Len(longer) = len + 1
      /\ longer[len + 1] = role /\ \A k \in 1..len : longer[k] = family[k]
  OBVIOUS
<1> HIDE DEF longer, len
<1>2. \A n \in 1..len : RolesBehind(longer, n) <=> RolesBehind(family, n)
  BY <1>1 DEF RolesBehind, len
<1>3. PICK n : Shortest(family, n)
  BY FamilyShortest
<1>4. n \in 1..len /\ n \in 1..Len(longer) /\ \A m \in 1..(n - 1) : m \in 1..len
  BY <1>1, <1>3 DEF Shortest, len
<1>5. Shortest(longer, n)
  BY <1>2, <1>3, <1>4 DEF Shortest
<1>6. SubSeq(longer, 1, n) = SubSeq(family, 1, n)
  BY <1>1, <1>4 DEF len
<1> QED
  BY <1>1, <1>3, <1>5, <1>6, FamilyShortest DEF longer

-----------------------------------------------------------------------------
(* Registered agents *)

\* The chain of a registered agent, which is empty without an identity
Chain(r, a) == IF r[a].declared THEN r[a].alias_chain ELSE <<>>

\* An identity as add_agent builds it
IsDeclaration(d) == \E alias, principal, family, chain : d = Declaration(alias, principal, family, chain)

\* d has the identity of an alias of e, with the target at place k of its chain.
Aliases(d, e, k) ==
    /\ e.declared
    /\ e.control_principal = d.control_principal /\ e.model_family = d.model_family
    /\ e.alias_chain = SubSeq(d.alias_chain, k + 1, Len(d.alias_chain))

\* What add_agent makes of a registry: every alias has the identity of its target,
\* and its chain is the target and the chain of the target.
FlatAt(r, a) ==
    /\ IsDeclaration(r[a])
    /\ r[a].alias_chain \in Seq(DOMAIN r) /\ IsInjective(<<a>> \o r[a].alias_chain)
    /\ r[a].alias_of = IF r[a].alias_chain = <<>> THEN NoAlias ELSE r[a].alias_chain[1]
    /\ \A k \in 1..Len(r[a].alias_chain) : Aliases(r[a], r[r[a].alias_chain[k]], k)
Flat(r) == NoAlias \notin DOMAIN r /\ \A a \in DOMAIN r : r[a] = Undeclared \/ FlatAt(r, a)

\* The registry with one more agent
Registered(r, name, d) == [a \in DOMAIN r \union {name} |-> IF a = name THEN d ELSE r[a]]

\* An agent of a flat registry is declared or undeclared, nothing else.
LEMMA FlatDeclared ==
  ASSUME NEW r, Flat(r), NEW a \in DOMAIN r
  PROVE  (r[a].declared <=> r[a].declared = TRUE) /\ (r[a].declared => FlatAt(r, a))
         /\ (~ r[a].declared => r[a] = Undeclared)
<1>1. Undeclared.declared = FALSE
  BY DEF Undeclared
<1>2. IsDeclaration(r[a]) => r[a].declared = TRUE
  BY DEF IsDeclaration, Declaration
<1> QED
  BY <1>1, <1>2 DEF Flat, FlatAt

\* A registry stays flat when others are added to it.
LEMMA FlatKept ==
  ASSUME NEW r, NEW name, name \notin DOMAIN r, NEW d, NEW a \in DOMAIN r, FlatAt(r, a)
  PROVE  FlatAt(Registered(r, name, d), a)
<1> DEFINE s == Registered(r, name, d)
           chain == r[a].alias_chain
<1>1. DOMAIN s = DOMAIN r \union {name} /\ \A b \in DOMAIN r : s[b] = r[b]
  BY DEF Registered
<1> HIDE DEF s
<1>2. chain \in Seq(DOMAIN r)
  BY DEF FlatAt
<1>3. chain \in Seq(DOMAIN s)
  BY <1>1, <1>2
<1>4. \A k \in 1..Len(chain) : chain[k] \in DOMAIN r /\ s[chain[k]] = r[chain[k]]
  BY <1>1, <1>2
<1>5. \A k \in 1..Len(chain) : Aliases(r[a], s[chain[k]], k)
  BY <1>4 DEF FlatAt
<1>6. s[a] = r[a]
  BY <1>1
<1> QED
  BY <1>3, <1>5, <1>6 DEF FlatAt, s

\* The target of an alias, put in front of the chain of the target
LEMMA ChainCons ==
  ASSUME NEW S, NEW t \in S, NEW c \in Seq(S)
  PROVE  LET chain == <<t>> \o c IN
         /\ chain \in Seq(S) /\ Len(chain) = Len(c) + 1 /\ Len(c) \in Nat /\ chain # <<>> /\ chain[1] = t
         /\ \A k \in 1..Len(c) : chain[k + 1] = c[k]
         /\ \A k \in 2..Len(chain) : k - 1 \in 1..Len(c) /\ chain[k] = c[k - 1]
         /\ SubSeq(chain, 2, Len(chain)) = c
         /\ \A k \in 1..Len(c) : SubSeq(chain, k + 2, Len(chain)) = SubSeq(c, k + 1, Len(c))
OBVIOUS

\* A name that is not in a chain may be put in front of it.
LEMMA ChainInjective ==
  ASSUME NEW S, NEW c \in Seq(S), IsInjective(c), NEW x, x \notin S
  PROVE  IsInjective(<<x>> \o c)
<1> DEFINE longer == <<x>> \o c
           len == Len(c)
<1>1. /\ len \in Nat /\ DOMAIN c = 1..len /\ DOMAIN longer = 1..(len + 1) /\ longer[1] = x
      /\ \A k \in 1..(len + 1) : k # 1 => k - 1 \in 1..len /\ longer[k] = c[k - 1] /\ c[k - 1] \in S
  OBVIOUS
<1> HIDE DEF longer, len
<1>2. SUFFICES ASSUME NEW k \in 1..(len + 1), NEW m \in 1..(len + 1), longer[k] = longer[m] PROVE k = m
  BY <1>1 DEF IsInjective, longer
<1>3. CASE k = 1 \/ m = 1
  BY <1>1, <1>2, <1>3
<1>4. CASE k # 1 /\ m # 1
  <2>1. k - 1 = m - 1
    BY <1>1, <1>2, <1>4 DEF IsInjective
  <2> QED
    BY <1>1, <2>1
<1> QED
  BY <1>3, <1>4

\* add_agent keeps a registry flat, for an alias
LEMMA AliasFlat ==
  ASSUME NEW r, Flat(r), NEW name, name \notin DOMAIN r, name # NoAlias, NEW target, MayAlias(r, target)
  PROVE  Flat(Registered(r, name, AliasOf(r, target)))
<1> DEFINE d == AliasOf(r, target)
           s == Registered(r, name, d)
           c == r[target].alias_chain
           chain == <<target>> \o c
<1>1. DOMAIN s = DOMAIN r \union {name} /\ s[name] = d /\ \A b \in DOMAIN r : s[b] = r[b]
  BY DEF Registered
<1>2. target \in DOMAIN r /\ FlatAt(r, target) /\ IsInjective(chain)
  BY FlatDeclared DEF MayAlias, Buildable
<1>3. c \in Seq(DOMAIN r)
  BY <1>2 DEF FlatAt
<1>4. d = Declaration(target, r[target].control_principal, r[target].model_family, chain)
  <2>1. PICK alias, principal, family, old : r[target] = Declaration(alias, principal, family, old)
    BY <1>2 DEF FlatAt, IsDeclaration
  <2>2. r[target].control_principal = principal /\ r[target].model_family = family /\ c = old
    BY <2>1 DEF Declaration
  <2>3. d = Declaration(target, principal, family, <<target>> \o old)
    <3>1. d = [Declaration(alias, principal, family, old) EXCEPT !.alias_of = target,
                                                                 !.alias_chain = <<target>> \o old]
      BY <2>1, <2>2 DEF AliasOf
    <3> QED
      BY <3>1 DEF Declaration
  <2> QED
    BY <2>2, <2>3
<1> HIDE DEF d, s, c, chain
<1>5. /\ IsDeclaration(d) /\ d.alias_of = target /\ d.alias_chain = chain
      /\ d.control_principal = r[target].control_principal /\ d.model_family = r[target].model_family
  BY <1>4 DEF IsDeclaration, Declaration
<1>6. /\ chain \in Seq(DOMAIN r) /\ Len(chain) = Len(c) + 1 /\ Len(c) \in Nat
      /\ chain # <<>> /\ chain[1] = target
      /\ \A k \in 2..Len(chain) : k - 1 \in 1..Len(c) /\ chain[k] = c[k - 1]
      /\ SubSeq(chain, 2, Len(chain)) = c
      /\ \A k \in 1..Len(c) : SubSeq(chain, k + 2, Len(chain)) = SubSeq(c, k + 1, Len(c))
  BY <1>2, <1>3, ChainCons DEF chain
<1>7. \A k \in 1..Len(chain) : chain[k] \in DOMAIN r
  <2>1. chain \in Seq(DOMAIN r)
    BY <1>6
  <2> QED
    BY <2>1
<1>8. IsInjective(<<name>> \o chain)
  BY <1>2, <1>6, ChainInjective
<1>9. ASSUME NEW k \in 1..Len(chain) PROVE Aliases(d, s[chain[k]], k)
  <2>1. s[chain[k]] = r[chain[k]]
    BY <1>1, <1>7
  <2>2. CASE k = 1
    <3>1. r[target].declared
      BY DEF MayAlias
    <3> QED
      BY <1>5, <1>6, <2>1, <2>2, <3>1 DEF Aliases, c
  <2>3. CASE k # 1
    <3>1. k \in 2..Len(chain) /\ k - 1 \in 1..Len(c) /\ (k - 1) + 2 = k + 1 /\ (k - 1) + 1 = k
      BY <1>6, <2>3
    <3>2. chain[k] = c[k - 1] /\ SubSeq(chain, k + 1, Len(chain)) = SubSeq(c, k, Len(c))
      BY <1>6, <3>1
    <3>3. Aliases(r[target], r[c[k - 1]], k - 1)
      BY <1>2, <3>1 DEF FlatAt, c
    <3> QED
      BY <1>5, <2>1, <3>1, <3>2, <3>3 DEF Aliases, c
  <2> QED
    BY <2>2, <2>3
<1>10. chain \in Seq(DOMAIN s)
  <2>1. chain \in Seq(DOMAIN r) /\ DOMAIN r \subseteq DOMAIN s
    BY <1>1, <1>6
  <2> QED
    BY <2>1
<1>11. FlatAt(s, name)
  BY <1>1, <1>5, <1>6, <1>8, <1>9, <1>10 DEF FlatAt
<1>12. \A a \in DOMAIN r : s[a] = Undeclared \/ FlatAt(s, a)
  BY <1>1, FlatKept DEF Flat, s
<1> QED
  BY <1>1, <1>11, <1>12 DEF Flat, s, d

\* The same for an agent with an identity of its own, or with none
LEMMA OwnFlat ==
  ASSUME NEW r, Flat(r), NEW name, name \notin DOMAIN r, name # NoAlias, NEW d,
         d = Undeclared \/ \E principal, family : d = Declaration(NoAlias, principal, family, <<>>)
  PROVE  Flat(Registered(r, name, d))
<1> DEFINE s == Registered(r, name, d)
<1>1. DOMAIN s = DOMAIN r \union {name} /\ s[name] = d /\ \A b \in DOMAIN r : s[b] = r[b]
  BY DEF Registered
<1> HIDE DEF s
<1>2. ASSUME NEW principal, NEW family, d = Declaration(NoAlias, principal, family, <<>>)
      PROVE  FlatAt(s, name)
  <2>1. IsDeclaration(d) /\ d.alias_of = NoAlias /\ d.alias_chain = <<>>
    BY <1>2 DEF IsDeclaration, Declaration
  <2>2. <<>> \in Seq(DOMAIN r) /\ <<>> \in Seq(DOMAIN s) /\ DOMAIN <<>> = {} /\ 1..Len(<<>>) = {}
    OBVIOUS
  <2>3. IsInjective(<<name>> \o <<>>)
    BY <2>2, ChainInjective DEF IsInjective
  <2> QED
    BY <1>1, <2>1, <2>2, <2>3 DEF FlatAt
<1>3. \A a \in DOMAIN r : s[a] = Undeclared \/ FlatAt(s, a)
  BY <1>1, FlatKept DEF Flat, s
<1> QED
  BY <1>1, <1>2, <1>3 DEF Flat, s

-----------------------------------------------------------------------------
(* Independence of registered agents *)

\* The identity an agent was registered with
Snapshot(r, a) == identity_snapshot(a, r[a])

\* The fields of the identity of a registered agent
LEMMA SnapshotFields ==
  ASSUME NEW r, Flat(r), NEW a \in DOMAIN r
  PROVE  /\ Snapshot(r, a).known = r[a].declared
         /\ r[a].declared => /\ Snapshot(r, a).actor = a
                             /\ Snapshot(r, a).control_principal = r[a].control_principal
                             /\ Snapshot(r, a).model_family = r[a].model_family
                             /\ Lineage(Snapshot(r, a)) = ToSet(r[a].alias_chain) \union {a}
<1>1. CASE r[a].declared
  <2>1. r[a].declared = TRUE
    BY <1>1, FlatDeclared
  <2> QED
    BY <1>1, <2>1 DEF Snapshot, identity_snapshot, Lineage
<1>2. CASE ~ r[a].declared
  <2>1. r[a].declared = FALSE
    BY <1>2, FlatDeclared DEF Undeclared
  <2> QED
    BY <1>2, <2>1 DEF Snapshot, identity_snapshot
<1> QED
  BY <1>1, <1>2

\* Who is in the lineage of an agent has its identity, and no other lineage.
LEMMA LineageIdentity ==
  ASSUME NEW r, Flat(r), NEW a \in DOMAIN r, r[a].declared, NEW b \in Lineage(Snapshot(r, a))
  PROVE  /\ b \in DOMAIN r /\ r[b].declared
         /\ r[b].control_principal = r[a].control_principal /\ r[b].model_family = r[a].model_family
         /\ Lineage(Snapshot(r, b)) \subseteq Lineage(Snapshot(r, a))
<1> DEFINE chain == r[a].alias_chain
<1>1. FlatAt(r, a) /\ Lineage(Snapshot(r, a)) = ToSet(chain) \union {a}
  BY FlatDeclared, SnapshotFields
<1>2. CASE b = a
  BY <1>2
<1>3. CASE b # a
  <2>1. chain \in Seq(DOMAIN r)
    BY <1>1 DEF FlatAt
  <2>2. PICK k \in 1..Len(chain) : b = chain[k]
    BY <1>1, <1>3, <2>1 DEF ToSet
  <2>3. b \in DOMAIN r /\ Aliases(r[a], r[b], k)
    BY <1>1, <2>1, <2>2 DEF FlatAt
  <2>4. /\ r[b].declared /\ r[b].control_principal = r[a].control_principal
        /\ r[b].model_family = r[a].model_family /\ r[b].alias_chain = SubSeq(chain, k + 1, Len(chain))
    BY <2>3 DEF Aliases
  <2>5. ToSet(SubSeq(chain, k + 1, Len(chain))) \subseteq ToSet(chain)
    <3> HIDE DEF chain
    <3>1. DOMAIN chain = 1..Len(chain) /\ Len(chain) \in Nat
      BY <2>1
    <3>2. \A i \in DOMAIN SubSeq(chain, k + 1, Len(chain)) :
            i + k \in 1..Len(chain) /\ SubSeq(chain, k + 1, Len(chain))[i] = chain[i + k]
      BY <2>1, <3>1
    <3> QED
      BY <3>1, <3>2 DEF ToSet
  <2>6. Lineage(Snapshot(r, b)) = ToSet(r[b].alias_chain) \union {b}
    BY <2>3, <2>4, SnapshotFields
  <2> QED
    BY <1>1, <2>3, <2>4, <2>5, <2>6
<1> QED
  BY <1>2, <1>3

\* It does not matter who verifies whom.
LEMMA IndependenceSymmetric ==
  ASSUME NEW x, NEW y
  PROVE  evaluate_independence(x, y) <=> evaluate_independence(y, x)
BY DEF evaluate_independence

\* An alias is independent of those its target is independent of.
LEMMA AliasShares ==
  ASSUME NEW r, Flat(r), NEW a \in DOMAIN r, r[a].declared, NEW b \in Lineage(Snapshot(r, a)),
         NEW x \in DOMAIN r
  PROVE  /\ evaluate_independence(Snapshot(r, a), Snapshot(r, x))
              <=> evaluate_independence(Snapshot(r, b), Snapshot(r, x))
         /\ evaluate_independence(Snapshot(r, x), Snapshot(r, a))
              <=> evaluate_independence(Snapshot(r, x), Snapshot(r, b))
<1>1. /\ b \in DOMAIN r /\ r[b].declared
      /\ r[b].control_principal = r[a].control_principal /\ r[b].model_family = r[a].model_family
      /\ Lineage(Snapshot(r, b)) \subseteq Lineage(Snapshot(r, a))
  BY LineageIdentity
<1>2. evaluate_independence(Snapshot(r, a), Snapshot(r, x))
        <=> evaluate_independence(Snapshot(r, b), Snapshot(r, x))
  <2>1. CASE ~ r[x].declared
    BY <2>1, SnapshotFields DEF evaluate_independence
  <2>2. ASSUME r[x].declared, Lineage(Snapshot(r, a)) \intersect Lineage(Snapshot(r, x)) # {}
        PROVE  ~ evaluate_independence(Snapshot(r, a), Snapshot(r, x))
               /\ ~ evaluate_independence(Snapshot(r, b), Snapshot(r, x))
    <3>1. r[a].control_principal = r[x].control_principal
      BY <2>2, LineageIdentity
    <3> QED
      BY <1>1, <2>2, <3>1, SnapshotFields DEF evaluate_independence
  <2>3. CASE r[x].declared /\ Lineage(Snapshot(r, a)) \intersect Lineage(Snapshot(r, x)) = {}
    <3>1. x \in Lineage(Snapshot(r, x)) /\ a \in Lineage(Snapshot(r, a)) /\ x # a /\ x # b
      BY <2>3, SnapshotFields
    <3>2. Lineage(Snapshot(r, b)) \intersect Lineage(Snapshot(r, x)) = {}
      BY <1>1, <2>3
    <3> QED
      BY <1>1, <2>3, <3>1, <3>2, SnapshotFields DEF evaluate_independence
  <2> QED
    BY <2>1, <2>2, <2>3
<1> QED
  BY <1>2, IndependenceSymmetric

-----------------------------------------------------------------------------
(* The audit follows the aliases again *)

\* Induction over the numbers, on a set instead of a predicate
LEMMA NumberInduction ==
  ASSUME NEW S, 0 \in S, \A n \in Nat : n \in S => n + 1 \in S
  PROVE  \A n \in Nat : n \in S
<1> DEFINE rest == Nat \ S
<1>1. SUFFICES ASSUME rest # {} PROVE FALSE
  OBVIOUS
<1>2. PICK x \in rest : \A y \in rest : x <= y
  <2>1. rest \subseteq Nat
    OBVIOUS
  <2> HIDE DEF rest
  <2> QED
    BY <1>1, <2>1, LeastNumber
<1>3. x \in Nat /\ x # 0 /\ x - 1 \in Nat /\ ~ (x <= x - 1) /\ x = (x - 1) + 1
  OBVIOUS
<1>4. x - 1 \in rest
  BY <1>3
<1> QED
  BY <1>2, <1>3, <1>4

\* The recursion of Path
Follows(r, agent, f) ==
    f = [k \in 0..Cardinality(DOMAIN r) |->
            IF k = 0 THEN agent
            ELSE IF f[k - 1] \in DOMAIN r
                 THEN IF r[f[k - 1]].declared THEN r[f[k - 1]].alias_of ELSE NoAlias
                 ELSE NoAlias]

\* Where it arrives in a flat registry
Trail(r, agent) ==
    [k \in 0..Cardinality(DOMAIN r) |->
        IF k = 0 THEN agent ELSE IF k <= Len(Chain(r, agent)) THEN Chain(r, agent)[k] ELSE NoAlias]

\* The chain of a registered agent
LEMMA ChainType ==
  ASSUME NEW r, Flat(r), IsFiniteSet(DOMAIN r), NEW a \in DOMAIN r
  PROVE  /\ Chain(r, a) \in Seq(DOMAIN r) /\ IsInjective(<<a>> \o Chain(r, a))
         /\ Cardinality(DOMAIN r) \in Nat /\ Len(Chain(r, a)) < Cardinality(DOMAIN r)
<1> DEFINE c == Chain(r, a)
           path == <<a>> \o c
           N == Cardinality(DOMAIN r)
<1>1. c \in Seq(DOMAIN r) /\ IsInjective(path)
  <2>1. CASE r[a].declared
    BY <2>1, FlatDeclared DEF FlatAt, Chain
  <2>2. CASE ~ r[a].declared
    <3>1. c = <<>> /\ IsInjective(<<a>> \o <<>>)
      BY <2>2 DEF Chain, IsInjective
    <3> QED
      BY <3>1
  <2> QED
    BY <2>1, <2>2
<1> HIDE DEF c
<1>2. path \in [1..(Len(c) + 1) -> DOMAIN r] /\ Len(c) \in Nat
  <2>1. path \in Seq(DOMAIN r) /\ Len(path) = Len(c) + 1 /\ Len(c) \in Nat
    BY <1>1, ChainCons
  <2> HIDE DEF path
  <2> QED
    BY <2>1
<1>3. N \in Nat
  BY FS_CardinalityType
<1>4. IsFiniteSet(1..(Len(c) + 1)) /\ Cardinality(1..(Len(c) + 1)) = Len(c) + 1
  BY <1>2, FS_Interval
<1>5. \A i, j \in 1..(Len(c) + 1) : path[i] = path[j] => i = j
  BY <1>1, <1>2 DEF IsInjective
<1> HIDE DEF path, N
<1>6. ~ (N < Len(c) + 1)
  <2>1. SUFFICES ASSUME N < Len(c) + 1 PROVE FALSE
    OBVIOUS
  <2>2. \E i, j \in 1..(Len(c) + 1) : i # j /\ path[i] = path[j]
    BY <1>2, <1>4, <2>1, FS_PigeonHole DEF N
  <2> QED
    BY <1>5, <2>2
<1> QED
  BY <1>1, <1>2, <1>3, <1>6 DEF c, path, N

\* One step along the trail
LEMMA TrailStep ==
  ASSUME NEW r, Flat(r), IsFiniteSet(DOMAIN r), NEW a \in DOMAIN r,
         NEW k \in 1..Cardinality(DOMAIN r)
  PROVE  Trail(r, a)[k] = IF Trail(r, a)[k - 1] \in DOMAIN r
                          THEN IF r[Trail(r, a)[k - 1]].declared THEN r[Trail(r, a)[k - 1]].alias_of
                               ELSE NoAlias
                          ELSE NoAlias
<1> DEFINE c == Chain(r, a)
           t == Trail(r, a)
           N == Cardinality(DOMAIN r)
<1>1. c \in Seq(DOMAIN r) /\ N \in Nat /\ Len(c) \in Nat /\ Len(c) < N
  <2>1. c \in Seq(DOMAIN r) /\ N \in Nat /\ Len(c) < N
    BY ChainType
  <2> HIDE DEF c
  <2> QED
    BY <2>1
<1>2. k - 1 \in 0..N /\ k \in 0..N /\ k # 0
  BY <1>1
<1>3. \A i \in 0..N : t[i] = IF i = 0 THEN a ELSE IF i <= Len(c) THEN c[i] ELSE NoAlias
  BY DEF Trail
<1> HIDE DEF c, t, N
<1>4. NoAlias \notin DOMAIN r
  BY DEF Flat
<1>5. CASE k = 1
  <2>1. t[k - 1] = a /\ t[k] = IF 1 <= Len(c) THEN c[1] ELSE NoAlias
    BY <1>2, <1>3, <1>5
  <2>2. CASE r[a].declared
    <3>1. r[a].alias_of = IF c = <<>> THEN NoAlias ELSE c[1]
      BY <2>2, FlatDeclared DEF FlatAt, Chain, c
    <3>2. c = <<>> <=> ~ (1 <= Len(c))
      BY <1>1
    <3> QED
      BY <2>1, <2>2, <3>1, <3>2 DEF t
  <2>3. CASE ~ r[a].declared
    <3>1. c = <<>>
      BY <2>3 DEF Chain, c
    <3>2. ~ (1 <= Len(c))
      BY <3>1
    <3> QED
      BY <2>1, <2>3, <3>2 DEF t
  <2> QED
    BY <2>2, <2>3
<1>6. CASE k # 1 /\ k - 1 <= Len(c)
  <2>1. k - 1 \in 1..Len(c) /\ k - 1 # 0 /\ (k - 1) + 1 = k
    BY <1>2, <1>6
  <2>2. t[k - 1] = c[k - 1] /\ c[k - 1] \in DOMAIN r
    BY <1>1, <1>2, <1>3, <2>1
  <2>3. r[a].declared /\ c = r[a].alias_chain
    <3>1. c # <<>>
      BY <2>1
    <3> QED
      BY <3>1 DEF Chain, c
  <2>4. Aliases(r[a], r[c[k - 1]], k - 1)
    BY <2>1, <2>3, FlatDeclared DEF FlatAt
  <2>5. r[c[k - 1]].declared /\ r[c[k - 1]].alias_chain = SubSeq(c, k, Len(c))
    BY <2>1, <2>3, <2>4 DEF Aliases
  <2>6. r[c[k - 1]].alias_of = IF SubSeq(c, k, Len(c)) = <<>> THEN NoAlias ELSE SubSeq(c, k, Len(c))[1]
    <3>1. FlatAt(r, c[k - 1])
      BY <2>2, <2>5, FlatDeclared
    <3> QED
      BY <2>5, <3>1 DEF FlatAt
  <2>7. /\ k <= Len(c) => SubSeq(c, k, Len(c)) # <<>> /\ SubSeq(c, k, Len(c))[1] = c[k]
        /\ ~ (k <= Len(c)) => SubSeq(c, k, Len(c)) = <<>>
    <3>1. k \in Nat /\ 1 <= k /\ k <= Len(c) + 1
      BY <1>1, <2>1
    <3>2. ASSUME k <= Len(c) PROVE Len(SubSeq(c, k, Len(c))) = Len(c) - k + 1 /\ SubSeq(c, k, Len(c))[1] = c[k]
      BY <1>1, <3>1, <3>2
    <3>3. ASSUME ~ (k <= Len(c)) PROVE SubSeq(c, k, Len(c)) = <<>>
      BY <1>1, <3>1, <3>3
    <3>4. ASSUME k <= Len(c) PROVE SubSeq(c, k, Len(c)) # <<>>
      <4>1. Len(c) - k + 1 # 0
        BY <1>1, <3>1, <3>4
      <4>2. Len(SubSeq(c, k, Len(c))) # 0
        BY <3>2, <3>4, <4>1
      <4>3. Len(<<>>) = 0
        OBVIOUS
      <4> QED
        BY <4>2, <4>3, Zenon
    <3> QED
      BY <3>2, <3>3, <3>4
  <2>8. t[k] = IF k <= Len(c) THEN c[k] ELSE NoAlias
    BY <1>2, <1>3
  <2> QED
    BY <2>2, <2>5, <2>6, <2>7, <2>8 DEF t
<1>7. CASE k # 1 /\ ~ (k - 1 <= Len(c))
  <2>1. k - 1 # 0 /\ ~ (k <= Len(c))
    BY <1>1, <1>2, <1>7
  <2>2. t[k - 1] = NoAlias /\ t[k] = NoAlias
    BY <1>2, <1>3, <1>7, <2>1
  <2> QED
    BY <1>4, <2>2 DEF t
<1> QED
  BY <1>5, <1>6, <1>7

\* In a flat registry the recursion of Path has one solution, the trail.
LEMMA TrailFollows ==
  ASSUME NEW r, Flat(r), IsFiniteSet(DOMAIN r), NEW a \in DOMAIN r
  PROVE  Follows(r, a, Trail(r, a)) /\ \A f : Follows(r, a, f) => f = Trail(r, a)
<1> DEFINE t == Trail(r, a)
           N == Cardinality(DOMAIN r)
<1>1. N \in Nat /\ DOMAIN t = 0..N /\ t = [k \in 0..N |-> t[k]] /\ t[0] = a
  <2>1. N \in Nat
    BY ChainType
  <2> QED
    BY <2>1 DEF Trail
<1>2. \A k \in 0..N : k = 0 \/ k \in 1..N
  BY <1>1
<1>3. \A k \in 1..N : t[k] = IF t[k - 1] \in DOMAIN r
                             THEN IF r[t[k - 1]].declared THEN r[t[k - 1]].alias_of ELSE NoAlias
                             ELSE NoAlias
  BY TrailStep
<1> HIDE DEF t
<1>4. Follows(r, a, t)
  <2> DEFINE g == [k \in 0..N |-> IF k = 0 THEN a
                    ELSE IF t[k - 1] \in DOMAIN r
                         THEN IF r[t[k - 1]].declared THEN r[t[k - 1]].alias_of ELSE NoAlias
                         ELSE NoAlias]
  <2>1. \A k \in 0..N : g[k] = t[k]
    BY <1>1, <1>2, <1>3
  <2>2. g = t
    BY <1>1, <2>1
  <2> QED
    BY <2>2 DEF Follows
<1>5. ASSUME NEW f, Follows(r, a, f) PROVE f = t
  <2>1. /\ DOMAIN f = 0..N /\ f = [k \in 0..N |-> f[k]]
        /\ \A k \in 0..N : f[k] = IF k = 0 THEN a
                                  ELSE IF f[k - 1] \in DOMAIN r
                                       THEN IF r[f[k - 1]].declared THEN r[f[k - 1]].alias_of ELSE NoAlias
                                       ELSE NoAlias
    BY <1>5 DEF Follows
  <2> DEFINE S == {n \in Nat : n <= N => f[n] = t[n]}
  <2>2. 0 \in S
    <3>1. 0 \in 0..N
      BY <1>1
    <3>2. f[0] = a
      BY <2>1, <3>1
    <3> QED
      BY <1>1, <3>2
  <2>3. ASSUME NEW n \in Nat, n \in S PROVE n + 1 \in S
    <3>1. SUFFICES ASSUME n + 1 <= N PROVE f[n + 1] = t[n + 1]
      OBVIOUS
    <3>2. n + 1 \in 1..N /\ n + 1 \in 0..N /\ n + 1 # 0 /\ (n + 1) - 1 = n /\ n <= N
      BY <1>1, <3>1
    <3>3. f[n] = t[n]
      BY <2>3, <3>2
    <3> QED
      BY <1>3, <2>1, <3>2, <3>3
  <2>4. \A n \in Nat : n \in S
    <3> HIDE DEF S
    <3> QED
      BY <2>2, <2>3, NumberInduction
  <2>5. \A k \in 0..N : f[k] = t[k]
    BY <1>1, <2>4
  <2> QED
    BY <1>1, <2>1, <2>5
<1> QED
  BY <1>4, <1>5 DEF t

\* The audit's path is the agent and its chain.
LEMMA PathIsChain ==
  ASSUME NEW r, Flat(r), IsFiniteSet(DOMAIN r), NEW a \in DOMAIN r
  PROVE  Path(r, a) = <<a>> \o Chain(r, a)
<1> DEFINE c == Chain(r, a)
           t == Trail(r, a)
           N == Cardinality(DOMAIN r)
           named == {k \in DOMAIN t : t[k] # NoAlias}
           at == CHOOSE f : Follows(r, a, f)
<1>1. at = t
  BY TrailFollows
<1>2. Path(r, a) = [k \in 1..Cardinality({k \in DOMAIN at : at[k] # NoAlias}) |-> at[k - 1]]
  BY DEF Path, Follows
<1>3. c \in Seq(DOMAIN r) /\ N \in Nat /\ Len(c) < N
  BY ChainType
<1>4. DOMAIN t = 0..N /\ \A k \in 0..N : t[k] = IF k = 0 THEN a ELSE IF k <= Len(c) THEN c[k] ELSE NoAlias
  BY DEF Trail
<1> HIDE DEF c, t, N, at
<1>5. Len(c) \in Nat /\ \A k \in 1..Len(c) : c[k] \in DOMAIN r
  BY <1>3
<1>6. NoAlias \notin DOMAIN r
  BY DEF Flat
<1>7. named = 0..Len(c)
  <2>1. \A k \in 0..N : t[k] # NoAlias <=> k <= Len(c)
    <3> SUFFICES ASSUME NEW k \in 0..N PROVE t[k] # NoAlias <=> k <= Len(c)
      OBVIOUS
    <3>1. CASE k = 0
      BY <1>4, <1>5, <1>6, <3>1
    <3>2. CASE k # 0 /\ k <= Len(c)
      <4>1. k \in 1..Len(c)
        BY <1>3, <1>5, <3>2
      <4> QED
        BY <1>4, <1>5, <1>6, <3>2, <4>1
    <3>3. CASE k # 0 /\ ~ (k <= Len(c))
      BY <1>4, <3>3
    <3> QED
      BY <3>1, <3>2, <3>3
  <2> QED
    BY <1>3, <1>4, <1>5, <2>1
<1>8. Cardinality(named) = Len(c) + 1
  <2>1. Len(c) \in Int /\ 0 \in Int /\ ~ (0 > Len(c)) /\ Len(c) - 0 + 1 = Len(c) + 1
    BY <1>5
  <2>2. Cardinality(0..Len(c)) = Len(c) + 1
    BY <2>1, FS_Interval
  <2> QED
    BY <1>7, <2>2
<1>9. Path(r, a) = [k \in 1..(Len(c) + 1) |-> t[k - 1]]
  BY <1>1, <1>2, <1>8
<1> DEFINE path == <<a>> \o c
<1>10. /\ path \in Seq(DOMAIN r) /\ Len(path) = Len(c) + 1 /\ path[1] = a
       /\ \A k \in 2..Len(path) : k - 1 \in 1..Len(c) /\ path[k] = c[k - 1]
  BY <1>3, ChainCons
<1> HIDE DEF path
<1>11. path = [k \in 1..(Len(c) + 1) |-> path[k]]
  BY <1>10
<1>12. \A k \in 1..(Len(c) + 1) : path[k] = t[k - 1]
  <2> SUFFICES ASSUME NEW k \in 1..(Len(c) + 1) PROVE path[k] = t[k - 1]
    OBVIOUS
  <2>1. CASE k = 1
    BY <1>3, <1>4, <1>10, <2>1
  <2>2. CASE k # 1
    <3>1. k \in 2..Len(path) /\ k - 1 \in 0..N /\ k - 1 # 0 /\ k - 1 <= Len(c)
      BY <1>3, <1>5, <1>10, <2>2
    <3> QED
      BY <1>4, <1>10, <3>1
  <2> QED
    BY <2>1, <2>2
<1> QED
  BY <1>9, <1>11, <1>12 DEF path, c

\* The path of an agent with an identity ends where the identity was declared,
\* and a path that ends elsewhere is of an agent without one.
LEMMA PathEnds ==
  ASSUME NEW r, Flat(r), IsFiniteSet(DOMAIN r), NEW a \in DOMAIN r
  PROVE  LET path == Path(r, a) IN
         /\ Last(path) \in DOMAIN r /\ Tail(path) = Chain(r, a)
         /\ r[Last(path)].declared = r[a].declared
         /\ r[a].declared => /\ IsDeclaration(r[Last(path)]) /\ r[Last(path)].alias_chain = <<>>
                             /\ r[Last(path)].control_principal = r[a].control_principal
                             /\ r[Last(path)].model_family = r[a].model_family
<1> DEFINE c == Chain(r, a)
           path == <<a>> \o c
           end == Last(path)
<1>1. c \in Seq(DOMAIN r)
  BY ChainType
<1>2. CASE c = <<>>
  <2>1. end = a /\ Tail(path) = c
    BY <1>2 DEF Last
  <2>2. r[a].declared => FlatAt(r, a) /\ r[a].alias_chain = <<>>
    BY <1>2, FlatDeclared DEF Chain
  <2> QED
    BY <2>1, <2>2, PathIsChain DEF FlatAt
<1>3. CASE c # <<>>
  <2>1. r[a].declared /\ c = r[a].alias_chain /\ FlatAt(r, a)
    BY <1>3, FlatDeclared DEF Chain
  <2> HIDE DEF c
  <2>2. Len(c) \in Nat \ {0}
    BY <1>1, <1>3
  <2>3. end = c[Len(c)] /\ Tail(path) = c /\ end \in DOMAIN r
    BY <1>1, <2>2 DEF Last
  <2>4. Aliases(r[a], r[end], Len(c))
    BY <2>1, <2>2, <2>3 DEF FlatAt
  <2>5. SubSeq(c, Len(c) + 1, Len(c)) = <<>>
    BY <1>1, <2>2
  <2>6. FlatAt(r, end)
    BY <2>3, <2>4, FlatDeclared DEF Aliases
  <2>7. r[end].declared = r[a].declared
    BY <2>1, <2>3, <2>4, FlatDeclared DEF Aliases
  <2> QED
    BY <2>1, <2>3, <2>4, <2>5, <2>6, <2>7, PathIsChain DEF Aliases, FlatAt, c
<1> QED
  BY <1>2, <1>3

\* A declaration with another chain
LEMMA WithChain ==
  ASSUME NEW alias, NEW principal, NEW family, NEW old, NEW new
  PROVE  [Declaration(alias, principal, family, old) EXCEPT !.alias_chain = new]
           = Declaration(alias, principal, family, new)
<1>1. ASSUME NEW t
      PROVE  [[declared |-> t, alias_of |-> alias, control_principal |-> principal, model_family |-> family,
               alias_chain |-> old] EXCEPT !.alias_chain = new]
               = [declared |-> t, alias_of |-> alias, control_principal |-> principal,
                  model_family |-> family, alias_chain |-> new]
  OBVIOUS
<1> QED
  BY <1>1, Zenon DEF Declaration

\* The audit accepts a flat registry, and reads it as it was registered.
LEMMA AuditReads ==
  ASSUME NEW r, Flat(r), IsFiniteSet(DOMAIN r)
  PROVE  Resolves(r) /\ \A a \in DOMAIN r : resolve_identity_registry(r)[a] = Snapshot(r, a)
<1> SUFFICES ASSUME NEW a \in DOMAIN r
             PROVE  /\ ~ Cyclic(r, a)
                    /\ Last(Path(r, a)) \in DOMAIN r /\ r[Last(Path(r, a))].declared =>
                         Buildable(Tail(Path(r, a)) \o r[Last(Path(r, a))].alias_chain)
                    /\ Resolved(r, a) = Snapshot(r, a)
  BY DEF Resolves, resolve_identity_registry
<1> DEFINE c == Chain(r, a)
           path == Path(r, a)
           end == Last(path)
<1>1. path = <<a>> \o c /\ c \in Seq(DOMAIN r) /\ IsInjective(<<a>> \o c)
  BY PathIsChain, ChainType
<1>2. /\ end \in DOMAIN r /\ Tail(path) = c /\ r[end].declared = r[a].declared
      /\ r[a].declared => /\ IsDeclaration(r[end]) /\ r[end].alias_chain = <<>>
                          /\ r[end].control_principal = r[a].control_principal
                          /\ r[end].model_family = r[a].model_family
  BY PathEnds
<1> HIDE DEF path, end, c
<1>3. ~ Cyclic(r, a)
  BY <1>1 DEF Cyclic, path
<1>4. c \o <<>> = c
  BY <1>1
<1>5. IsInjective(c)
  <2>1. /\ Len(c) \in Nat /\ DOMAIN c = 1..Len(c) /\ DOMAIN (<<a>> \o c) = 1..(Len(c) + 1)
        /\ \A k \in 1..Len(c) : k + 1 \in 1..(Len(c) + 1) /\ (<<a>> \o c)[k + 1] = c[k]
    BY <1>1
  <2> SUFFICES ASSUME NEW k \in 1..Len(c), NEW m \in 1..Len(c), c[k] = c[m] PROVE k = m
    BY <2>1 DEF IsInjective
  <2>2. k + 1 = m + 1
    BY <1>1, <2>1 DEF IsInjective
  <2> QED
    BY <2>1, <2>2
<1>6. r[end].declared => Buildable(Tail(path) \o r[end].alias_chain)
  BY <1>2, <1>4, <1>5 DEF Buildable
<1>7. Resolved(r, a) = Snapshot(r, a)
  <2>1. Resolved(r, a) = IF end \in DOMAIN r /\ r[end].declared
                         THEN identity_snapshot(a, [r[end] EXCEPT !.alias_chain = Tail(path) \o @])
                         ELSE [known |-> FALSE]
    BY DEF Resolved, path, end
  <2>2. CASE ~ r[a].declared
    BY <1>2, <2>1, <2>2 DEF Snapshot, identity_snapshot
  <2>3. CASE r[a].declared
    <3>1. PICK alias, principal, family, old : r[end] = Declaration(alias, principal, family, old)
      BY <1>2, <2>3 DEF IsDeclaration
    <3>2. [r[end] EXCEPT !.alias_chain = Tail(path) \o @] = Declaration(alias, principal, family, c)
      <4>1. r[end].alias_chain = <<>>
        BY <1>2, <2>3
      <4>2. [r[end] EXCEPT !.alias_chain = Tail(path) \o @]
              = [Declaration(alias, principal, family, old) EXCEPT !.alias_chain = c]
        BY <1>2, <1>4, <3>1, <4>1
      <4>3. [Declaration(alias, principal, family, old) EXCEPT !.alias_chain = c]
              = Declaration(alias, principal, family, c)
        BY WithChain
      <4> QED
        BY <4>2, <4>3
    <3>3. principal = r[a].control_principal /\ family = r[a].model_family /\ c = r[a].alias_chain
      <4>1. r[end].control_principal = principal /\ r[end].model_family = family
        BY <3>1 DEF Declaration
      <4> QED
        BY <1>2, <2>3, <4>1 DEF Chain, c
    <3>4. identity_snapshot(a, Declaration(alias, principal, family, c))
            = [known |-> TRUE, actor |-> a, control_principal |-> principal,
               model_family |-> family, alias_chain |-> ToSet(c)]
      BY DEF identity_snapshot, Declaration
    <3>5. Snapshot(r, a) = [known |-> TRUE, actor |-> a, control_principal |-> r[a].control_principal,
                            model_family |-> r[a].model_family, alias_chain |-> ToSet(r[a].alias_chain)]
      BY <2>3 DEF Snapshot, identity_snapshot
    <3> QED
      BY <1>2, <2>1, <2>3, <3>2, <3>3, <3>4, <3>5
  <2> QED
    BY <2>2, <2>3
<1> QED
  BY <1>3, <1>6, <1>7 DEF path, end

-----------------------------------------------------------------------------
(* Every registry that add_agent builds *)

\* A call of add_agent: a new name, with no identity, one of its own or a target's
Adds(r, name, d) ==
    /\ name \notin DOMAIN r /\ name # NoAlias
    /\ \/ d = Undeclared
       \/ \E principal, family : d = Declaration(NoAlias, principal, family, <<>>)
       \/ \E target : MayAlias(r, target) /\ d = AliasOf(r, target)

\* h is the registry after each of n calls.
Built(h, n) ==
    /\ h[0] = <<>>
    /\ \A i \in 1..n : \E name, d : Adds(h[i - 1], name, d) /\ h[i] = Registered(h[i - 1], name, d)
BuiltByCalls(r) == \E n \in Nat : \E h : Built(h, n) /\ h[n] = r

\* A call of add_agent keeps a registry flat and finite.
LEMMA AddsFlat ==
  ASSUME NEW r, Flat(r), IsFiniteSet(DOMAIN r), NEW name, NEW d, Adds(r, name, d)
  PROVE  Flat(Registered(r, name, d)) /\ IsFiniteSet(DOMAIN Registered(r, name, d))
<1>1. IsFiniteSet(DOMAIN Registered(r, name, d))
  <2>1. DOMAIN Registered(r, name, d) = DOMAIN r \union {name}
    BY DEF Registered
  <2> QED
    BY <2>1, FS_AddElement
<1>2. CASE d = Undeclared
  BY <1>1, <1>2, OwnFlat DEF Adds
<1>3. ASSUME NEW principal, NEW family, d = Declaration(NoAlias, principal, family, <<>>)
      PROVE  Flat(Registered(r, name, d))
  BY <1>3, OwnFlat DEF Adds
<1>4. ASSUME NEW target, MayAlias(r, target), d = AliasOf(r, target)
      PROVE  Flat(Registered(r, name, d))
  BY <1>4, AliasFlat DEF Adds
<1> QED
  BY <1>1, <1>2, <1>3, <1>4 DEF Adds

\* So every registry that calls of add_agent build is flat and finite.
LEMMA BuiltFlat ==
  ASSUME NEW r, BuiltByCalls(r)
  PROVE  Flat(r) /\ IsFiniteSet(DOMAIN r)
<1>0. PICK n \in Nat : \E h : Built(h, n) /\ h[n] = r
  BY DEF BuiltByCalls
<1>1. PICK h : Built(h, n) /\ h[n] = r
  BY <1>0
<1> DEFINE S == {i \in Nat : i <= n => Flat(h[i]) /\ IsFiniteSet(DOMAIN h[i])}
<1>2. 0 \in S
  <2>1. h[0] = <<>> /\ DOMAIN <<>> = {}
    BY <1>1 DEF Built
  <2> QED
    BY <2>1, FS_EmptySet DEF Flat
<1>3. ASSUME NEW i \in Nat, i \in S PROVE i + 1 \in S
  <2>1. SUFFICES ASSUME i + 1 <= n PROVE Flat(h[i + 1]) /\ IsFiniteSet(DOMAIN h[i + 1])
    OBVIOUS
  <2>2. i + 1 \in 1..n /\ (i + 1) - 1 = i /\ i <= n
    BY <2>1
  <2>3. PICK name, d : Adds(h[i], name, d) /\ h[i + 1] = Registered(h[i], name, d)
    BY <1>1, <2>2 DEF Built
  <2> QED
    BY <1>3, <2>2, <2>3, AddsFlat
<1>4. n \in S
  <2> HIDE DEF S
  <2> QED
    BY <1>2, <1>3, NumberInduction
<1> QED
  BY <1>1, <1>4

\* In every registry that calls of add_agent can build, an alias, however many
\* agents stand between, is independent of exactly the agents its target is
\* independent of, and of nobody in its lineage: nobody gets a second identity to
\* verify with.
THEOREM AliasesShareIndependence ==
  ASSUME NEW r, BuiltByCalls(r), NEW a \in DOMAIN r, r[a].declared, NEW b \in Lineage(Snapshot(r, a))
  PROVE  /\ ~ evaluate_independence(Snapshot(r, a), Snapshot(r, b))
         /\ \A x \in DOMAIN r :
              /\ evaluate_independence(Snapshot(r, a), Snapshot(r, x))
                   <=> evaluate_independence(Snapshot(r, b), Snapshot(r, x))
              /\ evaluate_independence(Snapshot(r, x), Snapshot(r, a))
                   <=> evaluate_independence(Snapshot(r, x), Snapshot(r, b))
<1>1. Flat(r) /\ b \in DOMAIN r
  BY BuiltFlat, LineageIdentity
<1>2. ~ evaluate_independence(Snapshot(r, b), Snapshot(r, b))
  BY DEF evaluate_independence
<1> QED
  BY <1>1, <1>2, AliasShares

\* resolve_identity_registry, with which the audit follows the aliases again,
\* refuses no registry that calls of add_agent can build, and finds for every
\* agent the identity it was registered with.
THEOREM AuditReadsRegistered ==
  ASSUME NEW r, BuiltByCalls(r)
  PROVE  Resolves(r) /\ \A a \in DOMAIN r : resolve_identity_registry(r)[a] = Snapshot(r, a)
BY BuiltFlat, AuditReads

\* "A verifier name is not an independent model merely because -verifier was
\* appended": a role put behind the label of a model family, and so any number of
\* them, leaves an agent independent of exactly the same others.
THEOREM RolesDoNotSeparate ==
  ASSUME NEW S, NEW family \in Seq(S), family # <<>>, NEW role \in S, role \in MODEL_ROLE_SUFFIXES,
         NEW actor, NEW principal, NEW chain, NEW other
  PROVE  LET Id(f) == [known |-> TRUE, actor |-> actor, control_principal |-> principal,
                       model_family |-> f, alias_chain |-> chain]
         IN  /\ evaluate_independence(Id(Append(family, role)), other)
                  <=> evaluate_independence(Id(family), other)
             /\ evaluate_independence(other, Id(Append(family, role)))
                  <=> evaluate_independence(other, Id(family))
<1>1. canonical_model_family(Append(family, role)) = canonical_model_family(family)
  BY RoleIgnored
<1> QED
  BY <1>1 DEF evaluate_independence, Lineage
=============================================================================
