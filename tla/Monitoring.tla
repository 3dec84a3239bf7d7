----------------------------- MODULE Monitoring -----------------------------
(***************************************************************************)
(* The monitoring path: publish_monitor_snapshot.py reads the workspace    *)
(* piece by piece while tasks are submitted in it, numbers the snapshot    *)
(* and sends it; functions/api/ingest.js keeps the newest one and a        *)
(* bounded history.  Requests are lost, late or doubled, the publisher is  *)
(* killed and restarted, and its sequence file may be lost.                *)
(*                                                                         *)
(* The workspace is counted in submissions: files archives written, events *)
(* of them in the ledger, tasks of those in the task files.  A request is  *)
(* the snapshot it carries: each has its own nonce, and a nonce is stored  *)
(* under the same condition as the snapshot, so it never decides anything. *)
(***************************************************************************)
EXTENDS Naturals, FiniteSets, FiniteSetsExt

CONSTANTS
    Ranks,         \* SCHEMA_RANK of the publisher versions that may be started
    HistoryLimit,  \* rows kept in monitor_history (720)
    NoSnapshot,    \* no snapshot
    MaxEvents,     \* bound on submissions
    MaxSequence,   \* bound on the sequences a publisher reserves
    MaxFaults      \* bound on the faults of a behaviour

Snapshots ==
    [sequence : 0 .. MaxSequence, rank : Ranks \union {0}, epoch : 0 .. MaxFaults,
     tasks : 0 .. MaxEvents, verified : 0 .. MaxEvents, events : 0 .. MaxEvents,
     tree : 0 .. MaxEvents, projected : 0 .. MaxEvents,
     consistent : BOOLEAN, missing : BOOLEAN]

ASSUME MonitorAssumption ==
    /\ Ranks \subseteq Nat \ {0} /\ Ranks # {}
    /\ HistoryLimit \in Nat \ {0}
    /\ {MaxEvents, MaxSequence, MaxFaults} \subseteq Nat
    /\ NoSnapshot \notin Snapshots

VARIABLES
    files, events, tasks,  \* the workspace, in submissions
    last,          \* last_sequence of monitor_publish_state.json, 0 if unreadable
    publisherLock, \* monitor-publisher.lock
    at,            \* what the publisher is at; "off": nobody holds the instance lock
    rank,          \* the schema rank the running publisher writes
    draft,         \* the snapshot under construction, or the one sent
    reply,         \* the server's answer on the open connection
    net,           \* requests on their way
    stored,        \* the row of monitor_snapshots
    rows,          \* the rows of monitor_history
    floor,         \* minimum_schema_rank, 0 before the first snapshot
    epoch,         \* how often the sequence file was lost
    mishaps        \* faults so far

workspace == <<files, events, tasks>>
publisher == <<last, publisherLock, at, rank, draft, reply>>
server == <<stored, rows, floor>>
monitorVars == <<workspace, publisher, net, server, epoch, mishaps>>

BuildSteps == <<"tasks", "verify", "events", "tree", "project", "compare", "evidence">>

Empty ==
    [sequence |-> 0, rank |-> 0, epoch |-> 0, tasks |-> 0, verified |-> 0,
     events |-> 0, tree |-> 0, projected |-> 0, consistent |-> FALSE, missing |-> FALSE]

MonitorInit ==
    /\ files = 0 /\ events = 0 /\ tasks = 0
    /\ last = 0 /\ publisherLock = "free" /\ at = "off" /\ rank = 0
    /\ draft = Empty /\ reply = "none"
    /\ net = {}
    /\ stored = NoSnapshot /\ rows = {} /\ floor = 0
    /\ epoch = 0 /\ mishaps = 0

Mishap == mishaps < MaxFaults /\ mishaps' = mishaps + 1

\* The largest sequence in use anywhere, and room left above it: one sequence
\* for each fault to come and three to get through (a bound of the model)
Top == Max({last, draft.sequence} \union {s.sequence : s \in net \union rows})
Room == Top + (MaxFaults - mishaps) + 3 <= MaxSequence

-----------------------------------------------------------------------------
(* The workspace, whose submit archives, then appends, then writes the task. *)

Archive ==
    /\ files < MaxEvents /\ files = tasks /\ Room
    /\ files' = files + 1
    /\ UNCHANGED <<events, tasks, publisher, net, server, epoch, mishaps>>

AppendEvent ==
    /\ events < files
    /\ events' = events + 1
    /\ UNCHANGED <<files, tasks, publisher, net, server, epoch, mishaps>>

WriteTask ==
    /\ tasks < events /\ Room
    /\ tasks' = tasks + 1
    /\ UNCHANGED <<files, events, publisher, net, server, epoch, mishaps>>

-----------------------------------------------------------------------------
(* The publisher. *)

\* main: a second instance finds the lock held, reports it and exits (75)
Start ==
    /\ at = "off"
    /\ \E r \in Ranks : rank' = r
    /\ at' = "cycle"
    /\ UNCHANGED <<workspace, last, publisherLock, draft, reply, net, server, epoch, mishaps>>

\* Mutant: every cycle peeks, and nothing is written back
Reserved_Peek(sequence) == last' = last

\* next_sequence replaces the file before the snapshot is read
Reserved(sequence) == last' = sequence

\* peek_next_sequence: a file that cannot be read counts as none
PeekNext == last + 1

\* run_once: the lock of a dead publisher is taken once it is stale
Reserve ==
    /\ at = "cycle" /\ publisherLock \in {"free", "stale"} /\ PeekNext <= MaxSequence
    /\ Reserved(PeekNext)
    /\ publisherLock' = "held"
    /\ draft' = [Empty EXCEPT !.sequence = PeekNext, !.rank = rank, !.epoch = epoch]
    /\ at' = "tasks"
    /\ UNCHANGED <<workspace, rank, reply, net, server, epoch, mishaps>>

\* Before that FileLock gives up and the cycle fails
LockTimeout ==
    /\ at = "cycle" /\ publisherLock = "dead"
    /\ at' = "sleep"
    /\ UNCHANGED <<workspace, last, publisherLock, rank, draft, reply, net, server, epoch, mishaps>>

\* The lock file outlives stale_seconds
AgeLock ==
    /\ publisherLock = "dead"
    /\ publisherLock' = "stale"
    /\ UNCHANGED <<workspace, last, at, rank, draft, reply, net, server, epoch, mishaps>>

Read(step, next, snapshot) ==
    /\ at = step
    /\ draft' = snapshot
    /\ at' = next
    /\ UNCHANGED <<workspace, last, publisherLock, rank, reply, net, server, epoch, mishaps>>

\* build_snapshot, one read of the workspace after another
ReadTasks == Read("tasks", "verify", [draft EXCEPT !.tasks = tasks])
VerifyLedger == Read("verify", "events", [draft EXCEPT !.verified = events])
ReadEvents == Read("events", "tree", [draft EXCEPT !.events = events])
ReadTree == Read("tree", "project", [draft EXCEPT !.tree = files])
\* audit_projections replays the ledger, then lists the tasks again
Project == Read("project", "compare", [draft EXCEPT !.projected = events])
Compare == Read("compare", "evidence", [draft EXCEPT !.consistent = (tasks = draft.projected)])

\* _ledger_evidence_references of n well-formed submissions: their archives
References(n) == 1 .. n

\* audit_operational_evidence hashes every referenced file; the locked part ends
AuditEvidence ==
    /\ at = "evidence"
    /\ draft' = [draft EXCEPT !.missing = ~ (References(draft.events) \subseteq 1 .. files)]
    /\ publisherLock' = "free"
    /\ at' = "send"
    /\ UNCHANGED <<workspace, last, rank, reply, net, server, epoch, mishaps>>

Send ==
    /\ at = "send"
    /\ net' = net \union {draft}
    /\ reply' = "none"
    /\ at' = "wait"
    /\ UNCHANGED <<workspace, last, publisherLock, rank, draft, server, epoch, mishaps>>

\* An acknowledgement of exactly this snapshot, or an HTTP error
Answered ==
    /\ at = "wait" /\ reply # "none"
    /\ at' = IF reply = "accepted" THEN "check" ELSE "sleep"
    /\ UNCHANGED <<workspace, last, publisherLock, rank, draft, reply, net, server, epoch, mishaps>>

\* The source state is asserted once more
Confirm ==
    /\ at = "check"
    /\ at' = "sleep"
    /\ UNCHANGED <<workspace, last, publisherLock, rank, draft, reply, net, server, epoch, mishaps>>

\* wait_for_supervisor, for the interval or the backoff
Wake ==
    /\ at = "sleep"
    /\ at' = "cycle"
    /\ UNCHANGED <<workspace, last, publisherLock, rank, draft, reply, net, server, epoch, mishaps>>

\* An exception anywhere in run_once: counted, journalled, retried after a
\* backoff; the sequence is spent.  While it waits this is the timeout, and
\* the request may still arrive.
Fail ==
    /\ Mishap
    /\ at \notin {"off", "sleep"}
    /\ at' = "sleep"
    /\ publisherLock' = IF publisherLock = "held" THEN "free" ELSE publisherLock
    /\ UNCHANGED <<workspace, last, rank, draft, reply, net, server, epoch>>

\* The supervisor is gone or the user interrupts: main returns
Exit ==
    /\ Mishap
    /\ at \in {"cycle", "sleep"}
    /\ at' = "off"
    /\ UNCHANGED <<workspace, last, publisherLock, rank, draft, reply, net, server, epoch>>

\* The process dies; the system frees the instance lock, not the lock file
Kill ==
    /\ Mishap
    /\ at # "off"
    /\ at' = "off"
    /\ publisherLock' = IF publisherLock = "held" THEN "dead" ELSE publisherLock
    /\ UNCHANGED <<workspace, last, rank, draft, reply, net, server, epoch>>

\* The sequence file, replaced but never synced, is unreadable after a restart
LoseState ==
    /\ Mishap
    /\ at = "off" /\ last > 0
    /\ last' = 0
    /\ epoch' = epoch + 1
    /\ UNCHANGED <<workspace, publisherLock, at, rank, draft, reply, net, server>>

-----------------------------------------------------------------------------
(* The network and the ingest function. *)

Lose(s) ==
    /\ Mishap
    /\ net' = net \ {s}
    /\ reply' = IF at = "wait" /\ s = draft THEN "refused" ELSE reply
    /\ UNCHANGED <<workspace, last, publisherLock, at, rank, draft, server, epoch>>

\* Mutant: the condition on the sequence is left out
Newer_Any(s) == TRUE

Newer(s) == stored # NoSnapshot => s.sequence > stored.sequence
Admitted(s) == s.rank >= floor

\* The newest HistoryLimit rows stay
Trimmed(table) ==
    {s \in table : Cardinality({t \in table : t.sequence > s.sequence}) < HistoryLimit}

\* One D1 batch: floor, nonce, history and snapshot under the same conditions,
\* then the trimming; the answer reaches the publisher if it still waits for it
Ingest(s) ==
    /\ \/ /\ net' = net \ {s}
          /\ UNCHANGED mishaps
       \/ Mishap /\ UNCHANGED net            \* the request is on its way twice
    /\ LET accepted == Newer(s) /\ Admitted(s)
       IN /\ floor' = IF accepted THEN s.rank ELSE floor
          /\ stored' = IF accepted THEN s ELSE stored
          /\ rows' = IF accepted THEN Trimmed(rows \union {s}) ELSE rows
          /\ reply' = IF at = "wait" /\ s = draft /\ reply = "none"
                      THEN IF accepted THEN "accepted" ELSE "refused" ELSE reply
    /\ UNCHANGED <<workspace, last, publisherLock, at, rank, draft, epoch>>

-----------------------------------------------------------------------------
Build == ReadTasks \/ VerifyLedger \/ ReadEvents \/ ReadTree \/ Project \/ Compare \/ AuditEvidence

Cycle == Reserve \/ LockTimeout \/ Build \/ Send \/ Answered \/ Confirm \/ Wake

MonitorNext ==
    \/ Archive \/ AppendEvent \/ WriteTask
    \/ Start \/ AgeLock \/ Cycle
    \/ Fail \/ Exit \/ Kill \/ LoseState
    \/ \E s \in net : Lose(s) \/ Ingest(s)

(***************************************************************************)
(* The task scheduler restarts a publisher that ended (RestartCount 999),  *)
(* a running one goes on, the clock makes a dead lock stale, and a request *)
(* whose connection is open reaches the server.                            *)
(***************************************************************************)
MonitorFairness ==
    /\ WF_monitorVars(Start) /\ WF_monitorVars(AgeLock) /\ WF_monitorVars(Cycle)
    /\ WF_monitorVars(at = "wait" /\ draft \in net /\ Ingest(draft))

MonitorSpec == MonitorInit /\ [][MonitorNext]_monitorVars /\ MonitorFairness

-----------------------------------------------------------------------------
MonitorTypeOK ==
    /\ tasks \in 0 .. events /\ events \in 0 .. files /\ files \in 0 .. MaxEvents
    /\ last \in 0 .. MaxSequence
    /\ publisherLock \in {"free", "held", "dead", "stale"}
    /\ at \in {"off", "cycle", "send", "wait", "check", "sleep"}
              \union {BuildSteps[i] : i \in 1 .. 7}
    /\ rank \in Ranks \union {0}
    /\ draft \in Snapshots /\ net \subseteq Snapshots
    /\ reply \in {"none", "accepted", "refused"}
    /\ stored \in Snapshots \union {NoSnapshot} /\ rows \subseteq Snapshots
    /\ floor \in Ranks \union {0}
    /\ epoch \in 0 .. MaxFaults /\ mishaps \in 0 .. MaxFaults

\* operational_state.valid: no archive in the tree is unbound either.  Its other
\* conjuncts are true of every snapshot of this model: a ledger that does not
\* verify fails the cycle (Fail), each archive has a path of its own, so that no
\* two references conflict and no hash differs, and nobody edits the sources
\* of the workspace, which is what unclassified changes are.
Valid(s) == s.consistent /\ ~s.missing /\ 1 .. s.tree \subseteq References(s.events)

\* A snapshot assembled while tasks are submitted may raise an alarm about a
\* submission under way, but never shows a task the ledger it shows does not
\* explain, and never reports archived evidence as missing: build_snapshot
\* reads the tasks first and the files after the ledger.
Coherent(s) == s.tasks <= s.verified /\ s.verified <= s.events /\ ~s.missing

\* A row with a larger sequence was read later, unless the sequence file was
\* lost between them, and never has an older schema
InOrder(s, t) ==
    s.sequence < t.sequence =>
        /\ s.rank <= t.rank
        /\ s.epoch = t.epoch => s.tasks <= t.tasks /\ s.events <= t.events

\* The page never goes back: whatever arrives late, twice or out of order, from
\* publishers killed and restarted, the row shown is the newest of the kept
\* history, the history is in the order the workspace was read in, and every
\* row of it is coherent.
DashboardInOrder ==
    /\ \A s, t \in rows : InOrder(s, t)
    /\ \A s \in rows : Coherent(s)
    /\ stored # NoSnapshot => stored \in rows /\ \A s \in rows : s.sequence <= stored.sequence

\* A submission reaches the page once the faults end, even when the sequence
\* file was lost and the publisher must first overtake the stored sequence; and
\* an alarm raised while it was under way is cleared unless another one is.  A
\* publisher older than the stored schema is refused for ever.
PublisherRecovers ==
    \A n \in 1 .. MaxEvents :
        tasks >= n /\ Room ~>
                      \/ stored # NoSnapshot /\ stored.tasks >= n /\ (Valid(stored) \/ files # tasks)
                      \/ at # "off" /\ rank < floor
=============================================================================
