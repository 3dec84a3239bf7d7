--------------------------- MODULE SnapshotBroker ---------------------------
(***************************************************************************)
(* The root daemon of snapshot_broker.py, which copies a sealed source     *)
(* tree into a root-owned namespace and lends a client a descriptor of it, *)
(* and SnapshotBrokerClient.  Each client acquires one lease and releases  *)
(* it, retrying with the same request.  The daemon serves connections in   *)
(* threads under one lease lock; it may die anywhere, and any file         *)
(* operation that ends a step may fail.                                    *)
(***************************************************************************)
EXTENDS Naturals, Sequences, FiniteSets, FiniteSetsExt

CONSTANTS
    Clients,          \* client processes; a lease is named by its client
    Uid(_),           \* the account a client runs under
    Threads,          \* the daemon's connection slots
    None,             \* nobody
    FileCount,        \* files in a source tree
    Editors,          \* clients whose source tree changes under them
    MaxLeases,        \* MAX_ACTIVE_BROKER_LEASES
    MaxNoncesPerUid, MaxNonces,
    MaxTombstones,    \* MAX_CLEANUP_TOMBSTONES
    RequestTTL,       \* the 60 seconds of _request
    LeaseTTL,         \* BROKER_LEASE_TTL_SECONDS
    PruneSlack,       \* the 5 seconds a nonce outlives its request
    MaxTime,          \* bound on the clock
    Budgets           \* how many faults of each kind may happen together

ASSUME ConstantsAssumption ==
    /\ Editors \subseteq Clients
    /\ None \notin Clients \union Threads
    /\ {FileCount, MaxLeases, MaxNoncesPerUid, MaxNonces, MaxTombstones,
        RequestTTL, LeaseTTL, PruneSlack, MaxTime} \subseteq Nat
    /\ MaxTombstones > 0
    /\ Budgets \subseteq [crashes : Nat, failures : Nat, timeouts : Nat, edits : Nat]

VARIABLES
    now,        \* int(time.time()), for the daemon and the clients
    client,     \* what each client is doing
    source,     \* the files of each client's source tree
    deadline,   \* expires_at of the requests sent
    daemon,     \* "down", "starting" or "up"
    cleaning,   \* the namespace startup recovery is removing
    thread,     \* the connection each thread serves
    lock,       \* the thread inside _lease_lock
    writing,    \* the thread inside the nonce store's lock
    ns,         \* the namespaces under store_root
    records,    \* the leases with a record under lease_root
    expires,    \* expires_at of each lease, signed and recorded
    temp,       \* temporary files left in lease_root
    nonce,      \* the nonce files: absent, empty or holding expires_at
    leases,     \* _leases
    tombs,      \* _cleanup_tombstones: the place of each lease in their order, or 0
    faults      \* the faults so far

outside == <<now, client, source, deadline>>
disk == <<ns, records, expires, temp, nonce>>
memory == <<leases, tombs>>
vars == <<outside, daemon, cleaning, thread, lock, writing, disk, memory, faults>>

Ops == {"acquire", "release"}
Versions == {"declared", "other", "unsealed"}
Absent == [mode |-> "absent", content |-> <<>>]
Idle == [pc |-> "idle", c |-> None, op |-> "acquire", peer |-> FALSE, on |-> None, next |-> "idle"]
NoTombs == [c \in Clients |-> 0]
Tombstones == {c \in Clients : tombs[c] # 0}

TypeOK ==
    /\ now \in 0..MaxTime
    /\ client \in [Clients -> {"new", "acquiring", "holding", "failed",
                               "releasing", "unsure", "released"}]
    /\ source \in [Clients -> [1..FileCount -> Versions]]
    /\ deadline \in [Clients -> [Ops -> Nat]]
    /\ daemon \in {"down", "starting", "up"} /\ cleaning \in Clients \union {None}
    /\ lock \in Threads \union {None} /\ writing \in Threads \union {None}
    /\ \A c \in Clients : ns[c].mode \in {"absent", "open", "sealed"}
    /\ records \subseteq Clients /\ expires \in [Clients -> Nat] /\ temp \subseteq Clients
    /\ nonce \in [Clients \X Ops -> {"absent", "empty", "full"}]
    /\ leases \in SUBSET Clients
    /\ tombs \in [Clients -> Nat] /\ Cardinality(Tombstones) <= MaxTombstones

Init ==
    /\ now = 0
    /\ client = [c \in Clients |-> "new"]
    /\ source = [c \in Clients |-> [k \in 1..FileCount |-> "declared"]]
    /\ deadline = [c \in Clients |-> [op \in Ops |-> 0]]
    /\ daemon = "down" /\ cleaning = None
    /\ thread = [h \in Threads |-> Idle]
    /\ lock = None /\ writing = None
    /\ ns = [c \in Clients |-> Absent]
    /\ records = {} /\ expires = [c \in Clients |-> 0] /\ temp = {}
    /\ nonce = [n \in Clients \X Ops |-> "absent"]
    /\ leases = {} /\ tombs = NoTombs
    /\ faults = [crashes |-> 0, failures |-> 0, timeouts |-> 0, edits |-> 0]

-----------------------------------------------------------------------------
(* Helpers *)

Namespaces == {c \in Clients : ns[c].mode # "absent"}

\* lease.expires_at < now
Lapsed(c) == expires[c] < now
\* _validate_window, for a request the client has made itself
InWindow(c, op) == deadline[c][op] >= now

At(h, pc) == daemon = "up" /\ thread[h].pc = pc
Go(h, pc) == thread' = [thread EXCEPT ![h].pc = pc]
LeaseLockFree(h) == lock \in {None, h}
\* One more fault, if the bound allows it.
Fault(kind) ==
    /\ faults' = [faults EXCEPT ![kind] = @ + 1]
    /\ \E b \in Budgets : \A k \in DOMAIN b : faults'[k] <= b[k]
\* A file operation raises.
Fail == Fault("failures")

\* fchmod(0o700) and the unlinks of _remove_committed_snapshot
Opened(c) == [ns EXCEPT ![c].mode = "open"]
\* its final rmdir
Gone(c) == [ns EXCEPT ![c] = Absent]

\* What a client makes of a connection that ends without a usable answer.
Cut(c) == IF client[c] \in {"acquiring", "failed"} THEN "failed" ELSE "unsure"

-----------------------------------------------------------------------------
(* The client *)

\* The tree a client has declared changes, or loses its seal, while the broker
\* may be reading it.
EditSource(c) ==
    /\ c \in Editors /\ client[c] = "acquiring"
    /\ \E k \in 1..FileCount, v \in Versions : source' = [source EXCEPT ![c][k] = v]
    /\ Fault("edits")
    /\ UNCHANGED <<now, client, deadline, daemon, cleaning, thread, lock, writing, disk, memory>>

\* _request
Ask(c, op, pc) ==
    /\ client' = [client EXCEPT ![c] = pc]
    /\ deadline' = [deadline EXCEPT ![c][op] = now + RequestTTL]
    /\ UNCHANGED <<now, source, daemon, cleaning, thread, lock, writing, disk, memory, faults>>

\* SnapshotBrokerClient.acquire
Acquire(c) == client[c] = "new" /\ Ask(c, "acquire", "acquiring")

\* BrokerLease.release: closes its descriptor and makes the one request it
\* will ever use.
Release(c) == client[c] = "holding" /\ Ask(c, "release", "releasing")

\* release again, with the request of the first call
RetryRelease(c) ==
    /\ client[c] = "unsure"
    /\ client' = [client EXCEPT ![c] = "releasing"]
    /\ UNCHANGED <<now, source, deadline, daemon, cleaning, thread, lock, writing, disk, memory, faults>>

Connected(c) == \E h \in Threads : thread[h].c = c /\ thread[h].peer

\* The socket times out; the thread that serves it goes on.
ClientTimeout(c) ==
    /\ client[c] \in {"acquiring", "releasing"}
    /\ client' = [client EXCEPT ![c] = Cut(c)]
    /\ thread' = [h \in Threads |-> IF thread[h].c = c THEN [thread[h] EXCEPT !.peer = FALSE] ELSE thread[h]]
    /\ Fault("timeouts")
    /\ UNCHANGED <<now, source, deadline, daemon, cleaning, lock, writing, disk, memory>>

Tick ==
    /\ now < MaxTime
    /\ now' = now + 1
    /\ UNCHANGED <<client, source, deadline, daemon, cleaning, thread, lock, writing, disk, memory, faults>>

-----------------------------------------------------------------------------
(* Startup and death of the daemon *)

\* _recover_persisted_leases: a record is dropped when it has lapsed or its
\* namespace is missing, a namespace when no record keeps it.
Stale(c) == c \in records /\ (Lapsed(c) \/ c \notin Namespaces)
Orphan(c) == c \in Namespaces /\ c \notin records

\* What makes recovery raise: a file that is not a record, a namespace that is
\* not sealed, or too many of either.
Obstacle ==
    \/ temp # {}
    \/ \E c \in Namespaces \ {cleaning} : ns[c].mode # "sealed"
    \/ Cardinality(records) > 2 * MaxLeases \/ Cardinality(Namespaces) > 2 * MaxLeases

\* _prepare and _acquire_singleton_lock: one daemon at a time
Start ==
    /\ daemon = "down" /\ daemon' = "starting"
    /\ UNCHANGED <<outside, cleaning, thread, lock, writing, disk, memory, faults>>

\* One namespace or record is dropped, in the two steps of a removal.
RecoverOpen(c) ==
    /\ daemon = "starting" /\ cleaning = None /\ ~Obstacle
    /\ Orphan(c) \/ (Stale(c) /\ c \in Namespaces)
    /\ cleaning' = c /\ ns' = Opened(c)
    /\ UNCHANGED <<outside, daemon, thread, lock, writing, records, expires, temp, nonce, memory, faults>>

RecoverDrop(c) ==
    /\ daemon = "starting" /\ ~Obstacle
    /\ cleaning = c \/ (cleaning = None /\ Stale(c) /\ c \notin Namespaces)
    /\ cleaning' = None /\ ns' = Gone(c)
    /\ records' = records \ {c}
    /\ UNCHANGED <<outside, daemon, thread, lock, writing, expires, temp, nonce, memory, faults>>

\* Mutant: only lapsed records are rolled back.
Recovered_Lapsed ==
    /\ \A c \in records : ~Lapsed(c)
    /\ leases' = records
\* Every record left is a live lease; the daemon binds its socket.
Recovered ==
    /\ \A c \in Clients : ~Stale(c) /\ ~Orphan(c)
    /\ leases' = records

Serve ==
    /\ daemon = "starting" /\ cleaning = None /\ ~Obstacle
    /\ Recovered
    /\ daemon' = "up" /\ tombs' = NoTombs
    /\ UNCHANGED <<outside, cleaning, thread, lock, writing, disk, faults>>

Refuse ==
    /\ daemon = "starting" /\ Obstacle
    /\ daemon' = "down"
    /\ UNCHANGED <<outside, cleaning, thread, lock, writing, disk, memory, faults>>

\* The kernel frees the locks and closes the sockets of a dead daemon.
Crash ==
    /\ daemon # "down" /\ Fault("crashes")
    /\ daemon' = "down" /\ cleaning' = None
    /\ thread' = [h \in Threads |-> Idle]
    /\ lock' = None /\ writing' = None
    /\ leases' = {} /\ tombs' = NoTombs
    /\ client' = [c \in Clients |-> IF Connected(c) THEN Cut(c) ELSE client[c]]
    /\ UNCHANGED <<now, source, deadline, disk>>

-----------------------------------------------------------------------------
(* handle_connection *)

\* serve_forever: a connection is given a slot, or closed when there is none.
Accept(c) ==
    /\ daemon = "up" /\ client[c] \in {"acquiring", "releasing"} /\ ~Connected(c)
    /\ LET free == {h \in Threads : thread[h].pc = "idle"} IN
       \/ /\ free # {}
          /\ \E h \in free : thread' = [thread EXCEPT ![h] =
               [pc |-> "evict", c |-> c, peer |-> TRUE, on |-> c, next |-> "idle",
                op |-> IF client[c] = "acquiring" THEN "acquire" ELSE "release"]]
          /\ UNCHANGED client
       \/ /\ free = {}
          /\ client' = [client EXCEPT ![c] = Cut(c)]
          /\ UNCHANGED thread
    /\ UNCHANGED <<now, source, deadline, daemon, cleaning, lock, writing, disk, memory, faults>>

\* The handler raises: it leaves the locks it is in, and answers with an error.
Raise(h) == Go(h, "error") /\ lock' = (IF lock = h THEN None ELSE lock)

\* Mutant: a namespace that is half removed counts as removed.
BeginRemove_Lenient(h, c, next) ==
    \/ /\ ns[c].mode = "sealed"
       /\ ns' = Opened(c) /\ lock' = h
       /\ thread' = [thread EXCEPT ![h].pc = "removing", ![h].on = c, ![h].next = next]
    \/ /\ ns[c].mode # "sealed"
       /\ Go(h, next) /\ lock' = h /\ UNCHANGED ns
\* _remove_lease_namespace: the identity check, and the first of the two steps
\* of _remove_committed_snapshot.  A namespace that is not sealed is refused.
BeginRemove(h, c, next) ==
    \/ /\ ns[c].mode = "sealed"
       /\ ns' = Opened(c) /\ lock' = h
       /\ thread' = [thread EXCEPT ![h].pc = "removing", ![h].on = c, ![h].next = next]
    \/ /\ ns[c].mode # "sealed"
       /\ Raise(h) /\ UNCHANGED ns

Removing(h) ==
    /\ At(h, "removing")
    /\ \/ /\ ns' = Gone(thread[h].on)
          /\ Go(h, thread[h].next)
          /\ lock' = (IF thread[h].next = "error" THEN None ELSE h)
          /\ UNCHANGED faults
       \/ Fail /\ Raise(h) /\ UNCHANGED ns
    /\ UNCHANGED <<outside, daemon, cleaning, writing, records, expires, temp, nonce, memory>>

\* _delete_lease_record, and the lease leaves the table
Forget(h, next) ==
    LET c == thread[h].on IN
    \/ /\ records' = records \ {c}
       /\ leases' = leases \ {c}
       /\ Go(h, next)
       /\ lock' = (IF next = "evict" THEN h ELSE None)
       /\ UNCHANGED faults
    \/ Fail /\ Raise(h) /\ UNCHANGED <<records, leases>>

\* _evict_expired_leases: one lapsed lease after the other, under the lock
Evict(h) ==
    /\ At(h, "evict") /\ LeaseLockFree(h)
    /\ LET lapsed == {c \in leases : Lapsed(c)} IN
       \/ lapsed = {} /\ Go(h, "check") /\ lock' = None /\ UNCHANGED ns
       \/ \E c \in lapsed :
            IF c \in Namespaces THEN BeginRemove(h, c, "evicted")
            ELSE /\ thread' = [thread EXCEPT ![h].pc = "evicted", ![h].on = c]
                 /\ lock' = h /\ UNCHANGED ns
    /\ UNCHANGED <<outside, daemon, cleaning, writing, records, expires, temp, nonce, memory, faults>>

Evicted(h) ==
    /\ At(h, "evicted") /\ Forget(h, "evict")
    /\ UNCHANGED <<outside, daemon, cleaning, writing, ns, expires, temp, nonce, tombs>>

\* _cached_cleanup_response: tombstones of requests that have left their
\* window are deleted; every retry of a client is the exact request.
Remembered == [c \in Clients |-> IF InWindow(c, "release") THEN tombs[c] ELSE 0]
Cached(c) == Remembered[c] # 0

\* _receive_framed_json_with_fds and validate_request; a release looks for its
\* tombstone under the lease lock.
Check(h) ==
    LET c == thread[h].c
        op == thread[h].op
    IN /\ At(h, "check")
       /\ \/ /\ ~InWindow(c, op)
             /\ Raise(h) /\ UNCHANGED tombs
          \/ /\ InWindow(c, op) /\ op = "acquire"
             /\ Go(h, "consume") /\ UNCHANGED <<lock, tombs>>
          \/ /\ InWindow(c, op) /\ op = "release" /\ LeaseLockFree(h)
             /\ tombs' = Remembered
             /\ Go(h, IF Cached(c) THEN "answer" ELSE "consume")
             /\ UNCHANGED lock
       /\ UNCHANGED <<outside, daemon, cleaning, writing, disk, leases, faults>>

-----------------------------------------------------------------------------
(* The nonce store *)

\* _prune_expired keeps what may still be presented, and a little more.
Kept == {n \in Clients \X Ops : nonce[n] = "full" /\ deadline[n[1]][n[2]] + PruneSlack >= now}
Full(c) ==
    \/ Cardinality({n \in Kept : Uid(n[1]) = Uid(c)}) >= MaxNoncesPerUid
    \/ Cardinality(Kept) >= MaxNonces

\* _consume_locked up to O_CREAT | O_EXCL: an empty file in the store stops
\* every request, a full store or a known nonce this one.
Consume(h) ==
    LET n == <<thread[h].c, thread[h].op>> IN
    /\ At(h, "consume") /\ writing = None
    /\ \/ /\ \E m \in Clients \X Ops : nonce[m] = "empty"
          /\ Raise(h) /\ UNCHANGED <<nonce, writing>>
       \/ /\ \A m \in Clients \X Ops : nonce[m] # "empty"
          /\ LET pruned == [m \in Clients \X Ops |-> IF m \in Kept THEN "full" ELSE "absent"] IN
             \/ /\ Full(n[1]) \/ n \in Kept
                /\ nonce' = pruned /\ Raise(h) /\ UNCHANGED writing
             \/ /\ ~Full(n[1]) /\ n \notin Kept
                /\ nonce' = [pruned EXCEPT ![n] = "empty"]
                /\ writing' = h /\ Go(h, "noncing") /\ UNCHANGED lock
    /\ UNCHANGED <<outside, daemon, cleaning, ns, records, expires, temp, memory, faults>>

\* The write of expires_at; when it raises the empty file stays.
WriteNonce(h) ==
    /\ At(h, "noncing") /\ writing' = None
    /\ \/ /\ nonce' = [nonce EXCEPT ![<<thread[h].c, thread[h].op>>] = "full"]
          /\ Go(h, thread[h].op) /\ UNCHANGED <<lock, faults>>
       \/ Fail /\ Raise(h) /\ UNCHANGED nonce
    /\ UNCHANGED <<outside, daemon, cleaning, ns, records, expires, temp, memory>>

-----------------------------------------------------------------------------
(* _acquire *)

HasRoom == Cardinality(leases) < MaxLeases

\* The limit, and mkdir(0o700)
BeginAcquire(h) ==
    /\ At(h, "acquire") /\ LeaseLockFree(h)
    /\ \/ /\ HasRoom
          /\ ns' = [ns EXCEPT ![thread[h].c].mode = "open"]
          /\ lock' = h
          /\ thread' = [thread EXCEPT ![h].pc = "copying", ![h].on = thread[h].c]
       \/ ~HasRoom /\ Raise(h) /\ UNCHANGED ns
    /\ UNCHANGED <<outside, daemon, cleaning, writing, records, expires, temp, nonce, memory, faults>>

\* copy_directory: a file is copied as it is when it is read.  One that is not
\* sealed, or changes while it is read, raises.
CopyFile(h) ==
    LET c == thread[h].c
        k == Len(ns[c].content) + 1
    IN /\ At(h, "copying") /\ k <= FileCount
       /\ \/ /\ source[c][k] # "unsealed"
             /\ ns' = [ns EXCEPT ![c].content = Append(@, source[c][k])]
             /\ UNCHANGED thread
          \/ /\ source[c][k] = "unsealed"
             /\ Go(h, "undo") /\ UNCHANGED ns
       /\ UNCHANGED <<outside, daemon, cleaning, lock, writing, records, expires, temp, nonce, memory, faults>>

\* Mutant: the manifest that was asked for is not looked at.
AsDeclared_Any(c) == Len(ns[c].content) = FileCount
\* snapshot["sha256"] = request["expected_snapshot_sha256"]
AsDeclared(c) ==
    /\ Len(ns[c].content) = FileCount
    /\ \A k \in 1..FileCount : ns[c].content[k] = "declared"

\* fchmod(0o555), and the lease's temporary record, or the copy is refused.
Seal(h) ==
    LET c == thread[h].c IN
    /\ At(h, "copying") /\ Len(ns[c].content) = FileCount
    /\ ns' = [ns EXCEPT ![c].mode = "sealed"]
    /\ \/ /\ AsDeclared(c)
          /\ expires' = [expires EXCEPT ![c] = now + LeaseTTL]
          /\ temp' = temp \union {c} /\ Go(h, "persist")
       \/ ~AsDeclared(c) /\ Go(h, "undo") /\ UNCHANGED <<expires, temp>>
    /\ UNCHANGED <<outside, daemon, cleaning, lock, writing, records, nonce, memory, faults>>

\* _persist_lease: rename and the fsync after it.  When that fails the record
\* may be there, and the handler does not know of it.
Persist(h) ==
    LET c == thread[h].c IN
    /\ At(h, "persist")
    /\ temp' = temp \ {c}
    /\ \/ /\ records' = records \union {c}
          /\ leases' = leases \union {c} /\ lock' = None
          /\ Go(h, "answer") /\ UNCHANGED faults
       \/ /\ Fail /\ Go(h, "undo")
          /\ records' \in {records, records \union {c}}
          /\ UNCHANGED <<leases, lock>>
    /\ UNCHANGED <<outside, daemon, cleaning, writing, ns, expires, nonce, tombs>>

\* The except clause of _acquire: what was copied is removed, sealed or not.
Undo(h) ==
    LET c == thread[h].c IN
    /\ At(h, "undo")
    /\ ns' = Opened(c)
    /\ thread' = [thread EXCEPT ![h].pc = "removing", ![h].next = "error"]
    /\ UNCHANGED <<outside, daemon, cleaning, lock, writing, records, expires, temp, nonce, memory, faults>>

-----------------------------------------------------------------------------
(* _release *)

\* The lease is in the table, and its namespace has the identity it had.
BeginRelease(h) ==
    LET c == thread[h].c IN
    /\ At(h, "release") /\ LeaseLockFree(h)
    /\ \/ c \in leases /\ BeginRemove(h, c, "cleaned")
       \/ c \notin leases /\ Raise(h) /\ UNCHANGED ns
    /\ UNCHANGED <<outside, daemon, cleaning, writing, records, expires, temp, nonce, memory, faults>>

\* _remember_cleanup_response: the oldest is forgotten first.
Oldest == CHOOSE c \in Tombstones : \A d \in Tombstones : tombs[c] <= tombs[d]
Remember(c) ==
    LET kept == Tombstones \ (IF Cardinality(Tombstones) >= MaxTombstones THEN {Oldest} ELSE {})
    IN  tombs' = [d \in Clients |-> IF d = c THEN Max({0} \union {tombs[e] : e \in kept}) + 1
                                   ELSE IF d \in kept THEN tombs[d] ELSE 0]

\* The proof is remembered before the record is deleted.
Cleaned(h) ==
    /\ At(h, "cleaned")
    /\ Remember(thread[h].c) /\ Forget(h, "answer")
    /\ UNCHANGED <<outside, daemon, cleaning, writing, ns, expires, temp, nonce>>

-----------------------------------------------------------------------------
(* The answer *)

\* SnapshotBrokerClient.acquire: the proof is for this request and has not
\* lapsed, and the descriptor is that of a sealed directory.
AcceptsLease(c) == ~Lapsed(c) /\ ns[c].mode = "sealed"

\* _send_response.  A peer that has gone makes an acquire roll back; the answer
\* to a release is lost, and its tombstone stays.
Answer(h) ==
    LET c == thread[h].c
        acquired == thread[h].op = "acquire"
    IN /\ At(h, "answer")
       /\ \/ /\ thread[h].peer
             /\ client' = [client EXCEPT ![c] =
                   CASE acquired /\ AcceptsLease(c)  -> "holding"
                     [] acquired /\ ~AcceptsLease(c) -> "failed"
                     [] OTHER                        -> "released"]
             /\ thread' = [thread EXCEPT ![h] = Idle]
          \/ /\ ~thread[h].peer /\ acquired
             /\ Go(h, "rollback") /\ UNCHANGED client
          \/ /\ ~thread[h].peer /\ ~acquired
             /\ thread' = [thread EXCEPT ![h] = Idle] /\ UNCHANGED client
       /\ UNCHANGED <<now, source, deadline, daemon, cleaning, lock, writing, disk, memory, faults>>

\* _rollback_acquire_response; the lease may have lapsed and gone meanwhile.
Rollback(h) ==
    LET c == thread[h].c IN
    /\ At(h, "rollback") /\ LeaseLockFree(h)
    /\ CASE c \notin leases -> Raise(h) /\ UNCHANGED ns
         [] c \in leases /\ c \in Namespaces -> BeginRemove(h, c, "rolled")
         [] OTHER -> /\ thread' = [thread EXCEPT ![h].pc = "rolled", ![h].on = c]
                     /\ lock' = h /\ UNCHANGED ns
    /\ UNCHANGED <<outside, daemon, cleaning, writing, records, expires, temp, nonce, memory, faults>>

RolledBack(h) ==
    /\ At(h, "rolled") /\ Forget(h, "error")
    /\ UNCHANGED <<outside, daemon, cleaning, writing, ns, expires, temp, nonce, tombs>>

\* _error_response, if anyone is there to read it
Error(h) ==
    LET c == thread[h].c IN
    /\ At(h, "error")
    /\ client' = [client EXCEPT ![c] = IF thread[h].peer THEN Cut(c) ELSE @]
    /\ thread' = [thread EXCEPT ![h] = Idle]
    /\ UNCHANGED <<now, source, deadline, daemon, cleaning, lock, writing, disk, memory, faults>>

-----------------------------------------------------------------------------
Handle(h) ==
    \/ Evict(h) \/ Evicted(h) \/ Check(h) \/ Consume(h) \/ WriteNonce(h)
    \/ BeginAcquire(h) \/ CopyFile(h) \/ Seal(h) \/ Persist(h) \/ Undo(h)
    \/ BeginRelease(h) \/ Cleaned(h)
    \/ Removing(h) \/ Answer(h) \/ Rollback(h) \/ RolledBack(h) \/ Error(h)

Next ==
    \/ \E c \in Clients :
         \/ EditSource(c) \/ Acquire(c) \/ Release(c) \/ RetryRelease(c) \/ ClientTimeout(c)
         \/ Accept(c) \/ RecoverOpen(c) \/ RecoverDrop(c)
    \/ \E h \in Threads : Handle(h)
    \/ Start \/ Serve \/ Refuse \/ Crash \/ Tick

Spec == Init /\ [][Next]_vars

-----------------------------------------------------------------------------
(* Properties *)

\* A client that holds a lease which has not lapsed reads, through its
\* descriptor, the sealed tree it declared: no eviction, roll back, restart or
\* other client's release has touched it, and the daemon knows the lease.
HeldSnapshotIntact ==
    \A c \in Clients : client[c] = "holding" /\ ~Lapsed(c) =>
        /\ ns[c] = [mode |-> "sealed", content |-> [k \in 1..FileCount |-> "declared"]]
        /\ c \in records
        /\ daemon = "up" => c \in leases

\* A client that was given a cleanup proof has none of its files left in the
\* store, whichever attempt the proof answers and whatever died in between.
ProofMeansGone == \A c \in Clients : client[c] = "released" => c \notin Namespaces

\* While no file operation has failed, the table, the records and the
\* namespaces name the same leases whenever a serving daemon is between
\* operations, however often it has crashed.
TablesAgree ==
    daemon = "up" /\ lock = None /\ faults.failures = 0
        => leases = records /\ leases = Namespaces

\* Startup recovery never refuses the store a crash left behind: it "removes
\* expired records or unrecorded namespaces".
CrashRecoverable == daemon = "starting" => ~Obstacle
=============================================================================
