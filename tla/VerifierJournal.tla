-------------------------- MODULE VerifierJournal --------------------------
(***************************************************************************)
(* The dedicated verifier: the journal of verifier_journal.py, one record  *)
(* file and one claim marker per dispatch, and the receipt store of        *)
(* verifier_service.py.  Threads of one process share the journal's RLock; *)
(* persist_receipt loads the record and writes the receipt without it.     *)
(* Creating a file, filling it and replacing a record are separate steps:  *)
(* a process may die between them, and each may fail with an I/O error.    *)
(***************************************************************************)
EXTENDS Naturals, Sequences, FiniteSets

CONSTANTS
    Threads, Processes,
    ProcessOf,          \* the process of each thread
    Dispatches,         \* dispatch event hashes
    Identities,         \* task id, attempt, actor and run id of a dispatch
    Receipts,           \* receipts that verify, for each dispatch
    NoReceipt,
    MaxRecords,         \* MAX_JOURNAL_RECORDS
    MaxReceipts,        \* MAX_RECEIPT_STORE_ENTRIES
    MaxCrashes, MaxErrors   \* bounds

ASSUME ConstantsAssumption ==
    /\ ProcessOf \in [Threads -> Processes]
    /\ Identities # {} /\ NoReceipt \notin Receipts
    /\ MaxRecords \in Nat /\ MaxReceipts \in Nat
    /\ MaxCrashes \in Nat /\ MaxErrors \in Nat

VARIABLES
    file,         \* for each file name: absent, torn (created, not filled) or whole
    rec,          \* the content of each whole record file,
    mark,         \* claim marker
    rcp,          \* and receipt
    pc, job,      \* where each thread is, and what it holds in memory
    path,         \* every state written over the record of a dispatch, in order
    acquisitions, \* how often claim_acquired became true for a dispatch
    crashes, errors

vars == <<file, rec, mark, rcp, pc, job, path, acquisitions, crashes, errors>>

ALL_STATES ==
    {"REQUESTED", "CLAIMED", "SOURCE_VERIFIED", "SNAPSHOT_ACQUIRED", "EXECUTING",
     "EXECUTION_SEALED", "RELEASE_PENDING", "CLEANUP_ACKED", "RECEIPT_PERSISTED",
     "TERMINAL_APPENDED", "DONE", "FAILED", "QUARANTINED", "CRASH_ABORTED",
     "FAILED_CLEANUP_REQUIRED"}
FAILURE_STATES == {"FAILED", "QUARANTINED", "CRASH_ABORTED", "FAILED_CLEANUP_REQUIRED"}
TERMINAL_STATES == {"DONE", "FAILED", "QUARANTINED"}

Kinds == {"record", "marker", "receipt"}
Names == Kinds \X Dispatches

\* A record without its constant fields and timestamps; failed says that it
\* has a failure_code.
Record == [ident : Identities, state : ALL_STATES, revision : Nat, failed : BOOLEAN]
Requested(i) == [ident |-> i, state |-> "REQUESTED", revision |-> 0, failed |-> FALSE]

\* kind is the file a thread is creating, body the receipt it wants to store,
\* next the record it is about to write, seen the one persist_receipt loaded,
\* todo what recover still has to look at.
Job == [d : Dispatches, kind : Kinds, body : Receipts \union {NoReceipt},
        next : Record, seen : Record, todo : SUBSET Dispatches]
NoJob == <<>>

FileSteps == {"create", "fill", "sync"}
Steps == FileSteps \union {"reload", "replace", "recovering", "advance"}

-----------------------------------------------------------------------------
(* Records *)

ALLOWED_TRANSITIONS ==
    [REQUESTED |-> {"CLAIMED", "FAILED", "QUARANTINED"},
     CLAIMED |-> {"SOURCE_VERIFIED", "FAILED", "QUARANTINED"},
     SOURCE_VERIFIED |-> {"SNAPSHOT_ACQUIRED", "FAILED", "QUARANTINED"},
     SNAPSHOT_ACQUIRED |-> {"EXECUTING"},
     EXECUTING |-> {"EXECUTION_SEALED"},
     EXECUTION_SEALED |-> {"RELEASE_PENDING"},
     CRASH_ABORTED |-> {"RELEASE_PENDING"},
     FAILED_CLEANUP_REQUIRED |-> {"RELEASE_PENDING"},
     RELEASE_PENDING |-> {"CLEANUP_ACKED"},
     CLEANUP_ACKED |-> {"RECEIPT_PERSISTED", "QUARANTINED"},
     RECEIPT_PERSISTED |-> {"TERMINAL_APPENDED", "QUARANTINED"},
     TERMINAL_APPENDED |-> {"DONE", "QUARANTINED"},
     DONE |-> {}, FAILED |-> {}, QUARANTINED |-> {}]

\* Mutant: FAILED is allowed while a snapshot is held.
CanMove_FailHeld(r, state) ==
    state \in ALLOWED_TRANSITIONS[r.state] \/ (r.state = "SNAPSHOT_ACQUIRED" /\ state = "FAILED")
CanMove(r, state) == state \in ALLOWED_TRANSITIONS[r.state]

\* Mutant: the failure code of the current record is dropped.
NextRecord_Forgets(r, state, code) ==
    [r EXCEPT !.state = state, !.revision = @ + 1, !.failed = code]

\* _next_record: a failure code stays unless a new one is given.
NextRecord(r, state, code) ==
    [r EXCEPT !.state = state, !.revision = @ + 1, !.failed = @ \/ code]

\* _validate_record: which states need a failure code, and which may carry one.
ValidRecord(r) ==
    /\ r.state \in FAILURE_STATES => r.failed
    /\ r.failed => r.state \in FAILURE_STATES \union
         {"RELEASE_PENDING", "CLEANUP_ACKED", "RECEIPT_PERSISTED", "TERMINAL_APPENDED", "DONE"}

Recoverable == {"EXECUTING", "SNAPSHOT_ACQUIRED"}
RecoveryState(s) == IF s = "EXECUTING" THEN "CRASH_ABORTED" ELSE "FAILED_CLEANUP_REQUIRED"

-----------------------------------------------------------------------------
(* Files and the lock *)

Init ==
    /\ file = [f \in Names |-> "absent"]
    /\ rec = [d \in Dispatches |-> Requested(CHOOSE i \in Identities : TRUE)]
    /\ mark = [d \in Dispatches |-> CHOOSE i \in Identities : TRUE]
    /\ rcp = [d \in Dispatches |-> NoReceipt]
    /\ pc = [th \in Threads |-> "idle"]
    /\ job = [th \in Threads |-> NoJob]
    /\ path = [d \in Dispatches |-> <<>>]
    /\ acquisitions = [d \in Dispatches |-> 0]
    /\ crashes = 0
    /\ errors = 0

Stored(kind) == {d \in Dispatches : file[<<kind, d>>] # "absent"}

\* load succeeds, and _require_same_identity.
Loads(d, i) == file[<<"record", d>>] = "whole" /\ rec[d].ident = i

\* The thread is inside `with self._lock`.
Locked(th) == pc[th] \in Steps \ {"advance"} /\ ~(pc[th] \in FileSteps /\ job[th].kind = "receipt")

\* Mutant: there is no lock.
LockFree_Always(th) == TRUE
LockFree(th) == \A u \in Threads : ProcessOf[u] = ProcessOf[th] => ~Locked(u)

Become(th, step) == pc' = [pc EXCEPT ![th] = step]

\* The operation returns or raises.
Finish(th) == Become(th, "idle") /\ job' = [job EXCEPT ![th] = NoJob]

Begin(th, step, d, kind, body, next, seen, todo) ==
    /\ pc[th] = "idle"
    /\ Become(th, step)
    /\ job' = [job EXCEPT ![th] = [d |-> d, kind |-> kind, body |-> body, next |-> next,
                                   seen |-> seen, todo |-> todo]]
    /\ UNCHANGED <<file, rec, mark, rcp, path, acquisitions, crashes, errors>>

-----------------------------------------------------------------------------
(* The operations, up to their decision *)

\* Mutant: one record too many.
CapacityLeft_OffByOne == Cardinality(Stored("record")) <= MaxRecords
\* _ensure_capacity_for_new_record
CapacityLeft == Cardinality(Stored("record")) < MaxRecords

\* The record is created unless it is there; the claim marker comes next.
claim_dispatch(th, d, i) ==
    /\ LockFree(th)
    /\ \/ file[<<"record", d>>] = "absent" /\ CapacityLeft
          /\ Begin(th, "create", d, "record", NoReceipt, Requested(i), Requested(i), {})
       \/ Loads(d, i)
          /\ Begin(th, "create", d, "marker", NoReceipt, Requested(i), Requested(i), {})

\* What the rest of the service moves a record to: claim_dispatch makes the
\* move to CLAIMED, and persist_receipt the one to RECEIPT_PERSISTED.
Driven == ALL_STATES \ {"CLAIMED", "RECEIPT_PERSISTED"}

\* transition, mark_failed and quarantine.
transition(th, d, state, code) ==
    LET next == NextRecord(rec[d], state, code)
    IN /\ LockFree(th)
       /\ file[<<"record", d>>] = "whole"
       /\ CanMove(rec[d], state)
       /\ ValidRecord(next)
       /\ Begin(th, "replace", d, "record", NoReceipt, next, next, {})

\* recover of one record, or recover_all, which loads every record first.
recover(th, ds) ==
    /\ LockFree(th)
    /\ \/ \E d \in Dispatches : ds = {d}
       \/ ds = Stored("record") /\ Cardinality(ds) <= MaxRecords
    /\ \A d \in ds : file[<<"record", d>>] = "whole"
    /\ \E d \in ds : Begin(th, "recovering", d, "record", NoReceipt, rec[d], rec[d], ds)

\* Mutant: a receipt is stored while the release is pending.
ReceiptStates_Early == {"RELEASE_PENDING", "CLEANUP_ACKED", "RECEIPT_PERSISTED"}
ReceiptStates == {"CLEANUP_ACKED", "RECEIPT_PERSISTED"}

\* persist_receipt, up to opening the receipt file; no lock is taken.
persist_receipt(th, d, i, body) ==
    /\ Loads(d, i)
    /\ rec[d].state \in ReceiptStates
    /\ Cardinality(Stored("receipt") \union {d}) <= MaxReceipts
    /\ Begin(th, "create", d, "receipt", body, rec[d], rec[d], {})

-----------------------------------------------------------------------------
(* The steps after the decision *)

\* The file is there with the content the thread wants: claim_dispatch goes on
\* to the marker and then to the record, persist_receipt to the record.
Proceed(th) ==
    /\ Become(th, CASE job[th].kind = "record"  -> "create"
                    [] job[th].kind = "marker"  -> "reload"
                    [] job[th].kind = "receipt" -> "advance")
    /\ job' = [job EXCEPT ![th].kind = IF @ = "record" THEN "marker" ELSE @]

\* Mutant: a receipt that is there is never accepted.
Matches_NewOnly(th) ==
    LET j == job[th]
    IN CASE j.kind = "record" -> rec[j.d].ident = j.next.ident
         [] j.kind = "marker" -> mark[j.d] = j.next.ident
         [] OTHER -> FALSE

\* The file that is already there is the one the thread would have written.
Matches(th) ==
    LET j == job[th]
    IN CASE j.kind = "record"  -> rec[j.d].ident = j.next.ident
         [] j.kind = "marker"  -> mark[j.d] = j.next.ident
         [] j.kind = "receipt" -> rcp[j.d] = j.body

\* Mutant: the file is opened without O_EXCL.
Creates_Overwrites(f) == TRUE
Creates(f) == file[f] = "absent"

\* os.open(O_CREAT | O_EXCL): the file is created, or what is there is compared.
CreateFile(th) ==
    LET f == <<job[th].kind, job[th].d>>
    IN /\ pc[th] = "create"
       /\ IF Creates(f)
          THEN file' = [file EXCEPT ![f] = "torn"] /\ Become(th, "fill") /\ UNCHANGED job
          ELSE /\ IF file[f] = "whole" /\ Matches(th)
                  THEN Proceed(th)
                  ELSE Finish(th)
               /\ UNCHANGED file
       /\ UNCHANGED <<rec, mark, rcp, path, acquisitions, crashes, errors>>

\* _write_all: the content is there for others to read.
FillFile(th) ==
    LET j == job[th]
        Put(content, kind, value) == IF j.kind = kind THEN [content EXCEPT ![j.d] = value] ELSE content
    IN /\ pc[th] = "fill"
       /\ file' = [file EXCEPT ![<<j.kind, j.d>>] = "whole"]
       /\ rec' = Put(rec, "record", j.next)
       /\ mark' = Put(mark, "marker", j.next.ident)
       /\ rcp' = Put(rcp, "receipt", j.body)
       /\ Become(th, "sync")
       /\ UNCHANGED <<job, path, acquisitions, crashes, errors>>

\* fsync, the checks on the new receipt and close; a marker is acquired now.
SyncFile(th) ==
    /\ pc[th] = "sync"
    /\ Proceed(th)
    /\ acquisitions' = [acquisitions EXCEPT
         ![job[th].d] = @ + IF job[th].kind = "marker" THEN 1 ELSE 0]
    /\ UNCHANGED <<file, rec, mark, rcp, path, crashes, errors>>

\* Writing, fsync or close raises: the file is unlinked, unless that fails too.
WriteFails(th) ==
    LET f == <<job[th].kind, job[th].d>>
    IN /\ errors < MaxErrors
       /\ pc[th] \in {"fill", "sync"}
       /\ errors' = errors + 1
       /\ \E left \in {"absent", file[f]} : file' = [file EXCEPT ![f] = left]
       /\ Finish(th)
       /\ UNCHANGED <<rec, mark, rcp, path, acquisitions, crashes>>

\* The end of claim_dispatch: whoever wrote the marker, a record that is still
\* REQUESTED is moved to CLAIMED.
Reload(th) ==
    LET d == job[th].d
    IN /\ pc[th] = "reload"
       /\ IF file[<<"record", d>>] = "whole" /\ rec[d].state = "REQUESTED"
          THEN /\ job' = [job EXCEPT ![th].next = NextRecord(rec[d], "CLAIMED", FALSE)]
               /\ Become(th, "replace")
          ELSE Finish(th)
       /\ UNCHANGED <<file, rec, mark, rcp, path, acquisitions, crashes, errors>>

\* One round of the loop of recover_all.
RecoverOne(th) ==
    /\ pc[th] = "recovering"
    /\ \E d \in job[th].todo :
         LET todo == job[th].todo \ {d}
         IN IF rec[d].state \in Recoverable
            THEN /\ job' = [job EXCEPT ![th].d = d, ![th].todo = todo,
                        ![th].next = NextRecord(rec[d], RecoveryState(rec[d].state), TRUE)]
                 /\ Become(th, "replace")
            ELSE IF todo = {} THEN Finish(th)
            ELSE Become(th, "recovering") /\ job' = [job EXCEPT ![th].todo = todo]
    /\ UNCHANGED <<file, rec, mark, rcp, path, acquisitions, crashes, errors>>

\* The end of persist_receipt: transition with the revision it loaded before.
Advance(th) ==
    LET d == job[th].d
        seen == job[th].seen
    IN /\ pc[th] = "advance"
       /\ IF seen.state = "CLEANUP_ACKED"
          THEN /\ LockFree(th)
               /\ IF /\ file[<<"record", d>>] = "whole" /\ rec[d].revision = seen.revision
                     /\ CanMove(rec[d], "RECEIPT_PERSISTED")
                  THEN /\ job' = [job EXCEPT
                            ![th].next = NextRecord(rec[d], "RECEIPT_PERSISTED", FALSE)]
                       /\ Become(th, "replace")
                  ELSE Finish(th)
          ELSE Finish(th)
       /\ UNCHANGED <<file, rec, mark, rcp, path, acquisitions, crashes, errors>>

WriteRecord(th) ==
    LET d == job[th].d
    IN /\ file' = [file EXCEPT ![<<"record", d>>] = "whole"]
       /\ rec' = [rec EXCEPT ![d] = job[th].next]
       /\ path' = [path EXCEPT ![d] = Append(@, job[th].next.state)]

\* _replace: the temporary file is written, synced and renamed.
Replace(th) ==
    /\ pc[th] = "replace"
    /\ WriteRecord(th)
    /\ IF job[th].todo = {} THEN Finish(th) ELSE Become(th, "recovering") /\ UNCHANGED job
    /\ UNCHANGED <<mark, rcp, acquisitions, crashes, errors>>

\* It raises, before the rename or after it.
ReplaceFails(th) ==
    /\ errors < MaxErrors
    /\ pc[th] = "replace"
    /\ errors' = errors + 1
    /\ WriteRecord(th) \/ UNCHANGED <<file, rec, path>>
    /\ Finish(th)
    /\ UNCHANGED <<mark, rcp, acquisitions, crashes>>

\* A process dies with all its threads; its files stay as they are.
Crash(proc) ==
    /\ crashes < MaxCrashes
    /\ \E th \in Threads : ProcessOf[th] = proc /\ pc[th] # "idle"
    /\ crashes' = crashes + 1
    /\ pc' = [th \in Threads |-> IF ProcessOf[th] = proc THEN "idle" ELSE pc[th]]
    /\ job' = [th \in Threads |-> IF ProcessOf[th] = proc THEN NoJob ELSE job[th]]
    /\ UNCHANGED <<file, rec, mark, rcp, path, acquisitions, errors>>

Call(th) ==
    \/ \E d \in Dispatches, i \in Identities : claim_dispatch(th, d, i)
    \/ \E d \in Dispatches, state \in Driven, code \in BOOLEAN : transition(th, d, state, code)
    \/ \E ds \in SUBSET Dispatches : recover(th, ds)
    \/ \E d \in Dispatches, i \in Identities, body \in Receipts : persist_receipt(th, d, i, body)

Progress(th) ==
    \/ CreateFile(th) \/ FillFile(th) \/ SyncFile(th)
    \/ Reload(th) \/ RecoverOne(th) \/ Advance(th) \/ Replace(th)

Next ==
    \/ \E th \in Threads : Call(th) \/ Progress(th) \/ WriteFails(th) \/ ReplaceFails(th)
    \/ \E proc \in Processes : Crash(proc)

Spec == Init /\ [][Next]_vars

\* A thread inside an operation goes on, and persist_receipt is retried with
\* the receipt that was produced.
Fairness ==
    /\ \A th \in Threads : SF_vars(Progress(th))
    /\ \A d \in Dispatches, i \in Identities, body \in Receipts :
         SF_vars(\E th \in Threads : persist_receipt(th, d, i, body))

FairSpec == Spec /\ Fairness

-----------------------------------------------------------------------------
(* Properties *)

TypeOK ==
    /\ file \in [Names -> {"absent", "torn", "whole"}]
    /\ rec \in [Dispatches -> Record]
    /\ mark \in [Dispatches -> Identities]
    /\ rcp \in [Dispatches -> Receipts \union {NoReceipt}]
    /\ pc \in [Threads -> Steps \union {"idle"}]
    /\ job \in [Threads -> Job \union {NoJob}]
    /\ \A th \in Threads : pc[th] # "idle" => job[th] \in Job
    /\ path \in [Dispatches -> Seq(ALL_STATES)]
    /\ acquisitions \in [Dispatches -> Nat]
    /\ crashes \in Nat /\ errors \in Nat

Went(d, state) == \E k \in 1..Len(path[d]) : path[d][k] = state

\* "claim_acquired is true only for the process that created the exclusive
\* claim marker": however often a dispatch is delivered, and whatever dies or
\* fails, at most one call ever gets the permission to execute it.
OneOwner == \A d \in Dispatches : acquisitions[d] <= 1

\* "duplicate wake-ups ... cannot reset a run or create a second execution":
\* no record is moved to EXECUTING twice.
OneExecution ==
    \A d \in Dispatches : \A j, k \in 1..Len(path[d]) :
        path[d][j] = "EXECUTING" /\ path[d][k] = "EXECUTING" => j = k

\* "Once a snapshot is acquired, failures must be sealed and cleanup must run":
\* a record that held a snapshot is closed only after its release was acked.
SnapshotReleased ==
    \A d \in Dispatches :
        rec[d].state \in TERMINAL_STATES /\ Went(d, "SNAPSHOT_ACQUIRED") => Went(d, "CLEANUP_ACKED")

\* A run that recover had to abort carries its failure code to the end: it is
\* never closed as if it had succeeded.
FailureRemembered ==
    \A d \in Dispatches :
        Went(d, "CRASH_ABORTED") \/ Went(d, "FAILED_CLEANUP_REQUIRED") => rec[d].failed

\* "Verifier receipt may persist only after cleanup acknowledgement", although
\* persist_receipt loads the record without the lock.
ReceiptAfterCleanup ==
    \A d \in Stored("receipt") : Went(d, "CLEANUP_ACKED")

\* The journal's limit is kept, and with it the limit of the receipt store,
\* which takes no lock between counting and creating.
StoresBounded ==
    /\ Cardinality(Stored("record")) <= MaxRecords
    /\ Cardinality(Stored("receipt")) <= Cardinality(Stored("record"))

\* "A crash after the exclusive receipt write but before the journal transition
\* is recoverable": the retry completes the transition.
ReceiptRetryCompletes ==
    \A d \in Dispatches :
        file[<<"receipt", d>>] = "whole" /\ rec[d].state = "CLEANUP_ACKED"
            ~> file[<<"receipt", d>>] = "absent" \/ rec[d].state # "CLEANUP_ACKED"

\* A record that says its receipt is persisted has a whole receipt on disk.
ReceiptBacked ==
    \A d \in Dispatches : Went(d, "RECEIPT_PERSISTED") => file[<<"receipt", d>>] = "whole"
=============================================================================
