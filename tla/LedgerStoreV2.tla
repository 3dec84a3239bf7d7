--------------------------- MODULE LedgerStoreV2 ---------------------------
(***************************************************************************)
(* The Ed25519 ledger of ledger_authority_store_v2.py and                  *)
(* ledger_authority_v2.py.  An append is three synced writes to two files  *)
(* (PREPARE, event, COMMIT); everything happens under one flock, which the *)
(* kernel frees when its holder dies.  Every write may be cut short, raise *)
(* after it was made, or be followed by a death; power loss drops what no  *)
(* fsync has covered.                                                      *)
(***************************************************************************)
EXTENDS Naturals, Sequences, FiniteSets

CONSTANTS
    Stores,         \* LedgerAuthorityV2Store objects, each in a process of its own
    Txs,            \* tx_id
    Bodies,         \* what an event says
    Dispatches,     \* the bodies that are a verification.requested
    MaxEvents,      \* MAX_STORE_EVENTS
    Budgets         \* how many faults and power losses a behaviour may have

ASSUME ConstantsAssumption ==
    /\ Dispatches \subseteq Bodies
    /\ MaxEvents \in Nat
    /\ Budgets \subseteq [faults : Nat, losses : Nat]

VARIABLES
    present,     \* the files that were created
    log,         \* the whole lines of events.v2.jsonl
    journal,     \* the whole lines of append-journal.v2.jsonl
    torn,        \* the files that end in part of a line
    synced,      \* how many lines of each file are on the disk
    pc, job,     \* where each store is, and the transaction it works on
    ind,         \* _indeterminate_tx_ids of each store
    acked,       \* transactions a DurableV2Append was returned for
    notApplied,  \* transactions that ended in RetryableAppendNotApplied
    checkpoint,  \* the last signed checkpoint
    dispatched,  \* the dispatches verify_signed_dispatch has accepted
    budget,      \* the faults that are left
    read,        \* history: how many lines of each file a call has read and acted on
    lost         \* history: the files that a power loss took such a line from

files == <<log, journal, torn, synced>>
history == <<acked, notApplied, checkpoint, dispatched>>
reliance == <<read, lost>>
vars == <<present, files, pc, job, ind, history, budget, reliance>>

Files == {"log", "journal"}

-----------------------------------------------------------------------------
(* Records.  A hash is named by what it is the hash of: an event hash by    *)
(* the events of the chain that ends in it, a journal hash likewise.  In a  *)
(* verified chain that is also the hash of the file up to this line.        *)

Hash == Seq(Bodies \X Nat)
GENESIS_HASH == <<>>

Envelope == [body : Bodies, sequence : Nat, previous_hash : Hash]
event_hash(e) == Append(e.previous_hash, <<e.body, e.sequence>>)
HeadAt(l, n) == IF n = 0 THEN GENESIS_HASH ELSE event_hash(l[n])
HeadOf(l) == HeadAt(l, Len(l))

\* verify_v2_chain
ChainVerifies(l) ==
    \A k \in 1..Len(l) : l[k].sequence = k /\ l[k].previous_hash = HeadAt(l, k - 1)

Entry == [kind : {"PREPARE", "COMMIT"}, tx : Txs, envelope : Envelope,
          journal_sequence : Nat, previous_journal_hash : Seq({"PREPARE", "COMMIT"} \X Txs \X Hash)]
journal_hash(e) == Append(e.previous_journal_hash, <<e.kind, e.tx, event_hash(e.envelope)>>)
JournalHead(j, n) == IF n = 0 THEN GENESIS_HASH ELSE journal_hash(j[n])

\* _make_prepare, _make_commit
MakeEntry(kind, tx, e) ==
    [kind |-> kind, tx |-> tx, envelope |-> e, journal_sequence |-> Len(journal) + 1,
     previous_journal_hash |-> JournalHead(journal, Len(journal))]

\* _validate_journal_chain: a COMMIT follows its PREPARE at once, and a tx_id
\* is used once.
JournalVerifies(j) ==
    \A k \in 1..Len(j) :
        /\ j[k].journal_sequence = k
        /\ j[k].previous_journal_hash = JournalHead(j, k - 1)
        /\ j[k].kind = "PREPARE" =>
             /\ k > 1 => j[k - 1].kind = "COMMIT"
             /\ \A i \in 1..(k - 1) : j[i].tx # j[k].tx
        /\ j[k].kind = "COMMIT" =>
             /\ k > 1
             /\ [j[k - 1] EXCEPT !.kind = "COMMIT", !.journal_sequence = k,
                    !.previous_journal_hash = JournalHead(j, k - 1)] = j[k]
             /\ j[k - 1].kind = "PREPARE"

\* The entries of each kind in a journal that verifies, where they alternate:
\* the k-th PREPARE is line 2k - 1.
Prepares(j) == [k \in 1..((Len(j) + 1) \div 2) |-> j[2 * k - 1]]
Commits(j) == [k \in 1..(Len(j) \div 2) |-> j[2 * k]]
Prepared(tx) == \E k \in 1..Len(journal) : journal[k].kind = "PREPARE" /\ journal[k].tx = tx
Committed(tx) == \E k \in 1..Len(journal) : journal[k].kind = "COMMIT" /\ journal[k].tx = tx
Unresolved == {tx \in Txs : Prepared(tx) /\ ~Committed(tx)}
PrepareOf(tx) == journal[CHOOSE k \in 1..Len(journal) : journal[k].kind = "PREPARE" /\ journal[k].tx = tx]

\* _require_snapshot_matches_prepare
MatchesBefore(l, e) == Len(l) + 1 = e.sequence /\ HeadOf(l) = e.previous_hash
MatchesAfter(l, e) == Len(l) = e.sequence /\ HeadOf(l) = event_hash(e)

\* _validate_combined: the k-th PREPARE is the k-th event, and only the last
\* transaction may lack its COMMIT, with its event or without.
Combined ==
    LET p == Prepares(journal)
        commits == Len(Commits(journal))
    IN /\ Len(p) <= Len(log) + 1 /\ commits <= Len(log)
       /\ \A k \in 1..Len(p) :
            /\ p[k].envelope.sequence = k
            /\ p[k].envelope.previous_hash = HeadAt(log, k - 1)
            /\ k <= Len(log) => p[k].envelope = log[k]
       /\ Unresolved = {} => commits = Len(log)
       /\ \A tx \in Unresolved : PrepareOf(tx).envelope.sequence \in {Len(log), Len(log) + 1}

\* _decode_ledger_line, _decode_journal_line: a line that was cut is not the
\* canonical JSON of its document.
Decodes(f) == f \notin torn
\* _read_jsonl: every line ends in a newline and decodes, and there are not too
\* many.
Parses(f, lines, limit) == f \in present /\ Decodes(f) /\ Len(lines) <= limit
\* _read_ledger_unlocked and _read_journal_unlocked
LedgerReads == Parses("log", log, MaxEvents) /\ ChainVerifies(log)
JournalReads == Parses("journal", journal, 2 * MaxEvents) /\ JournalVerifies(journal)

\* _read_combined_unlocked: each file reads, and they agree.
Audited == LedgerReads /\ JournalReads /\ Combined
Clean == Audited /\ Unresolved = {}

-----------------------------------------------------------------------------
(* The lock and the files *)

Writing == {"prepare", "event", "commit"}
Locked == Writing \union {"sync", "postcheck"}

\* Mutant: flock is not taken.
LockFree_Always == TRUE
\* flock(LOCK_EX): nobody else is inside.
LockFree == \A s \in Stores : pc[s] \notin Locked

Nobody == [tx |-> CHOOSE tx \in Txs : TRUE,
           envelope |-> [body |-> CHOOSE b \in Bodies : TRUE, sequence |-> 0, previous_hash |-> GENESIS_HASH]]

Init ==
    /\ present = {}
    /\ log = <<>> /\ journal = <<>> /\ torn = {}
    /\ synced = [f \in Files |-> 0]
    /\ pc = [s \in Stores |-> "down"]
    /\ job = [s \in Stores |-> Nobody]
    /\ ind = [s \in Stores |-> {}]
    /\ acked = {} /\ notApplied = {} /\ dispatched = {}
    /\ checkpoint = [events |-> <<>>, entries |-> <<>>]
    /\ budget \in Budgets
    /\ read = [f \in Files |-> 0] /\ lost = {}

Become(s, step) == pc' = [pc EXCEPT ![s] = step]
\* The call returns or raises, or the process dies: it works on nothing.
Leave(s, step) == Become(s, step) /\ job' = [job EXCEPT ![s] = Nobody]
Mark(s, set) == ind' = [ind EXCEPT ![s] = set]

\* __init__ with _prepare_store_files: both files or neither must be there.
Open(s) ==
    /\ pc[s] = "down"
    /\ \/ present = Files /\ Become(s, "idle") /\ UNCHANGED present
       \/ present = {} /\ present' = {"log"} /\ Become(s, "creating")
    /\ UNCHANGED <<files, job, ind, history, budget, reliance>>

\* The second _create_empty_file, and the fsync of the directory.
CreateJournal(s) ==
    /\ pc[s] = "creating"
    /\ present' = present \union {"journal"}
    /\ Become(s, "idle")
    /\ UNCHANGED <<files, job, ind, history, budget, reliance>>

\* How many whole lines each file has
Lines == [f \in Files |-> IF f = "log" THEN Len(log) ELSE Len(journal)]

FileOf(step) == IF step = "event" THEN "log" ELSE "journal"

\* Put(s, f): the whole line of the step of store s is in file f.
Put(s) ==
    LET j == job[s]
    IN CASE pc[s] = "prepare" -> log' = log /\ journal' = Append(journal, MakeEntry("PREPARE", j.tx, j.envelope))
         [] pc[s] = "event"   -> log' = Append(log, j.envelope) /\ journal' = journal
         [] pc[s] = "commit"  -> log' = log /\ journal' = Append(journal, MakeEntry("COMMIT", j.tx, j.envelope))

\* _append_record: the line is written and synced, which syncs all before it.
AppendRecord(s) ==
    /\ Put(s)
    /\ torn' = torn
    /\ synced' = [synced EXCEPT ![FileOf(pc[s])] = Lines'[FileOf(pc[s])]]

\* It stops or raises: nothing, part of the line or all of it is in the file.
Leaves(s, how) ==
    CASE how = "nothing" -> UNCHANGED files
      [] how = "part"    -> torn' = torn \union {FileOf(pc[s])} /\ UNCHANGED <<log, journal, synced>>
      [] how = "line"    -> Put(s) /\ UNCHANGED <<torn, synced>>

-----------------------------------------------------------------------------
(* Operations, up to their first write *)

\* The lock is taken and both files are read.
Enter(s) == pc[s] = "idle" /\ LockFree /\ Audited
\* The call goes on from what it has read, synced or not.
Relied == read' = Lines /\ UNCHANGED lost

\* sign_v2_event: the envelope of an event for the position after n events.
sign_v2_event(body, n) == [body |-> body, sequence |-> n + 1, previous_hash |-> HeadAt(log, n)]

\* _require_same_intent
SameIntent(tx, e) == PrepareOf(tx).envelope = e

append(s, tx, body, n) ==
    LET e == sign_v2_event(body, n)
    IN /\ Enter(s)
       /\ e.sequence <= MaxEvents
       /\ ind[s] = {} /\ Unresolved = {}
       /\ \/ /\ Prepared(tx) /\ SameIntent(tx, e)
             /\ acked' = acked \union {tx}
             /\ UNCHANGED <<pc, job, notApplied>>
          \/ /\ ~Prepared(tx)
             /\ MatchesBefore(log, e) /\ ChainVerifies(Append(log, e))
             /\ Become(s, "prepare")
             /\ job' = [job EXCEPT ![s] = [tx |-> tx, envelope |-> e]]
             /\ notApplied' = notApplied \ {tx}
             /\ UNCHANGED acked
       /\ Relied
       /\ UNCHANGED <<present, files, ind, checkpoint, dispatched, budget>>

\* Mutants: the event is appended without looking whether it is there, or a
\* transaction with its event is taken for finished.
ReconcileStep_Finished(tx) == IF MatchesBefore(log, PrepareOf(tx).envelope) THEN "event" ELSE "sync"
ReconcileStep_Blind(tx) == IF Committed(tx) THEN "sync" ELSE "event"
\* What reconcile_transaction still has to do.
ReconcileStep(tx) ==
    IF Committed(tx) THEN "sync"
    ELSE IF MatchesBefore(log, PrepareOf(tx).envelope) THEN "event"
    ELSE "commit"

reconcile_transaction(s, tx) ==
    /\ Enter(s)
    /\ Prepared(tx)
    /\ Unresolved \subseteq {tx} /\ ind[s] \subseteq {tx}
    /\ Mark(s, {tx})
    /\ Become(s, ReconcileStep(tx))
    /\ job' = [job EXCEPT ![s] = [tx |-> tx, envelope |-> PrepareOf(tx).envelope]]
    /\ Relied
    /\ UNCHANGED <<present, files, history, budget>>

\* read_verified
Readable(s) == Enter(s) /\ Clean /\ ind[s] = {}

\* sign_checkpoint
sign_checkpoint(s) ==
    /\ Readable(s)
    /\ log # <<>>
    /\ checkpoint' = [events |-> log, entries |-> journal]
    /\ Relied
    /\ UNCHANGED <<present, files, pc, job, ind, acked, notApplied, dispatched, budget>>

\* verify_pinned_checkpoint: the checkpoint is of the files as they are.
Pinned(c) == Clean /\ c.events = log /\ c.entries = journal

\* verify_signed_dispatch of the chain that read_verified returns: the dispatch
\* is the head of the chain.
verify_signed_dispatch(s) ==
    /\ Readable(s)
    /\ log # <<>> /\ log[Len(log)].body \in Dispatches
    /\ dispatched' = dispatched \union {HeadOf(log)}
    /\ Relied
    /\ UNCHANGED <<present, files, pc, job, ind, acked, notApplied, checkpoint, budget>>

-----------------------------------------------------------------------------
(* The steps under the lock *)

WritePrepare(s) ==
    /\ pc[s] = "prepare"
    /\ AppendRecord(s)
    /\ Become(s, "event")
    /\ UNCHANGED <<present, job, ind, history, budget, reliance>>

\* The event, and the check of the log after it.
WriteEvent(s) ==
    /\ pc[s] = "event"
    /\ AppendRecord(s)
    /\ IF MatchesAfter(log', job[s].envelope)
       THEN Become(s, "commit") /\ UNCHANGED <<job, ind>>
       ELSE Leave(s, "idle") /\ Mark(s, ind[s] \union {job[s].tx})
    /\ UNCHANGED <<present, history, budget, reliance>>

\* _make_commit wants the PREPARE at the end of the journal.
WriteCommit(s) ==
    /\ pc[s] = "commit"
    /\ IF /\ journal # <<>> /\ journal[Len(journal)].kind = "PREPARE"
          /\ journal[Len(journal)].tx = job[s].tx
       THEN AppendRecord(s) /\ Become(s, "postcheck") /\ UNCHANGED job
       ELSE UNCHANGED files /\ Leave(s, "idle")
    /\ UNCHANGED <<present, ind, history, budget, reliance>>

\* reconcile_transaction of a committed transaction: _sync_existing.
SyncExisting(s) ==
    /\ pc[s] = "sync"
    /\ synced' = Lines
    /\ Become(s, "postcheck")
    /\ UNCHANGED <<present, log, journal, torn, job, ind, history, budget, reliance>>

\* The last read; its transaction is the only one that may be indeterminate.
Postcheck(s) ==
    LET tx == job[s].tx
    IN /\ pc[s] = "postcheck"
       /\ Leave(s, "idle")
       /\ IF Clean /\ ind[s] \subseteq {tx}
          THEN Mark(s, {}) /\ acked' = acked \union {tx} /\ Relied
          ELSE Mark(s, ind[s] \union {tx}) /\ UNCHANGED <<acked, reliance>>
       /\ UNCHANGED <<present, files, notApplied, checkpoint, dispatched, budget>>

-----------------------------------------------------------------------------
(* Faults *)

Spend == budget.faults > 0 /\ budget' = [budget EXCEPT !.faults = @ - 1]

\* Mutant: what a failed PREPARE has left is not read again.
ProvenNotApplied_Unread(s, how) == pc[s] = "prepare"
\* The locked reread after a failed PREPARE shows that nothing was written.
ProvenNotApplied(s, how) == pc[s] = "prepare" /\ how = "nothing"

\* A write, a sync or a read raises.
IOFails(s) ==
    LET tx == job[s].tx
    IN /\ Spend
       /\ pc[s] \in Locked
       /\ Leave(s, "idle")
       /\ \E how \in {"nothing"} \union IF pc[s] \in Writing THEN {"part", "line"} ELSE {} :
            /\ Leaves(s, how)
            /\ \/ ProvenNotApplied(s, how) /\ notApplied' = notApplied \union {tx} /\ UNCHANGED ind
               \/ /\ Mark(s, ind[s] \union {tx})      \* also when the reread raises
                  /\ UNCHANGED notApplied
               \/ /\ pc[s] = "commit" /\ how = "nothing"     \* the journal cannot be read
                  /\ UNCHANGED <<ind, notApplied>>
       /\ UNCHANGED <<present, acked, checkpoint, dispatched, reliance>>

\* The process dies and starts again with no memory.
Crash(s) ==
    /\ Spend
    /\ pc[s] # "down"
    /\ Leave(s, "down")
    /\ Mark(s, {})
    /\ \E how \in {"nothing"} \union IF pc[s] \in Writing THEN {"part", "line"} ELSE {} : Leaves(s, how)
    /\ UNCHANGED <<present, history, reliance>>

\* Every process dies, and the disk has what was synced and maybe more.
PowerLoss ==
    /\ budget.losses > 0
    /\ budget' = [budget EXCEPT !.losses = @ - 1]
    /\ pc' = [s \in Stores |-> "down"]
    /\ job' = [s \in Stores |-> Nobody]
    /\ ind' = [s \in Stores |-> {}]
    /\ present' \in {present, IF present = Files THEN Files ELSE {}}
    /\ \E n \in synced["log"]..Len(log) : log' = SubSeq(log, 1, n)
    /\ \E m \in synced["journal"]..Len(journal) : journal' = SubSeq(journal, 1, m)
    /\ synced' = Lines'
    \* a line that was being written or was not synced may be cut
    /\ LET inFlight == {FileOf(pc[s]) : s \in {u \in Stores : pc[u] \in Writing}}
           shortened == {f \in Files : Lines'[f] < Lines[f]}
       IN torn' \in SUBSET (torn \union inFlight \union shortened)
    /\ lost' = lost \union {f \in Files : Lines'[f] < read[f]}
    /\ UNCHANGED <<history, read>>

Progress(s) ==
    \/ CreateJournal(s) \/ WritePrepare(s) \/ WriteEvent(s) \/ WriteCommit(s)
    \/ SyncExisting(s) \/ Postcheck(s)

Next ==
    \/ PowerLoss
    \/ \E s \in Stores :
         \/ Open(s) \/ Progress(s) \/ IOFails(s) \/ Crash(s)
         \/ sign_checkpoint(s) \/ verify_signed_dispatch(s)
         \/ \E tx \in Txs : reconcile_transaction(s, tx)
         \/ \E tx \in Txs, b \in Bodies, n \in 0..Len(log) : append(s, tx, b, n)

Spec == Init /\ [][Next]_vars

\* A live store goes on and is started again, and the caller follows the
\* advice of IndeterminateCommit: "call reconcile_transaction with the same
\* tx_id".
Fairness ==
    /\ \A s \in Stores : WF_vars(Progress(s)) /\ WF_vars(Open(s))
    /\ \A tx \in Txs : SF_vars(\E s \in Stores : tx \in Unresolved /\ reconcile_transaction(s, tx))

FairSpec == Spec /\ Fairness

-----------------------------------------------------------------------------
(* Properties *)

TypeOK ==
    /\ present \subseteq Files /\ torn \subseteq Files
    /\ log \in Seq(Envelope) /\ journal \in Seq(Entry)
    /\ synced \in [Files -> Nat]
    /\ pc \in [Stores -> Locked \union {"down", "idle", "creating"}]
    /\ job \in [Stores -> [tx : Txs, envelope : Envelope]]
    /\ ind \in [Stores -> SUBSET Txs]
    /\ acked \subseteq Txs /\ notApplied \subseteq Txs
    /\ checkpoint \in [events : Seq(Envelope), entries : Seq(Entry)]
    /\ dispatched \subseteq Hash
    /\ budget \in [faults : Nat, losses : Nat]
    /\ read \in [Files -> Nat] /\ lost \subseteq Files

\* Whatever was interrupted and wherever, by deaths, failed calls and power
\* losses in any order, the two files agree well enough for
\* reconcile_transaction: unless a line was cut, or a power loss took a line that
\* a later call had acted on without syncing it, the fail-closed audit never
\* locks the store for good.
StoreReconcilable == lost = {} /\ present = Files /\ torn = {} => Audited

\* "PREPARE failed and a locked reread proved that no state changed": after
\* RetryableAppendNotApplied nothing of the transaction is on file.
NotAppliedIsTrue == \A tx \in notApplied : ~Prepared(tx)

\* What an authority read has returned stays: a signed checkpoint is always a
\* prefix of both files, pinned until an event is appended, and an accepted
\* dispatch is a committed event.
ReadsStay ==
    /\ Clean /\ Len(checkpoint.events) = Len(log) => Pinned(checkpoint)
    /\ Len(checkpoint.events) <= Len(log)
    /\ checkpoint.events = SubSeq(log, 1, Len(checkpoint.events))
    /\ checkpoint.entries = SubSeq(journal, 1, Len(checkpoint.entries))
    /\ \A h \in dispatched : \E k \in 1..Len(journal) :
         journal[k].kind = "COMMIT" /\ event_hash(journal[k].envelope) = h

\* What the store answers stays true: its refusals and what was read from it,
\* as long as no power loss takes an unsynced line that was acted on.
AnswersStayTrue == lost = {} => NotAppliedIsTrue /\ ReadsStay

\* Each transaction is applied at most once, and no transaction whose result
\* was returned is ever lost; the promise is void once a power loss has taken an
\* unsynced line that was acted on.
TxOf(k) == IF k <= Len(Prepares(journal)) THEN Prepares(journal)[k].tx ELSE "unknown"
ExactlyOnce == INSTANCE ExactlyOnceLog
                 WITH entries <- [k \in 1..Len(log) |-> TxOf(k)], void <- (lost # {})
ImplementsExactlyOnce == ExactlyOnce!Spec

\* Known behaviour, not a property of the code: a transaction whose
\* DurableV2Append was returned is committed, with its event in the log.  append
\* answers for a COMMIT line that it finds without syncing it, and power can
\* still take it.
AcknowledgedStays ==
    \A tx \in acked : Committed(tx) /\ PrepareOf(tx).envelope \in {log[k] : k \in 1..Len(log)}

\* "requires reconciliation": a PREPARE that was left behind is committed in
\* the end, unless a cut line or a line lost after it was acted on blocks the
\* store.
PreparedResolves ==
    \A tx \in Txs : Prepared(tx) ~> Committed(tx) \/ torn # {} \/ lost # {} \/ ~Prepared(tx)
=============================================================================
