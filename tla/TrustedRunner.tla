---------------------------- MODULE TrustedRunner ----------------------------
(***************************************************************************)
(* run_trusted_validations of trusted_runner.py: one run, from the pinning *)
(* of a commit to receipt.json and the release of the broker lease, beside *)
(* an editor of the repository and a broker that may refuse, lose its      *)
(* answer or let the lease expire (SnapshotBroker models it in full).  The *)
(* receipt is judged by _valid_trusted_verification of trust_projection.py.*)
(***************************************************************************)
EXTENDS CommandPolicy, FiniteSets

CONSTANTS
    Commits,    \* commits of the repository
    Entries,    \* the tree entries of each: path, portable spelling, mode, blob
    MaxEntries, \* MAX_SNAPSHOT_ENTRY_COUNT
    None,
    Cases       \* what a run is asked for, with the number of faults it may meet

ASSUME ConstantsAssumption ==
    /\ None \notin Commits \union {"dirty"}
    /\ MaxEntries \in Nat
    /\ \A c \in Cases : c.faults \in Nat /\ c.head \in Commits
                        \* "command_argv must be a non-empty string array"
                        /\ c.manifest # <<>> /\ c.manifest \in Seq(Seq(STRING) \ {<<>>})
    \* git names a path once.
    /\ \A c \in Commits : \A e, f \in Entries[c] : e.path = f.path => e = f

VARIABLES
    manifest,   \* the verifier's commands
    declared,   \* what else the verifier's manifest says (VerifiedRun)
    allowed,    \* the task's permissions and gates
    head,       \* the commit HEAD names
    work,       \* the working tree: the commit it equals, or "dirty"
    tree,       \* caller-sealed-source: absent, or its entries
    lease,      \* the broker's lease: its state, its files, the acquire attestation,
                \* and the preimage it was cleaned for
    guard,      \* _BrokerLeaseGuard; a preimage is <<>> until there is one
    pc,
    source,     \* the pinned commit
    results,    \* the command receipts so far
    failure,    \* the first failure
    checks,     \* which of the two postchecks passed
    document,   \* receipt_document
    receipt,    \* receipt.json
    outcome,    \* how the call ended
    sent,       \* the preimages of the release requests sent
    faults      \* faults left

repository == <<head, work>>
request == <<manifest, declared, allowed>>
run == <<source, results, failure, checks, document, receipt, outcome>>
vars == <<request, repository, tree, lease, guard, pc, run, sent, faults>>

\* How a command may end.  A command stopped at its time or output limit may
\* have exited by itself just before.
Endings == {"exit", "timeout", "overflow", "start error"}
Executions == [ended : Endings, exit : {0, 1}, output : {"claimed", "other"},
               executable : {"same", "changed"}]
Success == [ended |-> "exit", exit |-> 0, output |-> "claimed", executable |-> "same"]

Places == {"source", "isolation", "materialize", "acquire", "remove source", "precheck",
           "policy", "execute", "source postcheck", "snapshot postcheck", "document",
           "release", "write", "return", "cleanup", "ended", "dead"}

TypeOK ==
    /\ head \in Commits /\ work \in Commits \union {"dirty"}
    /\ lease.state \in {"none", "held", "gone"}
    /\ pc \in Places /\ source \in Commits \union {None}
    /\ Len(results) <= Len(manifest) /\ failure \in BOOLEAN
    /\ checks \in [source : BOOLEAN, snapshot : BOOLEAN]
    /\ outcome \in {"running", "returned", "raised"} /\ faults \in Nat

Init ==
    /\ \E c \in Cases :
         /\ manifest = c.manifest /\ declared = c.declared /\ faults = c.faults /\ head = c.head
         /\ allowed = c.permissions
    /\ work = head /\ tree = None
    /\ lease = [state |-> "none", files |-> {}, attested |-> None, bound |-> None]
    /\ guard = [attached |-> FALSE, released |-> FALSE, preimage |-> <<>>]
    /\ pc = "source" /\ source = None /\ results = <<>> /\ failure = FALSE
    /\ checks = [source |-> FALSE, snapshot |-> FALSE]
    /\ document = None /\ receipt = None /\ outcome = "running" /\ sent = {}

-----------------------------------------------------------------------------
(* Helpers *)

Fault == faults > 0 /\ faults' = faults - 1
At(place) == pc = place
Go(place) == pc' = place /\ UNCHANGED outcome
\* An exception leaves the implementation for the wrapper's finally.
Raise == pc' = "cleanup" /\ outcome' = "raised"
\* A step goes on to a place, or raises by a fault.
GoOrRaise(place) == (Go(place) /\ UNCHANGED faults) \/ (Raise /\ Fault)

-----------------------------------------------------------------------------
(* Up to the lease *)

\* _source_state: the commit is read once, and the tree compared with it.
SourceState ==
    /\ At("source")
    /\ source' = head
    /\ \/ work = head /\ GoOrRaise("isolation")
       \/ work # head /\ Raise /\ UNCHANGED faults
    /\ UNCHANGED <<request, repository, tree, lease, guard, results, failure, checks, document, receipt, sent>>

\* _require_isolation_backend, which has no sandbox with a GPU, and
\* _require_external_snapshot_broker_contract; then the run directory
RequireIsolation ==
    /\ At("isolation")
    /\ \/ ~ allowed.gpu /\ GoOrRaise("materialize")
       \/ allowed.gpu /\ Raise /\ UNCHANGED faults
    /\ UNCHANGED <<request, repository, tree, lease, guard, source, results, failure, checks, document, receipt, sent>>

\* _committed_tree_manifest and _stream_committed_blobs: the entries git names
\* for a commit, with their blobs.  A commit with a link, a submodule, too
\* many entries or two paths some file system cannot tell apart is refused.
Admissible(c) ==
    /\ Cardinality(Entries[c]) <= MaxEntries
    /\ \A e \in Entries[c] : e.mode \in {"100644", "100755"}
    /\ \A e, f \in Entries[c] : e.portable = f.portable => e = f

\* validate_manifest keeps the hashes it has taken of the outputs, in lower case
\* however the manifest spells them.
StoredHashes(spelling) == "lower"

\* validation_contract_sha256: of the commands and of the hashes as they are
\* spelled in what it is given
Contract(commit, files, m, network, hashes) == <<commit, files, m, network, hashes>>
\* ... by the runner: the validated manifest
RunContract(files) == Contract(source, files, manifest, allowed.network, StoredHashes(declared.hashes))

\* _materialize_committed_snapshot: the files of the pinned commit, from git's
\* objects, whatever HEAD and the working tree are now.  A failure leaves
\* what it has written.
MaterializeCommittedSnapshot ==
    /\ At("materialize")
    /\ \/ Admissible(source) /\ tree' = Entries[source] /\ Go("acquire") /\ UNCHANGED faults
       \/ Admissible(source) /\ tree' \in SUBSET Entries[source] /\ Raise /\ Fault
       \/ ~ Admissible(source) /\ tree' = tree /\ Raise /\ UNCHANGED faults
    /\ UNCHANGED <<request, repository, lease, guard, source, results, failure, checks, document, receipt, sent>>

\* The lease, with the attestation of what it is for
Held(files) ==
    [lease EXCEPT !.state = "held", !.files = files,
                  !.attested = [commit |-> source, files |-> files,
                                contract |-> RunContract(files)]]

\* SnapshotBrokerClient.acquire, and attach.  The broker copies only the files
\* the request declares; when its answer is lost it holds a lease that nobody
\* will release.
AcquireLease ==
    /\ At("acquire") /\ pc' = "remove source"
    /\ \/ /\ tree = Entries[source] /\ lease' = Held(tree)
          /\ guard' = [guard EXCEPT !.attached = TRUE] /\ UNCHANGED <<outcome, faults>>
       \/ /\ tree = Entries[source] /\ Fault /\ lease' \in {lease, Held(tree)}
          /\ outcome' = "raised" /\ UNCHANGED guard
       \/ tree # Entries[source] /\ outcome' = "raised" /\ UNCHANGED <<lease, guard, faults>>
    /\ UNCHANGED <<request, repository, tree, source, results, failure, checks, document, receipt, sent>>

\* the finally of acquire: _remove_committed_snapshot, which refuses a tree
\* that has lost its modes
RemoveCallerSource ==
    /\ At("remove source")
    /\ \/ tree' = None /\ UNCHANGED faults
          /\ IF outcome = "raised" THEN Raise ELSE Go("precheck")
       \/ tree' = tree /\ Raise /\ Fault
    /\ UNCHANGED <<request, repository, lease, guard, source, results, failure, checks, document, receipt, sent>>

-----------------------------------------------------------------------------
(* Validation *)

\* _committed_snapshot_postcheck of the leased files
SnapshotIntact == lease.state = "held" /\ lease.files = Entries[source]

Precheck ==
    /\ At("precheck")
    /\ \/ SnapshotIntact /\ Go("policy")
       \/ ~ SnapshotIntact /\ Raise
    /\ UNCHANGED <<request, repository, tree, lease, guard, source, results, failure, checks, document, receipt, sent, faults>>

\* _validate_command_argv of every command, and the environments
ValidateCommands ==
    /\ At("policy")
    /\ \/ (\A k \in DOMAIN manifest : Policy(manifest[k]) # Refused) /\ GoOrRaise("execute")
       \/ (\E k \in DOMAIN manifest : Policy(manifest[k]) = Refused) /\ Raise /\ UNCHANGED faults
    /\ UNCHANGED <<request, repository, tree, lease, guard, source, results, failure, checks, document, receipt, sent>>

\* Mutant: the output is not compared with the manifest's
Classify_NoOutput(e) == \/ e.ended # "exit" \/ e.executable = "changed" \/ e.exit # 0

\* The classification of an execution, in the order of the code
Classify(e) ==
    \/ e.ended # "exit"
    \/ e.executable = "changed"
    \/ e.exit # 0
    \/ e.output # "claimed"

\* _sandbox_environment: all of it that varies
SandboxEnvironment(files) == [pythonpath |-> \E e \in files : e.below = "src"]

\* One command: _run_bounded_command and its receipt.  The loop ends at the
\* first failure.  When the lease has gone the command may see anything.
RunValidation ==
    /\ At("execute")
    /\ LET k == Len(results) + 1 IN
       \E e \in Executions :
         /\ e # Success => Fault
         /\ e = Success => UNCHANGED faults
         /\ results' = Append(results, [argv |-> manifest[k], policy |-> Policy(manifest[k]),
                                        launch |-> IsolationArgv(Policy(manifest[k]).executed,
                                                       allowed.network,
                                                       SandboxEnvironment(Entries[source])),
                                        execution |-> e, saw |-> lease])
         /\ failure' = Classify(e)
         /\ Go(IF Classify(e) \/ k = Len(manifest) THEN "source postcheck" ELSE "execute")
    /\ UNCHANGED <<request, repository, tree, lease, guard, source, checks, document, receipt, sent>>

\* _source_state against the pinned commit; an error of git is a failure too.
SourcePostcheck ==
    /\ At("source postcheck")
    /\ \/ checks' = [checks EXCEPT !.source = (work = source)] /\ UNCHANGED faults
       \/ checks' = [checks EXCEPT !.source = FALSE] /\ Fault
    /\ failure' = (failure \/ ~ checks'.source)
    /\ Go("snapshot postcheck")
    /\ UNCHANGED <<request, repository, tree, lease, guard, source, results, document, receipt, sent>>

SnapshotPostcheck ==
    /\ At("snapshot postcheck")
    /\ checks' = [checks EXCEPT !.snapshot = SnapshotIntact]
    /\ failure' = (failure \/ ~ SnapshotIntact)
    /\ Go("document")
    /\ UNCHANGED <<request, repository, tree, lease, guard, source, results, document, receipt, sent, faults>>

\* receipt_document, before its hash and the broker's cleanup statement
MakeDocument ==
    /\ At("document")
    /\ document' = [passed |-> ~ failure /\ Len(results) = Len(manifest), failure |-> failure,
                    source |-> source, files |-> Entries[source], checks |-> checks,
                    network |-> allowed.network, environment |-> SandboxEnvironment(Entries[source]),
                    contract |-> RunContract(Entries[source]),
                    acquired |-> lease.attested, results |-> results,
                    preimage |-> <<>>, cleanup |-> <<>>]
    /\ Go("release")
    /\ UNCHANGED <<request, repository, tree, lease, guard, source, results, failure, checks, receipt, sent, faults>>

\* trusted_receipt_preimage_sha256: the receipt without its own hash and the
\* cleanup statement
Preimage(d) == [d EXCEPT !.preimage = <<>>, !.cleanup = <<>>]

-----------------------------------------------------------------------------
(* The lease's end *)

\* The broker cleans a lease it holds, and repeats its answer to the request
\* it has cleaned it for.
CanClean(preimage) == lease.state = "held" \/ (lease.state = "gone" /\ lease.bound = preimage)
Cleaned(preimage) == [lease EXCEPT !.state = "gone", !.bound = preimage]

\* BrokerLease.release, with what follows an answer and what follows an error:
\* the removal fails, or it succeeds and the answer is lost, or the broker
\* knows no such lease any more.
Release(preimage, Answered, Failed) ==
    /\ sent' = sent \union {preimage}
    /\ \/ CanClean(preimage) /\ lease' = Cleaned(preimage) /\ Answered /\ UNCHANGED faults
       \/ CanClean(preimage) /\ lease' \in {lease, Cleaned(preimage)} /\ Failed /\ Fault
       \/ ~ CanClean(preimage) /\ UNCHANGED <<lease, faults>> /\ Failed

\* _BrokerLeaseGuard.release.  A SnapshotBrokerError makes the receipt a
\* failed one; any other exception leaves the run without one.
ReleaseLease ==
    /\ At("release")
    /\ LET preimage == Preimage(document)
           named == [document EXCEPT !.preimage = <<preimage>>]
           tried == [guard EXCEPT !.preimage = <<preimage>>]
       IN  Release(preimage,
             /\ document' = [named EXCEPT !.cleanup = <<preimage>>]
             /\ guard' = [tried EXCEPT !.released = TRUE]
             /\ Go("write") /\ UNCHANGED failure,
             /\ guard' = tried
             /\ \/ /\ document' = [named EXCEPT !.passed = FALSE, !.failure = TRUE]
                   /\ failure' = TRUE /\ Go("write")
                \/ document' = named /\ Raise /\ UNCHANGED failure)
    /\ UNCHANGED <<request, repository, tree, source, results, checks, receipt>>

\* receipt.json, atomic
WriteReceipt ==
    /\ At("write")
    /\ \/ receipt' = document /\ Go("return") /\ UNCHANGED faults
       \/ receipt' \in {receipt, document} /\ Raise /\ Fault
    /\ UNCHANGED <<request, repository, tree, lease, guard, source, results, failure, checks, document, sent>>

Return ==
    /\ At("return") /\ pc' = "cleanup"
    /\ outcome' = IF failure THEN "raised" ELSE "returned"
    /\ UNCHANGED <<request, repository, tree, lease, guard, source, results, failure, checks, document, receipt, sent, faults>>

\* the hash of the run's names, the one preimage that is of no receipt
Abort == [passed |-> FALSE]

\* Mutant: every cleanup is bound to the abort hash
AbortPreimage_Always == Abort

\* the preimage cleanup_after_abort sends: its own only when none was sent
AbortPreimage == IF guard.preimage = <<>> THEN Abort ELSE Head(guard.preimage)

\* cleanup_after_abort, in the finally of run_trusted_validations
CleanupAfterAbort ==
    /\ At("cleanup") /\ pc' = "ended"
    /\ \/ /\ guard.attached /\ ~ guard.released
          /\ Release(AbortPreimage,
               guard' = [guard EXCEPT !.preimage = <<AbortPreimage>>, !.released = TRUE],
               guard' = [guard EXCEPT !.preimage = <<AbortPreimage>>])
       \/ (guard.attached => guard.released) /\ UNCHANGED <<lease, guard, sent, faults>>
    /\ UNCHANGED <<request, repository, tree, run>>

-----------------------------------------------------------------------------
(* The rest of the world *)

\* Somebody edits the working tree, checks out or commits.
EditRepository ==
    /\ Fault
    /\ \/ work' \in (Commits \union {"dirty"}) \ {work} /\ UNCHANGED head
       \/ \E c \in Commits \ {head} : head' = c /\ work' = c
    /\ UNCHANGED <<request, tree, lease, guard, pc, run, sent>>

\* Another process of the account changes the caller's sealed copy.
ChangeCallerSource ==
    /\ tree # None /\ Fault /\ tree' = {}
    /\ UNCHANGED <<request, repository, lease, guard, pc, run, sent>>

\* The lease outlives its hour and another connection evicts it.
ExpireLease ==
    /\ lease.state = "held" /\ Fault
    /\ lease' = [lease EXCEPT !.state = "gone"]
    /\ UNCHANGED <<request, repository, tree, guard, pc, run, sent>>

\* The process dies.
Die ==
    /\ pc \notin {"ended", "dead"} /\ Fault /\ pc' = "dead"
    /\ UNCHANGED <<request, repository, tree, lease, guard, run, sent>>

Next ==
    \/ SourceState \/ RequireIsolation \/ MaterializeCommittedSnapshot
    \/ AcquireLease \/ RemoveCallerSource \/ Precheck \/ ValidateCommands
    \/ RunValidation \/ SourcePostcheck \/ SnapshotPostcheck \/ MakeDocument
    \/ ReleaseLease \/ WriteReceipt \/ Return \/ CleanupAfterAbort
    \/ EditRepository \/ ChangeCallerSource \/ ExpireLease \/ Die

Spec == Init /\ [][Next]_vars

-----------------------------------------------------------------------------
(* The reader *)

\* _signed_broker_protection_valid: both statements of the broker are about
\* this receipt, and the cleanup names its hash.
ProtectionValid(r) ==
    /\ r.acquired = [commit |-> r.source, files |-> r.files, contract |-> r.contract]
    /\ r.cleanup = r.preimage /\ r.preimage = <<Preimage(r)>>

\* The outcome the receipt claims, and the permissions it was run under
ReceiptPassed(r, permissions) ==
    /\ r.passed /\ ~ r.failure
    /\ r.checks.source /\ r.checks.snapshot
    /\ ~ permissions.gpu /\ r.network = permissions.network

\* The file list the receipt names, and the environment that follows from it
SnapshotBound(r) ==
    /\ Cardinality(r.files) <= MaxEntries
    /\ \A e \in r.files : e.mode \in {"100644", "100755"}
    /\ \A e, f \in r.files : e.path = f.path => e = f
    /\ r.environment = [pythonpath |-> \E e \in r.files : e.below = "src"]

\* The contract, rebuilt from the retained manifest as it is spelled
ContractBound(r, m, hashes) == r.contract = Contract(r.source, r.files, m, r.network, hashes)

CommandsProjected(r, m) ==
    /\ Len(r.results) = Len(m)
    /\ \A k \in DOMAIN m :
         /\ r.results[k].argv = m[k]
         /\ CommandProjected(m[k], r.results[k].policy, r.results[k].launch,
                             r.network, r.environment)
         /\ r.results[k].execution = Success

\* _valid_trusted_verification of a receipt and the manifest kept with it
ReceiptValid(r, m, hashes, permissions) ==
    /\ ReceiptPassed(r, permissions) /\ ProtectionValid(r) /\ SnapshotBound(r)
    /\ ContractBound(r, m, hashes) /\ CommandsProjected(r, m)

-----------------------------------------------------------------------------
(* Properties *)

\* A receipt that says passed, in receipt.json or returned, is about a run in
\* which every command of the manifest ended by itself, with exit code 0 and
\* the claimed output, on the pinned commit's files, while the broker held
\* them; and the broker has removed them since, for this very receipt.
PassedReceiptSound ==
    (receipt # None /\ receipt.passed) =>
        /\ DOMAIN receipt.results = DOMAIN manifest
        /\ \A k \in DOMAIN manifest :
             /\ receipt.results[k].argv = manifest[k]
             /\ receipt.results[k].execution = Success
             /\ receipt.results[k].saw.state = "held"
             /\ receipt.results[k].saw.files = Entries[receipt.source]
        /\ lease.state = "gone" /\ lease.bound = Preimage(receipt)

\* The spelling that survives PowerShellPolicy unchanged
CanonicalSpelling(argv) ==
    /\ argv[1] \notin {"python alias", "node alias", "pwsh alias"}
    /\ argv[1] = "pwsh" =>
         IsPrefix(<<"pwsh", "-NoProfile", "-NonInteractive", "-File", "/ws/a.py">>, argv)

\* No code file is named by two targets.
NoFileTwice(argv) ==
    LET same == {{"a.py", "/ws/a.py", "a.py::t", "a.py::u", "a.T", "a.U"}, {"b.py", "b.T"}}
        twice == \E i, j \in 3..Len(argv) :
                     i # j /\ \E s \in same : argv[i] \in s /\ argv[j] \in s
        anywhere == \E i, j \in 2..Len(argv) :
                     i # j /\ \E s \in same : argv[i] \in s /\ argv[j] \in s
    IN  /\ argv[1] = "python" /\ argv[2] = "-m" => ~ twice
        /\ argv[1] = "node" /\ "--test" \in ToSet(argv) => ~ anywhere

\* Every release request for a lease is bound to one preimage, the only kind
\* of retry the broker answers ("retrying only the exact release after
\* response loss"), and a call that ends has asked for the release of its
\* lease ("always attempt broker lease cleanup"); the broker still holds it
\* only if it failed to clean it.
LeaseSettled ==
    /\ Cardinality(sent) <= 1
    /\ At("ended") /\ guard.attached =>
         sent # {} /\ (guard.released => lease.state = "gone" /\ lease.bound \in sent)
=============================================================================
