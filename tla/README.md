# TLA+ specification of Cogni-OS

Cogni-OS coordinates several AI agents that work on the tasks of one project. Agents claim
tasks under leases, submit work, and other agents verify it; every change is an event in a
signed, hash-chained ledger, and everything else on disk is derived from it. This directory
models the parts that decide whether that works: locks and ledgers, the task lifecycle, the
verifier with its runner and its snapshot broker, capabilities, the projection of trust, the
monitoring path and the pair sidecar. The modules are checked by TLC on small instances, and
all of the safety properties of the passing runs and both refinements are proved with TLAPS for
instances of any size.

Paths below are relative to `src/src/cogni_os/` unless they begin with `src/`.

## 1. Inventory

| Component | State | Operations | Correct when |
|---|---|---|---|
| File lock (`lock.py`) | a lock file and its mtime | acquire (poll, take over a stale file, time out), release | one holder at a time; nobody waits for ever |
| Ledger v1 (`ledger.py`) | a file of JSON lines, a key | append, read, verify, projected_tasks | the chain verifies; an acknowledged event stays; a damaged file is never extended |
| Task model (`model.py`) | a task record | transition, lease_expiry, lease_expired | only the moves of the state table |
| Task lifecycle (`workspace.py`) | one file per task, config, ledger | add_task, claim, start, heartbeat, block, submit, recover_lease, verify, reconcile_verification, restate_verification; add_agent, initialize | see section 4 |
| Verification audit (`verification_lifecycle.py`) | none | find_verification_run, audit_verification_runs | a run has one start and at most one terminal event |
| Independence (`independence.py`) | the registry of agents | canonical_model_family, evaluate_independence, build_identity, resolve_identity_registry | a verdict is by an agent that shares nothing with the worker |
| Verifier journal and service (`verifier_journal.py`, `verifier_service.py`) | record, claim marker and receipt files per dispatch | claim_dispatch, transition, recover, recover_all, persist_receipt | one execution per dispatch; snapshots are released; failures are remembered |
| Ledger v2 (`ledger_authority_store_v2.py`, `ledger_authority_v2.py`) | an event file and a journal of PREPARE and COMMIT | append, reconcile_transaction, checkpoints, dispatch verification | each append happens exactly once; what was answered stays true |
| Actor capability (`actor_capability.py`) | guard, key record, used-token markers, rotation lock | bootstrap, mint, verify_and_consume, validate_receipt, rotate | a token is used once; receipts outlive rotations |
| Snapshot broker (`snapshot_broker.py`, `snapshot_broker_protocol.py`) | nonces, lease records, namespaces, tombstones | acquire, release, evict, recover | a held snapshot is what was declared; a proof means it is gone |
| Trusted runner (`trusted_runner.py`) | one run: source, lease, receipts | run_trusted_validations | a passed receipt is about the pinned commit |
| Evidence and archive (`evidence.py`, `archive.py`) | bundle directories | validate_manifest, archive_evidence_bundle | what is signed is what was validated |
| Trust projection, release gate (`trust_projection.py`, `release_gate.py`, `release_evidence.py`) | none | pure functions of the ledger | readers give exactly the trust that was signed |
| Adapter (`adapter.py`) | a worker process | claim, run, heartbeat, submit loop | the lease is kept alive or given up |
| Monitoring (`src/scripts/publish_monitor_snapshot.py`, `src/functions`) | sequence file, stored snapshot, history | publish, ingest, read | the page never goes back, and catches up |
| Pair orchestration (`src/orchestrator`) | STATE.json, outboxes, imports, seals | passes of the broker, new-task, stop | no stage runs twice; a task ends; what Codex builds on is what was accepted |
| Roadmap, doctor, dashboard, CLI, retained sources, validation scripts | none of their own | reports, hashing, batch checks | pure functions or operating-system work |

**Interactions.** Every workspace operation takes the lock file of its task
(`locks/tasks/<task>.lock`, or `locks/task-create.lock`), reads the task file and where it needs it
the whole ledger, decides, calls `Ledger.append` (which takes the ledger's own lock), writes
the task file with an atomic replace and unlinks the lock file. `claim` also reads the files
of other tasks, without their locks. `verify` validates the verifier's evidence, has
`run_trusted_validations` run its commands in a snapshot lent by the broker daemon, archives the
files and signs the verdict, all under the task lock. Readers (doctor, dashboard, publisher)
project trust from the ledger and the task files without any lock; the publisher sends what it
read to a web function. The dedicated verifier keeps its own directory, its threads share an
`RLock`, and its dispatches come from ledger v2. The pair sidecar stands apart: it drives two
agents through files of its own.

**What is hard.** Nothing but files connects the processes, so every call is an interleaving
point. Locks are taken over by age, so a slow holder and a dead one look alike. The ledger and
the task file are two writes; an append to ledger v2 is three. A worker may return with a lease
it lost. A verification may end twice: by itself and by reconciliation. Dispatches, releases and
snapshots are delivered more than once, or their answers are lost. Evidence, source and outboxes
change between the look and the use. The full list, line by line, is `hazards` in
`PROJECT.json`.

## 2. Modules

| Module | Models |
|---|---|
| `AppendOnlyLedger` | abstract: a hash-chained log that grows by whole events, and calls that return once their event is in it |
| `LedgerAppend` | `Ledger.append` and `FileLock`, one file-system call per step |
| `Independence`, `IdentityRegistry` | `independence.py` and `add_agent`, as operators |
| `Workspace` | the task lifecycle, `EXTENDS Independence`; one ledger append is one step |
| `TrustProjection` | `EXTENDS Workspace`: what readers derive from its ledger and task files |
| `VerifierJournal` | `VerifierJournal` and `DedicatedVerifierService` |
| `ExactlyOnceLog` | abstract: transactions applied at most once, acknowledged ones kept |
| `LedgerStoreV2` | the v2 store, one write or sync per step |
| `ActorCapability` | the capability authority, one file operation per step |
| `SnapshotBroker` | the broker daemon with its threads, and its clients |
| `CommandPolicy` | which commands the runner executes and the projection accepts, as operators |
| `TrustedRunner` | `EXTENDS CommandPolicy`: one call of `run_trusted_validations` |
| `VerifiedRun` | `EXTENDS TrustedRunner`: `verify` around it, from the evidence to the signed verdict |
| `Monitoring` | submissions, publisher, network and ingest together |
| `PairSidecar` | one pair task, its brokers, its agent and its user |
| `LedgerAppendProofs`, `WorkspaceProofs`, `VerifierJournalProofs`, `LedgerStoreV2Proofs`, `ActorCapabilityProofs`, `SnapshotBrokerProofs`, `TrustedRunnerProofs` | the theorems about the module of that name; `WorkspaceProofs` covers `TrustProjection`, `Independence` and `IdentityRegistry` too, and `TrustedRunnerProofs` `VerifiedRun` and `CommandPolicy` |
| `SidecarProofs` | the theorems about `PairSidecar` and `Monitoring`; the names of the two are disjoint, so that it extends both |
| `MC...` | instances for TLC |

`Workspace` treats an append as atomic because `LedgerAppend` implements `AppendOnlyLedger`
(property `ImplementsLedger`, theorem `AppendImplementsLedger`); its other outcome, the
`LockTimeout`, is the action `AppendFails`. In the same way `TrustedRunner` has the broker as a
lease with a few states, which `SnapshotBroker` models in full, and `TrustProjection` takes the
receipt inside a verdict as valid, which is `ReceiptValid` of `TrustedRunner`.

A hash is named by what it is the hash of, and a signature by its key: the models assume that
SHA-256 does not collide and that signatures are not forged.

### LedgerAppend

`lockMtime` is the lock file (0: no file), `file` the lines, `pc` the place of each process
inside `append`. `Call`, `CreateLock`, `LockExists`, `StatLock`, `UnlinkStale` and
`CheckDeadline` are the loop of `FileLock.acquire` with `_remove_if_stale`; `ReadChain`,
`WriteLine` and `Release` are the body of `append`. `Crash` may leave part of a line behind:
nothing, part of the text, the text without its newline, or all of it. Each process appends
once. Two histories say which accidents have happened: `robbed`, a take-over has unlinked the
lock file while a live process was inside; `torn`, a death has left a line without its end.

### Workspace and TrustProjection

A process is idle or inside one operation. `Enter` creates the lock file, reads, decides and
keeps the event and the record in `job`; then `AppendStep`, `WriteProjection` and `Release`
follow, with `Validated` or `ValidationFails` in between for `verify`. Between any two of them
other processes run, the clock ticks, the process may die (`Crash`) or the append may time out
(`AppendFails`). A take-over is two steps, as in `_remove_if_stale`: `FindStale` looks at the age
of the lock file and remembers the lock in `condemned`, and `UnlinkStale` unlinks whatever file is
at that path by then. The histories are `robbed`, a waiter has unlinked the lock file of a live
operation, and `torn`, a process has died between the signature of a version and the write of the
task file.

| Code | Model |
|---|---|
| task file | `projection[t]` (state, revision, attempt, lease, run); descriptive fields are left out |
| `ledger.jsonl` | `ledger`, a sequence of events with the task snapshot of their payload |
| lease token, run id (`secrets`, `uuid4`) | the next number; `delivered` are the tokens `claim` has returned |
| `authority.status()["actor_os_isolation_proven"]` | the constant `OsIsolationProven` |
| identities in the config | the constant `Identity`; a model family is the sequence of its parts |
| validations, attestation, archive | one step that succeeds with a verdict, or raises (`VerifiedRun` has the detail) |

Creation of the lock file, the reads and the decision are one step: until the operation
appends it has changed nothing but the lock. Calls that are refused only create and unlink the
lock file and are left out. The field `token` of an event is not in the code's event: it
records the token the caller presented, for `LeaseFenced`.

`TrustProjection` adds no step. Its operators are the audits of runs and restatements and the
trust status of a task, as functions of the ledger; `TrustFollowsLedger` compares them, in every
state, with what the operations meant when they signed. `IdentityRegistry` is checked by two
assumptions of `MCWorkspace` over every registry of three agents that `add_agent` can build and
every policy over three names.

### VerifierJournal

`file` says for each record, claim marker and receipt whether it is absent, torn (created, not
filled) or whole; `rec`, `mark` and `rcp` are their contents. `CreateFile`, `FillFile`,
`SyncFile` and `WriteFails` are `_write_exclusive`, and for receipts `_persist_exact`;
`Replace` and `ReplaceFails` are `_replace`. `claim_dispatch`, `transition`, `recover` (with
`recover_all`) and `persist_receipt` are the operations up to their first file operation;
`Reload`, `RecoverOne` and `Advance` their later decisions. `LockFree` is the `RLock`, which
`persist_receipt` takes only for its final transition. `path` and `acquisitions` record history
for the properties. A process dies with all its threads and its files stay; power loss, for
which the code syncs files and directories, is not modelled, nor are temporary files,
timestamps and the checks on paths and owners. No caller of `transition` exists in the
repository: any thread may make any allowed move except the two that `claim_dispatch` and
`persist_receipt` make themselves.

### LedgerStoreV2

`log` and `journal` are the whole lines of the two files, `torn` the files that end in part of a
line, `synced` how much of each a power loss spares. A store object is in a process of its own;
`pc` and `job` say how far its append or reconciliation is (PREPARE, event, COMMIT, each written
and then synced), and the `flock` is that at most one store is inside. `IOFails` lets any write
or sync raise, before or after its effect, and follows the code into the locked reread that
decides between `RetryableAppendNotApplied` and `IndeterminateCommit`; `Crash` frees the lock;
`PowerLoss` cuts both files back to anything between what was synced and what was written.
`sign_checkpoint` and `verify_signed_dispatch` are the authority reads. `ImplementsExactlyOnce`
maps the log to the transactions its PREPARE lines name; the abstract log may lose events that
nobody was told of. `read` is how many lines of each file a call has read and acted on, and
`lost` the files that a power loss took such a line from: nothing but the last sync protects
what a later call reads, and `append` answers for a COMMIT it finds without syncing it.

### ActorCapability

`guard`, `record` and `used` are the files, each absent, torn or whole. `Bootstrap`, minting,
`verify_and_consume` (read the record, check, create the marker, fill it, answer) and `rotate`
(consume its own token, take the lock, compare the version, replace the record) are programs of
several steps; a process may die between any two, and the clock may be set back. `lock` is the
rotation lock, the set of the mtimes of the files at its path (none or one). It is taken over by
age, in the two steps `FindStale` and `UnlinkStale`, and `robbed` records that a rotation in
progress has lost its file that way.

### SnapshotBroker

`ns` are the namespaces with their mode and content, `records` the lease records, `leases` and
`tombs` the tables in memory, `nonce` the nonce files. A tombstone is the number of its turn, 0
for none: the dictionary of the code keeps the order of insertion and evicts its first key. A
connection goes through its nonce, the lease lock, eviction of lapsed leases, and `acquire`
(namespace, copy file by file, seal, record, table) or `release` (nonce, removal, record, table,
tombstone). `Start`, `RecoverOpen` and `RecoverDrop` are startup recovery. Clients retry a release
with the same request; sources are edited while they are copied.

### TrustedRunner, CommandPolicy, VerifiedRun

A command is a sequence of words that stand for the cases the policy tells apart.
`TrustedRunner` is the straight line of `run_trusted_validations` with its failures: pinning the
commit, the isolation check, the caller's copy, the lease, the commands, two postchecks, the
document, the release bound to the document's hash, `receipt.json`. Beside it the repository is
edited, the caller's copy is changed, the lease expires, the answers of the broker get lost, and
the process dies. `VerifiedRun` puts `validate_manifest` before it and the attestation, the
archive and the signature after it, while evidence and archive may be edited by others.
`VerdictValid` is what the projection later says of the signed verdict. Two details of the way
from the manifest to the projection are data with a consequence: a hash has a spelling, which
`validate_manifest` replaces by lower case (`StoredHashes`) and the projection takes as it is in
the archived manifest; and the projection reads documents of up to 4 MiB, counted in file records
(`MaxArchived`, `Fits`).

### Monitoring

The workspace is counted in submissions: archives, ledger events and task files are three
numbers that are written one after the other, and the publisher reads them one after the other,
without a lock. `Cycle` is one step of the publisher (reserve a sequence, the seven reads of
`build_snapshot`, send, wait for the answer), `Ingest` the conditional batch of `ingest.js`.
Requests stay in `net` and may arrive late and twice; `Kill`, `Exit`, `Fail` and `LoseState` are
the faults, counted in `mishaps`; `Start` is the scheduler. `at` is the place of the publisher, and
`rows` are those of `monitor_history`.

### PairSidecar

A broker's pass is `Process-OneTask`: `Begin` takes `.broker.lock`, reads the state and makes
the assertions; `Prepare`, `Announce`, `Launch`, `Finish` and `Called` are a call of the agent or
of Codex; `Observe`, `Hash`, `Move`, `Check`, `Copy`, `Seal` and `Decide` import what the agent
left, with its two files hashed one after the other; `Register` and `Publish` seal the candidate;
`SafeStop` is both the explicit stop and the `catch`. The agent runs on a server and writes
whenever it was told of a round (`AgentWrites`), also after its round is over. `Crash`,
`DropState`, `IOFails`, `ChangeTarget`, `RemoveBrief` and `Edit` are the faults; an edit may fall
between the copy of a response and the hash of its seal. `AskStop` and `WriteStop` are the stop
command, which checks the phase before it writes.

`envelope` is what the files of the task allow. `Write-JsonAtomic` replaces `STATE.json` by
`Move-Item -Force`, which removes the old file before it moves the new one: `DropState` is a
broker that dies, or a move that raises, in between, and a "stateless" task is skipped by every
later pass. Without `BRIEF.md` the task is "unfit": `Assert-TaskEnvelope` raises before the pass
has the lock, so that its `catch` can stop nothing. `shown`, `old`, `ripe` and `calls` are
history. A seal that a crash left half written (`Torn`) is not the seal of any text. Taken as one
step: the creation of the lock file, which Windows closes with its process. Texts are model
values: the two agent responses `"go"` and `"revised"` both recommend to go on, and differ.

## 3. Runs

| Run | Instance | Shows |
|---|---|---|
| `LedgerAppend` | 3 processes, two deaths, no hold beyond the stale limit, fair | `OneWriter`, `RobberyNeedsDeath`, `ReturnedEventsVerify`, `UnreadableIsFrozen`, `ImplementsLedger`, `AppendEnds` |
| `WorkspaceLease` | 1 task, 2 processes, 2 claims, one death, one time-out | `ProjectionFollowsLedger`, `SignedHistoryLegal`, `LeaseFenced` |
| `WorkspaceVerify` | 1 task, 2 processes, one death, validations beyond the stale limit, two reasons | `OneTerminalPerRun`, `VerdictIndependent`, `RevocationFinal`, `TrustFollowsLedger` |
| `WorkspacePrereqs` | 2 dependent tasks, one death | `PrerequisitesVerified` |
| `WorkspaceFaults` | 1 task, one death and one time-out, fair | `ExpiredLeaseSettled`, `StartedRunClosed` |
| `VerifierJournal` | 2 threads, 2 dispatches with room for one record, 2 receipts, one death, one I/O error, fair | the properties of the journal |
| `LedgerStoreV2` | 2 stores, 2 transactions, two faults or one fault and one power loss, fair | `StoreReconcilable`, `AnswersStayTrue`, `ImplementsExactlyOnce`, `PreparedResolves` |
| `SnapshotBroker` | 2 clients of one account, 2 threads, 2 files, room for one lease, three nonces, one tombstone; a restart, a failed call or an edit, and a client that gives up | `HeldSnapshotIntact`, `ProofMeansGone`, `TablesAgree` |
| `ActorCapability` | 2 processes, 2 secrets, 3 tokens, one fault | `SpentOnce`, `ReceiptsStayValid`, `RotationsKept` |
| `TrustedRunner` | every command of a few words without faults; every declaration, tree and permission with one fault; two commands with three | `PassedReceiptSound`, `ProjectionAgrees`, `LeaseSettled` |
| `Monitoring` | 2 schema ranks, a history of 2, one submission, 5 sequences, two faults, fair | `DashboardInOrder`, `PublisherRecovers` |
| `PairSidecar` | 1 broker; five writes of the agent, or four and one fault, fair | `RoundsSound`, `PairCloses` |

**Bounds.** Times are scaled: what matters is their order. The lock instances have a lock held
exactly as long as the stale limit and one second longer, a lease that expires inside and outside
an operation, and a clock that runs past both. `MaxHold` and `MaxRun` are the longest time a live
process spends under a lock. In `LedgerAppend` a hold ends at the stale limit, so that only a
death makes a lock stale, and the three processes and two deaths give the take-over of a dead lock
by two waiters at once, and a death in the middle of a line before or after it. In
`WorkspaceVerify` a live holder outlasts the limit too, as a validation of up to 300 s does the
120 s of the task lock. In `Workspace` a dead process is free to start another operation, so two
are enough for a death and a double take-over. `MaxSecrets = 2` allows a claim, its recovery and a
second claim; with 3 a claim, a submission and two verification runs. `MaxEvents` only bounds
heartbeats and restatements, which could go on for ever. One death and one time-out reach every
single point of failure. In the journal's instance the second dispatch meets a full journal; in
the broker's the second client meets a full table, the nonce store fills up, and a second release
evicts the first tombstone. Two transactions let ledger v2 append behind an unresolved PREPARE,
two faults let a reconciliation fail in its turn, and a fault with a power loss lets power take
what a dead writer had not synced, before or after somebody has read it. Three tokens are two for
two competing rotations and one for a call beside them; a dead rotator and two that find its lock
stale are two processes, one restarted. The runner's words include an exact and another spelling
of each program, an option on and off each list and each way to name a file; one commit and one
manifest have more files than the projection reads. Five sequences let a publisher that lost its
file fall behind and catch up. Two rounds of a pair take four writes of the agent; the fifth is
the late or contradictory one. One broker is enough: a pass begins only while nobody has the lock,
from the files alone, and leaves nothing in memory, so a second broker does what the same one does
in its next pass or after a restart; the theorem is about any number of them. `WaitLimit` is the
least with which a round can be accepted. Processes and threads are symmetric, and symmetry is
used in the runs without liveness. `CHECK_DEADLOCK FALSE` is set because a finished instance
really stops: tasks are verified or closed, the clock is at its bound.

**Fairness.** Time passes; a process that waits for a lock polls; a live process finishes its
operation (the code has no unbounded waits inside one, and validations and adapters have a
time-out). Nothing forces a call, except where a component says who repeats it: the orchestrator
retries `recover_lease` while a lease stays expired (weak fairness) and `reconcile_verification`
while the doctor reports an open run (strong fairness: other operations may hold the task lock
in between); the verifier's threads get the `RLock` they wait for, and `persist_receipt` is
retried with the receipt that was produced (strong); a store is opened again after a death, and
the caller of an indeterminate append follows the error's advice to "call
reconcile_transaction with the same tx_id" (strong); the task scheduler restarts the publisher
(`src/scripts/install_monitor_publisher_autostart.ps1`, `RestartCount 999`) and a request on an
open connection arrives (weak); the pair broker reconciles every few seconds and is started
again (weak). Deaths, time-outs, I/O errors, edits, the agent's writes and stop requests are
never forced.

**Known behaviours.** The following configurations are not part of the regular runs. Each makes
TLC produce a behaviour that departs from a sentence of the repository or that a reader of the code
might not expect, and shows that a condition of a property is needed:

- `WorkspaceStolenRun` (`SingleTerminal`): `verify` dies after `verification.started`. Two
  reconciliations find its lock stale; the first unlinks it and takes the lock, the second unlinks
  the first one's file and enters too, and both sign `verification.failed`.
  `src/docs/RECOVERY_LIFECYCLE_KO.md:13-14` promises exactly one terminal event.
- `TrustedRunnerContract` (`ContractRebuilt`): a manifest with a hash in upper case is accepted and
  stored in lower case, and the projection rebuilds another contract from the archived manifest,
  although `validation_contract_sha256` says that it "lets the read-side projection independently
  rebuild the same contract from archived bytes".
- `PairOrphan` (`OrphansClose`): the broker of a call that has ended dies while it replaces
  `STATE.json`. The file is gone, every later pass skips the task, and the call is never closed
  with `PAIR_SAFE_STOP`, against `src/PAIR_FAST_START_KO.md:39-40`.
- `LedgerAppendSteal` (`Exclusive`, three processes and a death): `_remove_if_stale` stats and
  unlinks by path, so a slow waiter unlinks the lock another waiter has just created.
- `ActorRotationLost` (`EveryRotationKept`, a death): the same at the rotation lock. Both rotations
  pass the compare-and-swap and are reported done, and one key replaces the other.
- `WorkspaceWedged` (`ExpiredLeaseRecovered`): a death between ledger and task file leaves a
  lease that `recover_lease` refuses for ever. `ExpiredLeaseSettled` shows that this is the only
  way.
- `WorkspaceMismatch` (`VerdictFinal`): after such a death `verify` trusts the outdated file.
- `WorkspaceRevoked` (`ClaimsHonourRevocation`): `claim` trusts a task file whose verification
  was revoked.
- `VerifierReceiptLost` (`ReceiptBacked`): `persist_receipt` unlinks a receipt that a concurrent
  call has accepted.
- `LedgerStoreLost` (`AcknowledgedStays`, a death and then a power loss): append answers for a
  COMMIT that a dead writer left unsynced, without syncing it
  (`ledger_authority_store_v2.py:388-392`).
- `PairLateForgotten` (`LateRevokes`): a broker that dies between the quarantine of a late result
  and the safe stop leaves a `PAIR_CANDIDATE` that no later pass revokes, against
  `src/PAIR_FAST_START_KO.md:113-115`.
- `CrashRecoverable` of `SnapshotBroker` fails in its instance: a daemon killed while it copies or
  removes a namespace leaves one that startup recovery refuses (`snapshot_broker.py:1210`,
  `1234-1236`).

Seen while modelling, and not stated as properties:

- *Broker.* A crash between the creation and the filling of a nonce file blocks every later
  request (777-827). A failed removal makes the retried release be refused, and of a lapsed lease
  every connection fail (1264-1273).
- *Capability.* A token from up to 5 s in the future is accepted, but its receipt never
  validates. A key record torn by a crash blocks the bootstrap. A verification that read the
  record before a rotation may finish after it.
- *Runner.* PowerShell commands in another spelling, targets that name one file twice, hashes in
  upper case, and commits or bundles of more files than fit into 4 MiB of JSON (the runner allows
  50,000 files) run and pass but are refused by the projection (the conditions
  `CanonicalSpelling`, `NoFileTwice` and `Rereadable` of `ProjectionAgrees`). `-c` is on the
  unittest list and always refused. A lost answer to acquire leaves a lease until it lapses. No
  emitter of the executor attestation exists and
  `validate_receipt(require_independent_trust_root=True)` always raises, so in production the
  projection of every verdict is `verification_disputed`.
- *Evidence.* A `bundle.json` of the same attempt and manifest is overwritten by a retry; large
  artifacts stay outside the archive.
- *Journal.* A torn record makes `recover_all` raise; temporary files are never removed and count
  against the scan limit.
- *Workspace.* Forced recovery after a crash gives the worker of a claim that was signed and never
  delivered no way back; a blocked or rejected task becomes pending only by an explicit call.
- *Monitoring.* The sequence file is not synced. A publisher that lost it restarts at 1 and is
  refused until it overtakes; a snapshot built during a submission can raise a false
  `UNVERIFIED_OPERATIONAL_STATE`.
- *Pair.* `R1_CODEX.md` is bound by nothing between its writing and the candidate's seal, although
  its DONE file holds its hash.

## 4. Properties

Some properties hold up to an accident that the code does not survive. The condition is then part
of the property, as a history of what has happened and never as a bound on what may happen; the
known behaviours of section 3 show that each condition is needed.

*Ledger.* `OneWriter`: until a live process is robbed of its lock file, no two processes are
inside the locked part of `append`, whoever died and however often a dead lock was taken over.
`RobberyNeedsDeath`: that accident takes a death, as long as holds end at the stale limit.
`ReturnedEventsVerify`: until then, acknowledged events are in the file and the chain verifies, but
for a last line that a death has torn. `UnreadableIsFrozen`: until then, a file that does not parse
is never extended. `AppendEnds` (liveness). `ImplementsLedger`: the abstract log seals itself when
a line is torn, and promises nothing after a robbery.

*Ledger v2.* Until a power loss takes an unsynced line that a call had already acted on:
`StoreReconcilable`: unless a line was cut, the fail-closed audit accepts the files, whatever
was interrupted. `AnswersStayTrue`: a transaction reported as not applied left nothing, a signed
checkpoint stays a prefix, an accepted dispatch stays committed. `ImplementsExactlyOnce`,
`PreparedResolves`.

*Tasks.* Until a robbery, or a death between the two writes of an operation:
`ProjectionFollowsLedger`: the task file is the latest signed snapshot unless its writer is about
to write it; `SignedHistoryLegal`: consecutive snapshots follow the state table; `LeaseFenced`: a
worker that lost its lease signs nothing more. Until a robbery, whatever dies:
`OneTerminalPerRun` (its first two parts, one start per run and every terminal event after it, hold
always); `VerdictIndependent`; `RevocationFinal`; `TrustFollowsLedger`: the projection and the
doctor derive exactly the trust that was signed. Always: `PrerequisitesVerified`;
`ExpiredLeaseSettled` and `StartedRunClosed` (liveness).

*Verifier.* `OneOwner` and `OneExecution`: duplicated deliveries never execute twice;
`SnapshotReleased`; `FailureRemembered`; `ReceiptAfterCleanup`; `StoresBounded`;
`ReceiptRetryCompletes` (liveness).

*Broker, capability, runner.* `HeldSnapshotIntact`: who holds a lease reads what it declared.
`ProofMeansGone`. `TablesAgree`: table, records and namespaces name the same leases.
`SpentOnce`; `ReceiptsStayValid` and `RotationsKept`, until a rotation is robbed of its lock file.
`PassedReceiptSound`: a passed receipt is about
the pinned commit's files, all commands, and a released lease. `ProjectionAgrees`: runner and
projection, two implementations of one policy, accept the same runs, apart from the commands and
files listed under section 3. `LeaseSettled`: every
release request of a lease has one preimage, and no call ends without one.

*Monitoring and pair.* `DashboardInOrder`: what is shown never goes back in schema or sequence
and is never torn; `PublisherRecovers` (liveness). `RoundsSound`: no stage is replayed, an
accepted round was stable and whole, Codex answers rest on accepted responses; `PairCloses`
(liveness): unless `STATE.json` or `BRIEF.md` is gone.

Each module with state has one type invariant, `TypeOK`; those of `LedgerAppend`, `Workspace`,
`VerifierJournal` and `ActorCapability` are proved instead of checked, and for the other proved
modules the first conjunct of the inductive invariant (`TypeInv`) says what the proof needs of the
types. Definitions whose name ends in an underscore and
a word (`IsStale_OffByOne`) are faulty variants of the definition after them: the project keeps
one per property to show that the property would notice such a bug.

## 5. Theorems

All theorems hold for every value of the constants that satisfies `ConstantsAssumption`, hence
for any number of processes, tasks and events.

| Theorem | Says | Under |
|---|---|---|
| `LedgerAppendProofs!TypeCorrect` | `TypeOK` | |
| `LedgerAppendProofs!AppendExcludes` | `OneWriter` | |
| `LedgerAppendProofs!RobberiesNeedDeath` | `RobberyNeedsDeath` | `MaxHold <= StaleSeconds` |
| `LedgerAppendProofs!ReturnedEventsStay` | `ReturnedEventsVerify` | |
| `LedgerAppendProofs!UnreadableStaysFrozen` | `UnreadableIsFrozen` | |
| `LedgerAppendProofs!AppendImplementsLedger` | `ImplementsLedger` | |
| `WorkspaceProofs!TypeCorrect` | `TypeOK` | |
| `WorkspaceProofs!RunsClosedOnce` | `OneTerminalPerRun` | |
| `WorkspaceProofs!VerdictsIndependent` | `VerdictIndependent` | |
| `WorkspaceProofs!RevocationsFinal` | `RevocationFinal` | |
| `WorkspaceProofs!TrustFollows` | `TrustFollowsLedger` | |
| `WorkspaceProofs!FilesFollowLedger` | `ProjectionFollowsLedger` | |
| `WorkspaceProofs!HistoryLegal` | `SignedHistoryLegal` | |
| `WorkspaceProofs!LeasesFence` | `LeaseFenced` | |
| `WorkspaceProofs!ClaimsFollowVerdicts` | `PrerequisitesVerified` | |
| `WorkspaceProofs!AliasesShareIndependence` | an alias is independent of exactly those its target is independent of | any registry that `add_agent` builds |
| `WorkspaceProofs!AuditReadsRegistered` | `resolve_identity_registry` gives every agent the identity it was registered with | the same |
| `WorkspaceProofs!RolesDoNotSeparate` | a role label appended to a model family changes no independence | |
| `VerifierJournalProofs!TypeCorrect` | `TypeOK` | |
| `VerifierJournalProofs!ClaimedOnce` | `OneOwner` | |
| `VerifierJournalProofs!ExecutedOnce` | `OneExecution` | the threads are of one process |
| `VerifierJournalProofs!SnapshotsReleased` | `SnapshotReleased` | the same |
| `VerifierJournalProofs!FailuresRemembered` | `FailureRemembered` | the same |
| `VerifierJournalProofs!ReceiptsAfterCleanup` | `ReceiptAfterCleanup` | the same |
| `VerifierJournalProofs!StoresStayBounded` | `StoresBounded` | the same |
| `LedgerStoreV2Proofs!StoreAlwaysReconcilable` | `StoreReconcilable` | |
| `LedgerStoreV2Proofs!AnswersTrue` | `AnswersStayTrue` | |
| `LedgerStoreV2Proofs!StoreImplementsExactlyOnce` | `ImplementsExactlyOnce` | |
| `ActorCapabilityProofs!TypeCorrect` | `TypeOK` | |
| `ActorCapabilityProofs!TokensSpentOnce` | `SpentOnce` | |
| `ActorCapabilityProofs!RotationsStay` | `RotationsKept` | |
| `ActorCapabilityProofs!ReceiptsKeepValid` | `ReceiptsStayValid` | |
| `SnapshotBrokerProofs!BrokerInvariant` | the inductive invariant `BrokerInv` | |
| `SnapshotBrokerProofs!SnapshotsStayIntact` | `HeldSnapshotIntact` | |
| `SnapshotBrokerProofs!ProofsMeanGone` | `ProofMeansGone` | |
| `SnapshotBrokerProofs!TablesStayEqual` | `TablesAgree` | |
| `TrustedRunnerProofs!RunnerInvariant` | the inductive invariant `AllInv` | |
| `TrustedRunnerProofs!ReceiptsSound` | `PassedReceiptSound` | |
| `TrustedRunnerProofs!LeasesSettle` | `LeaseSettled` | |
| `TrustedRunnerProofs!VerdictsRestOnCommands` | a signed verdict is refused later only because of the archive, of what the projection cannot read again (`Rereadable`), or of a command | |
| `TrustedRunnerProofs!ProjectionsAgree` | `ProjectionAgrees` | |
| `SidecarProofs!RoundsStaySound` | `RoundsSound` | |
| `SidecarProofs!MonitorInvariant` | the inductive invariant `MonitorInv` | |
| `SidecarProofs!PageNeverGoesBack` | `DashboardInOrder` | |

An empty third column means any number of processes, threads, deaths, take-overs, failures and
power losses, holds of any length, in any order. Two assumptions are left:

- *One process, in `VerifierJournal`.* The `RLock` is the only lock of the journal; two processes
  share none. `ClaimedOnce` does not need it: `O_EXCL` on the claim marker is enough.
- *Hold times, in `RobberiesNeedDeath`.* A holder that outlasts the stale limit is robbed without
  any death; for `append`, whose transaction is short, the limit is 120 s.

**Arguments.** `OneWriter` is not inductive. `LockInv` of `LedgerAppendProofs` adds that, until a
robbery, the lock file exists while a process is inside; then `O_EXCL` keeps the others out, and
the only step that removes the file under a live process is the robbery itself. `NoDeathInv` says
why a robbery takes a death: until one, the lock file belongs to the process inside, is never older
than `MaxHold`, and so nobody has condemned it. `FileInv` adds that the lines form a verifying
chain of whole lines, all but a last one that a death has torn, and that a process about to write
has read a file that still parses and built its event from exactly this file, which only mutual
exclusion preserves; a line left open is a dead caller's. `UnreadableIsFrozen` follows since
`ReadChain` refuses a file that does not parse. The refinement maps `WriteLine` to `AppendEvent`,
`Release` to `ReturnEvent`, a torn write to `Seal`, a robbery and whatever follows it to
`Forfeit`, and every other step to a stutter.

`LockInv` of `WorkspaceProofs` says the same of each task lock (`TaskLockExclusive`). `RunInv`
adds to `OneTerminalPerRun` what the processes still intend: a run id at most one process is about
to start, a verifier past its `verification.started` whose run is open, and a terminal event in a
`job` only for a run without one. It is preserved because verify and reconcile exclude each other
on the task lock, and after a robbery keeps only what the single start needs. `PrereqInv` says
that a task file, a signed snapshot or an intended write in state verified is backed by a signed
`task.verified`, which is why reading another task's file without its lock is harmless.
`CallEffects` and `InsideFrame` collect what an operation's first and later steps may change, so
that the three inductions do not repeat the eleven operations.

`ClaimInv` of `VerifierJournalProofs` says that a dispatch is acquired at most once, that its
marker exists from the moment it was created by the one thread still filling it or acquired by,
and that nobody is filling it once it is acquired; so the unlink after an I/O error, the only
step that removes a marker, never removes one that was acquired.

`BusyInv` of `WorkspaceProofs` ties the event and the record of a process inside an operation to
the task whose lock it took. `HistoryInv` is `SyncInv` and `LeaseInv`, until a robbery or a death
between the two writes. `SyncInv` says that the task file is the last signed version unless
its writer has appended and not yet written, and that an intended event is a legal successor of
the file; `LeaseInv` that the lease in the last signed version is the one of the last claim, with
no recovery since. `VerdictInv` says that a task file, a record or a signed version in state
submitted is backed by the last submission of its attempt, and that a verifier under the lock
judges that one; `RevocationInv` that whoever is about to sign a restatement holds the lock of
the task it concerns, and the event it names is not revoked. `TrustInv` says of every signed or
intended event what the audits ask of it alone: a verdict's actor started its run, a restatement
is the orchestrator's and names an earlier verdict on its task; and of every task file that says
"verified", that some verdict signed that very record, which holds even after a death between the
append and the write. `TrustRead` is then about one state: with `RunInv`, `VerdictInv`,
`RevocationInv` and a last restatement of whatever was restated (`LastRestated`), it takes
`TrustState` and `AuditStatus` apart for two verdicts of one attempt, and for one that was
revoked, disputed or neither.

The identities are proved about as operators. `Flat` is what every call of `add_agent` keeps: an
alias has the principal and the family of everyone in its chain, and the chain behind each of them
is that one's own chain. From it follow the independence of aliases, and that the walk of
`resolve_identity_registry` along `alias_of` (`Path`) meets exactly the chain; that is an
induction over the walk, and another over the calls that built the registry. `MCWorkspace`
evaluates the same facts on every registry of three agents, and those about cycles in a policy,
which are not proved.

`JournalInv` of `VerifierJournalProofs` has four parts. `Alone`: who is inside the `RLock` is
alone there. `Work`: what each step of an operation still knows about the file it read,
persist_receipt outside the lock included. `History`: the states each record went through agree
with the one on file, so that EXECUTING occurs once, and who held a snapshot still holds it or
passed CLEANUP_ACKED. `RecordsBounded`: the records on file are within the limit; `Work` says that
there is room where one is about to be created.

`StoreInv` of `LedgerStoreV2Proofs`: PREPARE and COMMIT lines alternate, the k-th transaction is
the k-th event, and the journal is at most a line ahead of the log or behind it (`Paired`); the
store that holds the `flock` knows how its transaction stands (`Work`); and at most one line is
exposed, neither synced nor read by a later call, and the files are paired without it as well
(`TailInv`). So an interrupted append is always the last one, whatever power takes of it, and
reconciliation finishes it or finds it absent. `StoreInv` holds until a power loss takes a line
that was read (`lost`). `ReadInv`, `DispatchInv` and `AckInv` carry the answers: what was signed,
accepted or acknowledged lies within what was read, and until then nothing shortens the files
below that. The refinement maps the write of an event to the
application of its transaction, and the end of the append or the reconciliation to the
acknowledgement; a loss of what was read, and whatever follows it, is `Forfeit`.

`SpendInv` of `ActorCapabilityProofs`: a process that created the marker of a token and has not
answered is the only one, and the token has not been accepted. `RotateInv`: the version a rotation
compared is the version it replaces, because until a robbery it is alone inside (`Alone`), and the
record's version stays ahead of the number of rotations reported. `ReceiptInv`: every receipt,
handed out or in memory, is signed with a key that the record still knows.

`BrokerInv` of `SnapshotBrokerProofs`: a connection that is half done is inside the lease lock
(`LockInv`), each client has one connection that matters (`PeerInv`), and each stage of a
connection says what it finds of its lease in namespaces, records and table (`ConnInv`);
`ClientInv` is what a client that holds, lost or released a lease may rely on. `AgreeInv`
restricts the agreement of the three tables to leases that no connection works on, and to a daemon
in which no file operation has failed.

`RunnerInv` of `TrustedRunnerProofs` says of each place of the run what it has established: which
commit is pinned and admitted, which commands have passed on the leased files, that the guard has
at most one preimage and the broker has released for no other, and that a document that says
passed has all the reasons for it. `VerifyInv` adds the archive and the signature. From these,
`VerdictsRestOnCommands` leaves, beside the archive and `Rereadable`, the commands as the one
other reason to refuse a signed verdict later. `ProjectionsAgree` settles them: `PolicyInv` says
that a run past its validation executes every command of the manifest, and `CommandAgrees` that
the projection accepts such a command exactly when it is spelled as it is executed and names no
code file twice. The last part needs an induction over the words of a command, since options stand
between the targets: every positional word has one place in the command (`PositionalNumbers`), so
two targets of one file are two places of the command. `NumberInduction` makes that induction a
statement about a set of numbers and its least missing element (`WFMin`), which the provers can
use. The manifests are assumed to be what `evidence.py` accepts: non-empty, of non-empty arrays of
strings.

`PairInv` of `SidecarProofs`: only the broker with the lock is in a pass; the phase says how many
stages have run (`CallsInv`); what the state says was accepted is what was imported, and what the
calls read, or an edit of it from before its seal (`AcceptInv`, `SealInv`); what was seen was
shown, and a period ago when it is settled (`SeenInv`); and at each place of a pass, what it
established still holds although the agent writes and files are edited meanwhile (`PassInv`).

`MonitorInv` of `SidecarProofs`. A request never says more than the workspace held, and is of a
sequence that its sequence file had reserved (`RequestInv`); of two requests of one sequence file,
the later one says no less (`SequenceInv`). Both follow from `DraftInv`: the snapshot under
construction has a sequence above every request of its file, and each of its parts was read after
that of any request, in the order of `build_snapshot`. `TableInv` is about the server: the row
shown is the newest kept, its schema is the floor, and no row has a newer schema than a later one.
The batch preserves it since it accepts only what is newer than every row and of no older schema,
and since trimming keeps the newest.

**Only model-checked.** Liveness (`AppendEnds`, `ExpiredLeaseSettled`, `StartedRunClosed`,
`ReceiptRetryCompletes`, `PreparedResolves`, `PublisherRecovers`, `PairCloses`) is out of the
prover's reach. So far only evaluated by TLC: that a policy with aliases that go round is
refused (`CyclesRefused` of `MCWorkspace`).

## 6. Not modelled

- Formats, hashing, signatures and canonical JSON; checks of paths, owners and symbolic links.
- Process isolation, cgroups and mounts of the trusted runner: operating-system calls. A command
  is how it ended.
- The adapter. It makes no decision about shared state: it calls `claim`, `start`, `heartbeat`,
  `submit` and `block`, which `Workspace` allows in any order and at any time. Its own hazards
  are outside these calls: the child is left running when a heartbeat raises, the report path is
  reused by the next attempt, and what other agents write meanwhile counts as unauthorized.
- The release gate and `release_evidence.py`: they compare documents produced outside the
  repository, and the first condition, an independent trust root, is one the code always refuses.
- Retained sources (`retained_git.py`): pure reading of git objects.
- `validate_report`, which reads and hashes its file separately; the reports of doctor, roadmap
  and dashboard; the web page; the validation scripts and the build.
- `pair-process-runner.ps1` and the pinning of executables.

## 7. What is left

Every safety property of the passing runs has its theorem. Liveness stays with TLC. The parts of
section 6 that decide something of their own, the adapter and the release gate first, are where
more modelling would pay.
