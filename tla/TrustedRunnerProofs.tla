------------------------ MODULE TrustedRunnerProofs ------------------------
(***************************************************************************)
(* Proofs about TrustedRunner and VerifiedRun, for every manifest, commit, *)
(* permission and number of faults: what a passed receipt says is true,    *)
(* a lease is asked back once and for all, and a signed verdict rests on   *)
(* nothing but its archive, its manifest and its commands.                 *)
(***************************************************************************)
EXTENDS VerifiedRun, FiniteSetTheorems, SequenceTheorems, NaturalsInduction, WellFoundedInduction, TLAPS

\* s is a sequence, of whatever elements.
IsSeq(s) == s \in Seq(ToSet(s))

\* Places of a run: before its lease, before the release, and those at which the
\* commit is known, is known to be admissible, and the leased files are in use
Before == {"source", "isolation", "materialize", "acquire"}
Ahead == Before \union {"remove source", "precheck", "policy", "execute", "source postcheck",
                        "snapshot postcheck", "document", "release"}
Pinned == Places \ {"source", "cleanup", "ended", "dead"}
Admitted == Pinned \ {"isolation", "materialize"}
Inside == {"precheck", "policy", "execute", "source postcheck", "snapshot postcheck", "document",
           "release", "write", "return"}

\* One validation of the run: the command, how it was launched, and what it saw
Launch(argv) == IsolationArgv(Policy(argv).executed, allowed.network, SandboxEnvironment(Entries[source]))
Ran(x, k) ==
    /\ x.argv = manifest[k] /\ x.policy = Policy(manifest[k]) /\ x.launch = Launch(manifest[k])
\* ... on the pinned files, with success
Passed(x, k) ==
    /\ Ran(x, k) /\ x.execution = Success
    /\ x.saw.state = "held" /\ x.saw.files = Entries[source]
AllPassed(rs) == IsSeq(rs) /\ Len(rs) = Len(manifest) /\ \A k \in 1..Len(manifest) : Passed(rs[k], k)

\* What the broker attests of the pinned commit
Attested ==
    [commit |-> source, files |-> Entries[source],
     contract |-> Contract(source, Entries[source], manifest, allowed.network, "lower")]

\* The shapes of the variables
TypeInv ==
    /\ IsSeq(manifest) /\ Len(manifest) > 0
    /\ IsSeq(results) /\ Len(results) <= Len(manifest)
    /\ failure \in BOOLEAN
    /\ pc \in Places
    /\ lease = [state |-> lease.state, files |-> lease.files, attested |-> lease.attested, bound |-> lease.bound]
    /\ guard = [attached |-> guard.attached, released |-> guard.released, preimage |-> guard.preimage]
    /\ guard.attached \in BOOLEAN /\ guard.released \in BOOLEAN
    /\ checks \in [source : BOOLEAN, snapshot : BOOLEAN]

\* The guard knows of every release request; what is attached was attested for
\* the pinned commit; what is released is gone.
GuardInv ==
    /\ pc \in Before => ~ guard.attached
    /\ pc \in Ahead => guard.preimage = <<>>
    /\ guard.preimage = <<>> => sent = {} /\ ~ guard.released
    /\ guard.preimage # <<>> => guard.preimage = <<Head(guard.preimage)>> /\ sent = {Head(guard.preimage)}
    /\ guard.released => lease.state = "gone" /\ guard.preimage = <<lease.bound>>
    /\ pc \in Inside \/ (pc = "remove source" /\ outcome # "raised") => guard.attached
    /\ pc = "ended" /\ guard.attached => guard.preimage # <<>>
    /\ guard.attached => lease.files = Entries[source] /\ lease.attested = Attested

\* What the run has established so far
RunInv ==
    /\ pc \in Admitted => Admissible(source)
    /\ pc \in Admitted \union {"materialize"} => ~ allowed.gpu
    /\ pc \in Before \union {"remove source", "precheck", "policy"} => results = <<>> /\ ~ failure
    /\ pc = "execute" => ~ failure /\ Len(results) < Len(manifest)
    /\ pc \in Inside => \A k \in 1..Len(results) :
         /\ Ran(results[k], k)
         /\ ~ failure => results[k].execution = Success
         /\ lease.state = "held" => results[k].saw = lease
    /\ pc \in {"source postcheck", "snapshot postcheck", "document"} /\ ~ failure => Len(results) = Len(manifest)
    /\ pc \in {"snapshot postcheck", "document"} /\ ~ failure => checks.source
    /\ pc = "document" /\ ~ failure => checks.snapshot /\ AllPassed(results)

\* A receipt document of this run
Document(d) ==
    d = [passed |-> d.passed, failure |-> d.failure, source |-> source, files |-> Entries[source],
         checks |-> d.checks, network |-> allowed.network,
         environment |-> SandboxEnvironment(Entries[source]),
         contract |-> Contract(source, Entries[source], manifest, allowed.network, "lower"),
         acquired |-> Attested, results |-> d.results, preimage |-> d.preimage, cleanup |-> d.cleanup]
\* A document that says passed says why
Sound(d) ==
    /\ Document(d)
    /\ d.passed => /\ ~ d.failure /\ d.checks.source /\ d.checks.snapshot /\ AllPassed(d.results)
                   /\ Admissible(source) /\ ~ allowed.gpu
\* ... and the broker has removed its files for this document
Settled(d) ==
    d.passed => guard.released /\ guard.preimage = <<Preimage(d)>>
                /\ d.preimage = <<Preimage(d)>> /\ d.cleanup = d.preimage
\* The documents: being made, written and returned
DocumentInv ==
    /\ pc \in {"release", "write", "return"} => Sound(document) /\ (document.passed <=> ~ failure)
    /\ pc \in {"write", "return"} => Settled(document)
    /\ pc = "return" => receipt = document
    /\ pc \in Ahead \union {"write"} => receipt = None
    /\ receipt # None => Sound(receipt) /\ Settled(receipt)
    /\ outcome = "returned" => pc \in {"cleanup", "ended", "dead"} /\ Sound(receipt) /\ Settled(receipt) /\ receipt.passed

\* The run is about a commit of the repository.
HeadInv == head \in Commits /\ (pc \in {"source", "dead"} \/ source \in Commits)

RunnerInv == TypeInv /\ GuardInv /\ RunInv /\ DocumentInv

\* What verify has established: a file of the bundle is archived under its hash,
\* or was changed there afterwards.
Archived(f) == Retains(f) => archive[f] \in {"hashed", "tampered"}
VerifyInv ==
    /\ stage \in {"attest", "archive", "sign", "signed"} => pc = "ended" /\ outcome = "returned"
    /\ verdict # None => stage = "signed" /\ verdict = receipt
    /\ stage \in {"manifest", "run", "attest"} => copied = 0
    /\ copied \in 0..4 /\ DOMAIN archive = {"manifest", "artifact", "receipt", "output"}
    /\ stage = "archive" => \A i \in 1..copied : Archived(Sources[i])
    /\ stage \in {"sign", "signed"} =>
         bundle = {f \in SourceSet : Retains(f)} /\ \A f \in SourceSet : Archived(f)

\* The projection accepts a signed verdict exactly when the archive was not
\* changed afterwards, the evidence can be read again and the commands pass its
\* reading of the policy: nothing else in the receipt can be refused.
\* ProjectionAgrees says which commands pass.
VerdictRestsOnCommands ==
    verdict # None =>
        (VerdictValid <=>
            /\ \A f \in SourceSet \ {"artifact"} : archive[f] # "tampered"
            /\ Rereadable
            /\ \A k \in DOMAIN manifest :
                 CommandProjected(manifest[k], Policy(manifest[k]), Launch(manifest[k]), allowed.network,
                                  SandboxEnvironment(Entries[source])))

-----------------------------------------------------------------------------
(* Steps without a lease *)

\* The lease, the results and the documents stand still.
Kept == UNCHANGED <<manifest, allowed, source, lease, guard, results, failure, checks, document, receipt, sent>>

\* The ways a run moves without them
Moves ==
    \/ pc' = pc /\ outcome' = outcome
    \/ pc' \in {"cleanup", "dead"} /\ outcome' \in {outcome, "raised"}
    \/ pc = "isolation" /\ pc' = "materialize" /\ ~ allowed.gpu /\ outcome' = outcome
    \/ pc = "materialize" /\ pc' = "acquire" /\ Admissible(source) /\ outcome' = outcome
    \/ pc = "acquire" /\ pc' = "remove source" /\ outcome' = "raised"
    \/ pc = "remove source" /\ pc' = "precheck" /\ outcome # "raised" /\ outcome' = outcome
    \/ pc = "precheck" /\ pc' = "policy" /\ outcome' = outcome
    \/ pc = "policy" /\ pc' = "execute" /\ outcome' = outcome

\* Nothing happens but that the run goes on, is refused or ends.
LEMMA MoveStep ==
  ASSUME RunnerInv, Kept, Moves
  PROVE  RunnerInv'
<1>1. TypeInv'
  BY DEF RunnerInv, TypeInv, Kept, Moves, Places
<1>2. GuardInv'
  BY DEF RunnerInv, GuardInv, Kept, Moves, Before, Ahead, Inside, Attested
<1>3. RunInv'
  <2>1. TypeInv /\ RunInv
    BY DEF RunnerInv
  <2>2. pc' = "execute" /\ pc = "policy" => Len(results) < Len(manifest)
    BY <2>1 DEF RunInv, TypeInv
  <2>3. Len(<<>>) = 0
    OBVIOUS
  <2>4. pc' \in Admitted => pc \in Admitted \/ Admissible(source)
    BY DEF Moves, Admitted, Pinned, Places
  <2>5. pc' \in Inside => pc \in Inside \/ results = <<>>
    BY <2>1 DEF RunInv, Moves, Inside, Before
  <2>6. (pc' \in Admitted => Admissible(source)') /\ (pc' \in Admitted \union {"materialize"} => ~ allowed'.gpu)
    <3>1. pc' \in Admitted => Admissible(source)'
      BY <2>1, <2>4 DEF RunInv, Kept, Admissible
    <3>2. pc' \in Admitted \union {"materialize"} => ~ allowed'.gpu
      BY <2>1 DEF RunInv, Kept, Moves, Admitted, Pinned, Places
    <3> QED
      BY <3>1, <3>2
  <2>7. /\ pc' \in Before \union {"remove source", "precheck", "policy"} => results' = <<>> /\ ~ failure'
        /\ pc' = "execute" => ~ failure' /\ Len(results') < Len(manifest')
    BY <2>1, <2>2 DEF RunInv, Kept, Moves, Before
  <2>8. pc' \in Inside => \A k \in 1..Len(results') :
          /\ Ran(results[k], k)'
          /\ ~ failure' => results'[k].execution = Success
          /\ lease'.state = "held" => results'[k].saw = lease'
    <3>1. results = <<>> => 1..Len(results') = {}
      BY <2>3 DEF Kept
    <3>2. pc \in Inside => \A k \in 1..Len(results) :
            /\ Ran(results[k], k)
            /\ ~ failure => results[k].execution = Success
            /\ lease.state = "held" => results[k].saw = lease
      BY <2>1 DEF RunInv
    <3>3. \A k \in 1..Len(results) : Ran(results[k], k) => Ran(results[k], k)'
      BY DEF Ran, Launch, Kept
    <3>4. CASE pc \in Inside
      BY <3>2, <3>3, <3>4 DEF Kept
    <3> QED
      BY <2>5, <3>1, <3>4
  <2>9. /\ pc' \in {"source postcheck", "snapshot postcheck", "document"} /\ ~ failure' => Len(results') = Len(manifest')
        /\ pc' \in {"snapshot postcheck", "document"} /\ ~ failure' => checks'.source
        /\ pc' = "document" /\ ~ failure' => checks'.snapshot
    BY <2>1 DEF RunInv, Kept, Moves
  <2>10. pc' = "document" /\ ~ failure' => AllPassed(results)'
    <3>1. pc' = "document" => pc = "document"
      BY DEF Moves
    <3> QED
      BY <2>1, <3>1 DEF RunInv, Kept, AllPassed, Passed, Ran, Launch
  <2> QED
    BY <2>6, <2>7, <2>8, <2>9, <2>10 DEF RunInv
<1>4. DocumentInv'
  BY DEF RunnerInv, DocumentInv, Kept, Moves, Ahead, Before, Sound, Settled, Document, Attested, AllPassed, Passed, Ran, Launch, Admissible
<1> QED
  BY <1>1, <1>2, <1>3, <1>4 DEF RunnerInv

\* A sequence grows by one element.
LEMMA Appended ==
  ASSUME NEW s, IsSeq(s), NEW e
  PROVE  /\ IsSeq(Append(s, e)) /\ Len(Append(s, e)) = Len(s) + 1 /\ Len(s) \in Nat
         /\ \A k \in 1..Len(s) : Append(s, e)[k] = s[k]
         /\ Append(s, e)[Len(s) + 1] = e
<1>1. PICK S : S = ToSet(s) \union {e}
  OBVIOUS
<1>2. s \in Seq(ToSet(s))
  BY DEF IsSeq
<1>3. Len(s) \in Nat /\ DOMAIN s = 1..Len(s) /\ \A k \in 1..Len(s) : s[k] \in S
  BY <1>1, <1>2
<1>4. s \in Seq(S)
  <2>1. s = [k \in 1..Len(s) |-> s[k]]
    BY <1>2
  <2>2. s \in [1..Len(s) -> S]
    BY <1>3, <2>1
  <2> QED
    BY <1>3, <2>2
<1>5. e \in S
  BY <1>1
<1>6. PICK t : t = Append(s, e)
  OBVIOUS
<1>7. t \in Seq(S) /\ Len(t) = Len(s) + 1 /\ (\A k \in 1..Len(s) : t[k] = s[k]) /\ t[Len(s) + 1] = e
  BY <1>4, <1>5, <1>6
<1>8. t \in Seq(ToSet(t))
  <2>1. t = [k \in 1..Len(t) |-> t[k]] /\ Len(t) \in Nat /\ DOMAIN t = 1..Len(t)
    BY <1>7
  <2>2. \A k \in 1..Len(t) : t[k] \in ToSet(t)
    BY <2>1 DEF ToSet
  <2>3. t \in [1..Len(t) -> ToSet(t)]
    BY <2>1, <2>2
  <2> QED
    BY <2>1, <2>3
<1> QED
  BY <1>3, <1>6, <1>7, <1>8 DEF IsSeq

\* _source_state keeps the invariant.
LEMMA SourceStep ==
  ASSUME RunnerInv, SourceState
  PROVE  RunnerInv'
<1>0. /\ TypeInv /\ GuardInv /\ RunInv /\ DocumentInv /\ pc = "source" /\ pc' \in {"isolation", "cleanup"}
      /\ outcome' \in {outcome, "raised"}
      /\ UNCHANGED <<manifest, allowed, lease, guard, results, failure, checks, document, receipt, sent>>
  BY DEF RunnerInv, SourceState, At, GoOrRaise, Go, Raise, request
<1>1. /\ guard.preimage = <<>> /\ ~ guard.attached /\ results = <<>> /\ ~ failure /\ receipt = None
      /\ outcome # "returned"
  BY <1>0 DEF GuardInv, RunInv, DocumentInv, Before, Ahead
<1>2. TypeInv'
  BY <1>0 DEF TypeInv, Places
<1>3. GuardInv'
  BY <1>0, <1>1 DEF GuardInv, Inside, Ahead, Before
<1>4. RunInv'
  BY <1>0, <1>1 DEF RunInv, Admitted, Pinned, Inside, Before
<1>5. DocumentInv'
  BY <1>0, <1>1 DEF DocumentInv
<1> QED
  BY <1>2, <1>3, <1>4, <1>5 DEF RunnerInv

\* The steps that leave the lease and the receipt alone keep the invariant.
LEMMA QuietStep ==
  ASSUME RunnerInv,
         \/ RequireIsolation \/ MaterializeCommittedSnapshot \/ RemoveCallerSource \/ Precheck
         \/ ValidateCommands \/ EditRepository \/ ChangeCallerSource \/ Die
  PROVE  RunnerInv'
<1>1. ASSUME RequireIsolation PROVE Kept /\ Moves
  BY <1>1 DEF RequireIsolation, At, GoOrRaise, Go, Raise, request, Kept, Moves
<1>2. ASSUME MaterializeCommittedSnapshot PROVE Kept /\ Moves
  BY <1>2 DEF MaterializeCommittedSnapshot, At, Go, Raise, request, Kept, Moves
<1>3. ASSUME RemoveCallerSource PROVE Kept /\ Moves
  BY <1>3 DEF RemoveCallerSource, At, Go, Raise, request, Kept, Moves
<1>4. ASSUME Precheck PROVE Kept /\ Moves
  BY <1>4 DEF Precheck, At, Go, Raise, request, Kept, Moves
<1>5. ASSUME ValidateCommands PROVE Kept /\ Moves
  BY <1>5 DEF ValidateCommands, At, GoOrRaise, Go, Raise, request, Kept, Moves
<1>6. ASSUME EditRepository \/ ChangeCallerSource \/ Die PROVE Kept /\ Moves
  BY <1>6 DEF EditRepository, ChangeCallerSource, Die, request, run, Kept, Moves
<1> QED
  BY <1>1, <1>2, <1>3, <1>4, <1>5, <1>6, MoveStep

\* acquire keeps the invariant, whether or not its answer arrives.
LEMMA AcquireStep ==
  ASSUME RunnerInv, AcquireLease
  PROVE  RunnerInv'
<1>0. /\ TypeInv /\ GuardInv /\ RunInv /\ DocumentInv /\ pc = "acquire" /\ pc' = "remove source"
      /\ UNCHANGED <<manifest, allowed, source, results, failure, checks, document, receipt, sent>>
  BY DEF RunnerInv, AcquireLease, At, request
<1>1. /\ guard.preimage = <<>> /\ ~ guard.attached /\ ~ guard.released /\ results = <<>> /\ ~ failure /\ receipt = None
      /\ outcome # "returned" /\ Admissible(source) /\ ~ allowed.gpu
  BY <1>0 DEF GuardInv, RunInv, DocumentInv, Before, Ahead, Admitted, Pinned, Places
<1>2. RunInv'
  BY <1>0, <1>1 DEF RunInv, Admitted, Pinned, Inside, Before, Admissible
<1>3. CASE UNCHANGED <<lease, guard>> /\ outcome' = "raised"
  BY <1>0, <1>3, MoveStep DEF Kept, Moves
<1>4. CASE tree = Entries[source] /\ lease' = Held(tree)
           /\ ((outcome' = "raised" /\ guard' = guard) \/ (outcome' = outcome /\ guard' = [guard EXCEPT !.attached = TRUE]))
  <2>1. /\ lease' = [state |-> "held", files |-> Entries[source], attested |-> Attested, bound |-> lease.bound]
    BY <1>0, <1>4 DEF Held, TypeInv, Attested, RunContract, StoredHashes
  <2>2. PICK a \in BOOLEAN : guard' = [attached |-> a, released |-> FALSE, preimage |-> <<>>]
                             /\ (outcome' # "raised" => a)
    <3>1. PICK g, h, f, p : g = guard /\ h = guard' /\ f = FALSE /\ p = <<>> /\ g = [attached |-> f, released |-> f, preimage |-> p]
      BY <1>0, <1>1 DEF TypeInv
    <3>2. g = [attached |-> f, released |-> f, preimage |-> p]
      BY <3>1
    <3>3. ASSUME h = [g EXCEPT !.attached = TRUE] PROVE h = [attached |-> TRUE, released |-> f, preimage |-> p]
      BY <3>2, <3>3
    <3> QED
      BY <1>4, <3>1, <3>3
  <2>3. /\ guard'.attached = a /\ guard'.released = FALSE /\ guard'.preimage = <<>>
        /\ lease'.state = "held" /\ lease'.files = Entries[source] /\ lease'.attested = Attested
    BY <2>1, <2>2
  <2>4. TypeInv'
    <3>1. lease' = [state |-> lease'.state, files |-> lease'.files, attested |-> lease'.attested, bound |-> lease'.bound]
      BY <2>1
    <3>2. guard' = [attached |-> guard'.attached, released |-> guard'.released, preimage |-> guard'.preimage]
      BY <2>2
    <3> QED
      BY <1>0, <2>3, <3>1, <3>2 DEF TypeInv, Places
  <2>5. GuardInv'
    <3>1. sent' = {}
      BY <1>0, <1>1 DEF GuardInv
    <3>2. lease'.files = Entries[source'] /\ lease'.attested = Attested'
      BY <1>0, <2>3 DEF Attested
    <3> QED
      BY <1>0, <2>2, <2>3, <3>1, <3>2 DEF GuardInv, Before, Inside
  <2>6. DocumentInv'
    BY <1>0, <1>1, <1>4 DEF DocumentInv
  <2> QED
    BY <1>2, <2>4, <2>5, <2>6 DEF RunnerInv
<1>5. \/ UNCHANGED <<lease, guard>> /\ outcome' = "raised"
      \/ tree = Entries[source] /\ lease' = Held(tree)
         /\ ((outcome' = "raised" /\ guard' = guard) \/ (outcome' = outcome /\ guard' = [guard EXCEPT !.attached = TRUE]))
  <2>1. \/ tree = Entries[source] /\ lease' = Held(tree) /\ guard' = [guard EXCEPT !.attached = TRUE] /\ outcome' = outcome
        \/ tree = Entries[source] /\ lease' \in {lease, Held(tree)} /\ outcome' = "raised" /\ guard' = guard
        \/ outcome' = "raised" /\ lease' = lease /\ guard' = guard
    BY Zenon DEF AcquireLease
  <2> QED
    BY <2>1
<1> QED
  BY <1>3, <1>4, <1>5

\* A command keeps the invariant: its receipt says what it ran and what it saw.
LEMMA RunStepInv ==
  ASSUME RunnerInv, RunValidation
  PROVE  RunnerInv'
<1>0. /\ TypeInv /\ GuardInv /\ RunInv /\ DocumentInv /\ pc = "execute"
      /\ UNCHANGED <<manifest, allowed, source, lease, guard, checks, document, receipt, sent>>
  BY DEF RunnerInv, RunValidation, At, request
<1>1. PICK e, r, k :
        /\ e \in Executions
        /\ k = Len(results) + 1
        /\ r = [argv |-> manifest[k], policy |-> Policy(manifest[k]), launch |-> Launch(manifest[k]),
                execution |-> e, saw |-> lease]
        /\ results' = Append(results, r) /\ failure' = Classify(e) /\ outcome' = outcome
        /\ pc' = IF Classify(e) \/ k = Len(manifest) THEN "source postcheck" ELSE "execute"
  BY DEF RunValidation, Go, Launch
<1>2. /\ ~ failure /\ Len(results) < Len(manifest) /\ guard.attached /\ guard.preimage = <<>> /\ receipt = None
      /\ outcome # "returned" /\ Admissible(source) /\ ~ allowed.gpu
  BY <1>0 DEF GuardInv, RunInv, DocumentInv, Before, Ahead, Admitted, Pinned, Places, Inside
<1>3. /\ IsSeq(results') /\ Len(results') = k /\ Len(results) \in Nat /\ k = Len(results) + 1
      /\ \A j \in 1..Len(results) : results'[j] = results[j]
      /\ results'[k] = r
  <2>1. PICK s : s = results /\ IsSeq(s)
    BY <1>0 DEF TypeInv
  <2>2. /\ IsSeq(Append(s, r)) /\ Len(Append(s, r)) = Len(s) + 1 /\ Len(s) \in Nat
        /\ \A j \in 1..Len(s) : Append(s, r)[j] = s[j]
        /\ Append(s, r)[Len(s) + 1] = r
    BY <2>1, Appended
  <2>3. results' = Append(s, r) /\ results = s /\ k = Len(s) + 1
    BY <1>1, <2>1
  <2>4. IsSeq(results')
    BY <2>2, <2>3 DEF IsSeq
  <2> QED
    BY <2>2, <2>3, <2>4
<1>4. Len(manifest) \in Nat /\ k <= Len(manifest)
  <2>1. Len(manifest) \in Nat
    BY <1>0 DEF TypeInv, IsSeq
  <2> QED
    BY <1>2, <1>3, <2>1
<1>5. Classify(e) \in BOOLEAN /\ (~ Classify(e) => e = Success)
  BY <1>1 DEF Classify, Executions, Success, Endings
<1>6. TypeInv'
  BY <1>0, <1>1, <1>3, <1>4, <1>5 DEF TypeInv, Places
<1>7. GuardInv'
  <2>1. pc' \in {"source postcheck", "execute"}
    BY <1>1
  <2> QED
    BY <1>0, <1>1, <1>2, <2>1 DEF GuardInv, Before, Ahead, Inside, Attested
<1>8. RunInv'
  <2>1. pc' \in {"source postcheck", "execute"} /\ (pc' = "execute" => ~ failure' /\ Len(results') < Len(manifest'))
    <3>1. CASE Classify(e) \/ k = Len(manifest)
      BY <1>1, <3>1
    <3>2. CASE ~ (Classify(e) \/ k = Len(manifest))
      <4>1. pc' = "execute" /\ failure' = Classify(e) /\ ~ Classify(e) /\ k # Len(manifest)
        BY <1>1, <3>2
      <4> QED
        BY <1>0, <1>3, <1>4, <4>1
    <3> QED
      BY <3>1, <3>2
  <2>2. pc' = "source postcheck" /\ ~ failure' => Len(results') = Len(manifest')
    BY <1>0, <1>1, <1>3
  <2>3. ASSUME NEW j \in 1..Len(results')
        PROVE  /\ Ran(results[j], j)'
               /\ ~ failure' => results'[j].execution = Success
               /\ lease'.state = "held" => results'[j].saw = lease'
    <3>1. CASE j = k
      <4>1. /\ r.argv = manifest[k] /\ r.policy = Policy(manifest[k]) /\ r.launch = Launch(manifest[k])
            /\ r.execution = e /\ r.saw = lease /\ results'[j] = r /\ failure' = Classify(e)
        BY <1>1, <1>3, <3>1
      <4>2. Ran(results[j], j)'
        BY <1>0, <3>1, <4>1 DEF Ran, Launch
      <4> QED
        BY <1>0, <1>5, <4>1, <4>2
    <3>2. CASE j # k
      <4>1. j \in 1..Len(results) /\ results'[j] = results[j]
        BY <1>3, <3>2
      <4>2. /\ Ran(results[j], j)
            /\ ~ failure => results[j].execution = Success
            /\ lease.state = "held" => results[j].saw = lease
        BY <1>0, <4>1 DEF RunInv, Inside
      <4> QED
        BY <1>0, <1>2, <4>1, <4>2 DEF Ran, Launch
    <3> QED
      BY <3>1, <3>2
  <2>4. Admissible(source)'
    BY <1>0, <1>2 DEF Admissible
  <2> QED
    BY <1>0, <1>2, <2>1, <2>2, <2>3, <2>4 DEF RunInv, Before
<1>9. DocumentInv'
  <2>1. pc' \in {"source postcheck", "execute"}
    BY <1>1
  <2> QED
    BY <1>0, <1>1, <1>2, <2>1 DEF DocumentInv
<1> QED
  BY <1>6, <1>7, <1>8, <1>9 DEF RunnerInv

-----------------------------------------------------------------------------
(* The checks after the commands and the document *)

\* The results stand for what ran while nothing but the run's checks changes.
LEMMA ResultsKept ==
  ASSUME RunInv, pc \in Inside, UNCHANGED <<manifest, allowed, source, results>>,
         ~ failure' => ~ failure, lease'.state = "held" => lease' = lease
  PROVE  \A k \in 1..Len(results') :
            /\ Ran(results[k], k)'
            /\ ~ failure' => results'[k].execution = Success
            /\ lease'.state = "held" => results'[k].saw = lease'
<1>1. \A k \in 1..Len(results) :
         /\ Ran(results[k], k)
         /\ ~ failure => results[k].execution = Success
         /\ lease.state = "held" => results[k].saw = lease
  BY DEF RunInv
<1>2. \A k \in 1..Len(results) : Ran(results[k], k) => Ran(results[k], k)'
  BY DEF Ran, Launch
<1> QED
  BY <1>1, <1>2

\* The source postcheck keeps the invariant.
LEMMA SourcePostStep ==
  ASSUME RunnerInv, SourcePostcheck
  PROVE  RunnerInv'
<1>0. /\ TypeInv /\ GuardInv /\ RunInv /\ DocumentInv /\ pc = "source postcheck" /\ pc' = "snapshot postcheck"
      /\ outcome' = outcome
      /\ UNCHANGED <<manifest, allowed, source, results, lease, guard, document, receipt, sent>>
  BY DEF RunnerInv, SourcePostcheck, At, Go, request
<1>1. PICK b \in BOOLEAN : checks' = [checks EXCEPT !.source = b] /\ failure' = (failure \/ ~ checks'.source)
  BY DEF SourcePostcheck
<1>2. checks' \in [source : BOOLEAN, snapshot : BOOLEAN] /\ checks'.source = b
  BY <1>0, <1>1 DEF TypeInv
<1>3. failure' \in BOOLEAN /\ (~ failure' => ~ failure /\ checks'.source)
  BY <1>0, <1>1, <1>2 DEF TypeInv
<1>4. receipt = None /\ outcome # "returned"
  BY <1>0 DEF DocumentInv, Ahead
<1>5. TypeInv'
  BY <1>0, <1>2, <1>3 DEF TypeInv, Places
<1>6. GuardInv'
  BY <1>0 DEF GuardInv, Before, Ahead, Inside, Attested
<1>7. RunInv'
  <2>1. pc \in Inside /\ pc \in Admitted
    BY <1>0 DEF Inside, Admitted, Pinned, Places
  <2>2. \A k \in 1..Len(results') :
            /\ Ran(results[k], k)'
            /\ ~ failure' => results'[k].execution = Success
            /\ lease'.state = "held" => results'[k].saw = lease'
    BY <1>0, <1>3, <2>1, ResultsKept
  <2>3. Admissible(source)' /\ ~ allowed'.gpu
    BY <1>0, <2>1 DEF RunInv, Admissible
  <2>4. ~ failure' => Len(results') = Len(manifest')
    BY <1>0, <1>3 DEF RunInv
  <2> QED
    BY <1>0, <1>3, <2>2, <2>3, <2>4 DEF RunInv, Before
<1>8. DocumentInv'
  BY <1>0, <1>4 DEF DocumentInv
<1> QED
  BY <1>5, <1>6, <1>7, <1>8 DEF RunnerInv

\* The snapshot postcheck keeps the invariant: had the lease gone during a command,
\* it would not be held now.
LEMMA SnapshotPostStep ==
  ASSUME RunnerInv, SnapshotPostcheck
  PROVE  RunnerInv'
<1>0. /\ TypeInv /\ GuardInv /\ RunInv /\ DocumentInv /\ pc = "snapshot postcheck" /\ pc' = "document"
      /\ outcome' = outcome
      /\ UNCHANGED <<manifest, allowed, source, results, lease, guard, document, receipt, sent>>
  BY DEF RunnerInv, SnapshotPostcheck, At, Go, request
<1>1. PICK b \in BOOLEAN : b = SnapshotIntact /\ checks' = [checks EXCEPT !.snapshot = b] /\ failure' = (failure \/ ~ b)
  BY DEF SnapshotPostcheck, SnapshotIntact
<1>2. /\ checks' \in [source : BOOLEAN, snapshot : BOOLEAN] /\ checks'.snapshot = b /\ checks'.source = checks.source
  BY <1>0, <1>1 DEF TypeInv
<1>3. failure' \in BOOLEAN /\ (~ failure' => ~ failure /\ b)
  BY <1>0, <1>1 DEF TypeInv
<1>4. receipt = None /\ outcome # "returned"
  BY <1>0 DEF DocumentInv, Ahead
<1>5. TypeInv'
  BY <1>0, <1>2, <1>3 DEF TypeInv, Places
<1>6. GuardInv'
  BY <1>0 DEF GuardInv, Before, Ahead, Inside, Attested
<1>7. RunInv'
  <2>1. pc \in Inside /\ pc \in Admitted
    BY <1>0 DEF Inside, Admitted, Pinned, Places
  <2>2. \A k \in 1..Len(results') :
            /\ Ran(results[k], k)'
            /\ ~ failure' => results'[k].execution = Success
            /\ lease'.state = "held" => results'[k].saw = lease'
    BY <1>0, <1>3, <2>1, ResultsKept
  <2>3. Admissible(source)' /\ ~ allowed'.gpu
    BY <1>0, <2>1 DEF RunInv, Admissible
  <2>4. ~ failure' => Len(results') = Len(manifest') /\ checks'.source /\ checks'.snapshot
    BY <1>0, <1>2, <1>3 DEF RunInv
  <2>5. ~ failure' => AllPassed(results)'
    <3> SUFFICES ASSUME ~ failure' PROVE AllPassed(results)'
      OBVIOUS
    <3>1. lease'.state = "held" /\ lease'.files = Entries[source']
      BY <1>0, <1>1, <1>3 DEF SnapshotIntact
    <3>2. ASSUME NEW k \in 1..Len(results') PROVE Passed(results[k], k)'
      BY <2>2, <3>1 DEF Passed
    <3>3. IsSeq(results)'
      BY <1>5 DEF TypeInv
    <3> QED
      BY <2>4, <3>2, <3>3 DEF AllPassed
  <2> QED
    BY <1>0, <1>3, <2>2, <2>3, <2>4, <2>5 DEF RunInv, Before
<1>8. DocumentInv'
  BY <1>0, <1>4 DEF DocumentInv
<1> QED
  BY <1>5, <1>6, <1>7, <1>8 DEF RunnerInv

\* The receipt document keeps the invariant.
LEMMA DocumentStep ==
  ASSUME RunnerInv, MakeDocument
  PROVE  RunnerInv'
<1>0. /\ TypeInv /\ GuardInv /\ RunInv /\ DocumentInv /\ pc = "document" /\ pc' = "release"
      /\ outcome' = outcome
      /\ UNCHANGED <<manifest, allowed, source, results, failure, checks, lease, guard, receipt, sent>>
  BY DEF RunnerInv, MakeDocument, At, Go, request
<1>1. /\ receipt = None /\ outcome # "returned" /\ guard.attached /\ lease.attested = Attested
      /\ Admissible(source) /\ ~ allowed.gpu
      /\ ~ failure => Len(results) = Len(manifest) /\ checks.source /\ checks.snapshot /\ AllPassed(results)
  BY <1>0 DEF DocumentInv, Ahead, GuardInv, Inside, RunInv, Admitted, Pinned, Places
<1>2. PICK b \in BOOLEAN : b = (~ failure)
  OBVIOUS
<1>3. (~ failure /\ Len(results) = Len(manifest)) = b
  BY <1>0, <1>1, <1>2 DEF TypeInv
<1>4. document' = [passed |-> b, failure |-> failure,
                    source |-> source, files |-> Entries[source], checks |-> checks,
                    network |-> allowed.network, environment |-> SandboxEnvironment(Entries[source]),
                    contract |-> Contract(source, Entries[source], manifest, allowed.network, "lower"),
                    acquired |-> lease.attested, results |-> results,
                    preimage |-> <<>>, cleanup |-> <<>>]
  BY <1>3 DEF MakeDocument, RunContract, StoredHashes
<1>5. TypeInv'
  BY <1>0 DEF TypeInv, Places
<1>6. GuardInv'
  BY <1>0 DEF GuardInv, Before, Ahead, Inside, Attested
<1>7. RunInv'
  <2>1. pc \in Inside
    BY <1>0 DEF Inside
  <2>2. \A k \in 1..Len(results') :
            /\ Ran(results[k], k)'
            /\ ~ failure' => results'[k].execution = Success
            /\ lease'.state = "held" => results'[k].saw = lease'
    BY <1>0, <2>1, ResultsKept
  <2>3. Admissible(source)' /\ ~ allowed'.gpu
    BY <1>0, <1>1 DEF Admissible
  <2> QED
    BY <1>0, <2>2, <2>3 DEF RunInv, Before
<1>8. DocumentInv'
  <2>1. /\ document'.passed = b /\ document'.failure = failure /\ document'.checks = checks
        /\ document'.results = results /\ document'.preimage = <<>> /\ document'.cleanup = <<>>
    BY <1>4
  <2>2. Document(document)'
    BY <1>0, <1>1, <1>4, <2>1 DEF Document, Attested
  <2>4. Sound(document)'
    <3>1. b => ~ failure
      BY <1>2
    <3>2. Admissible(source)' /\ ~ allowed'.gpu
      BY <1>0, <1>1 DEF Admissible
    <3>3. b => AllPassed(document.results)'
      BY <1>0, <1>1, <2>1, <3>1 DEF AllPassed, Passed, Ran, Launch
    <3> QED
      BY <1>1, <2>1, <2>2, <3>1, <3>2, <3>3 DEF Sound
  <2>5. document'.passed <=> ~ failure'
    BY <1>0, <1>2, <2>1
  <2> QED
    BY <1>0, <1>1, <2>4, <2>5 DEF DocumentInv
<1> QED
  BY <1>5, <1>6, <1>7, <1>8 DEF RunnerInv

\* A document of this run, by what varies in it
Paper(p, f, c, r, k, l) ==
    [passed |-> p, failure |-> f, source |-> source, files |-> Entries[source],
     checks |-> c, network |-> allowed.network,
     environment |-> SandboxEnvironment(Entries[source]),
     contract |-> Contract(source, Entries[source], manifest, allowed.network, "lower"),
     acquired |-> Attested, results |-> r, preimage |-> k, cleanup |-> l]

\* The preimage of a document is the document before the broker's statement,
\* whatever that says.
LEMMA PreimageOf ==
  ASSUME NEW p, NEW f, NEW c, NEW r, NEW k, NEW l, NEW d, d = Paper(p, f, c, r, k, l), NEW e, e = Preimage(d)
  PROVE  e = Paper(p, f, c, r, <<>>, <<>>)
BY DEF Paper, Preimage

\* A document with the cleanup statement, and one without that has failed
Stamp(d, q) == [[d EXCEPT !.preimage = q] EXCEPT !.cleanup = q]
Spoil(d, q) == [[d EXCEPT !.preimage = q] EXCEPT !.passed = FALSE, !.failure = TRUE]

\* The fields of a document
LEMMA PaperFields ==
  ASSUME NEW p, NEW f, NEW c, NEW r, NEW k, NEW l, NEW d, d = Paper(p, f, c, r, k, l)
  PROVE  /\ d.passed = p /\ d.failure = f /\ d.checks = c /\ d.results = r /\ d.preimage = k /\ d.cleanup = l
         /\ Document(d)
<1>1. d.passed = p /\ d.failure = f /\ d.checks = c /\ d.results = r /\ d.preimage = k /\ d.cleanup = l
  BY DEF Paper
<1> QED
  BY <1>1 DEF Document, Paper

\* The cleanup statement leaves the preimage as it was.
LEMMA Stamped ==
  ASSUME NEW d, Document(d), NEW q, NEW e, e = Stamp(d, q)
  PROVE  /\ Document(e) /\ e.passed = d.passed /\ e.failure = d.failure /\ e.checks = d.checks
         /\ e.results = d.results /\ e.preimage = q /\ e.cleanup = q /\ Preimage(e) = Preimage(d)
<1>1. PICK p, f, c, r, k, l : d = Paper(p, f, c, r, k, l) /\ p = d.passed /\ f = d.failure /\ c = d.checks /\ r = d.results
  BY DEF Document, Paper
<1>2. d = Paper(p, f, c, r, k, l)
  BY <1>1
<1>3. e = Paper(p, f, c, r, q, q)
  BY <1>2 DEF Paper, Stamp
<1>4. /\ e.passed = p /\ e.failure = f /\ e.checks = c /\ e.results = r /\ e.preimage = q /\ e.cleanup = q
  BY <1>3, PaperFields
<1>5. Document(e)
  BY <1>3, PaperFields
<1>6. PICK x, y : x = Preimage(d) /\ y = Preimage(e)
  OBVIOUS
<1>7. x = Paper(p, f, c, r, <<>>, <<>>)
  BY <1>2, <1>6, PreimageOf
<1>8. y = Paper(p, f, c, r, <<>>, <<>>)
  BY <1>3, <1>6, PreimageOf
<1> QED
  BY <1>1, <1>4, <1>5, <1>6, <1>7, <1>8

\* A document whose release failed is a failed one.
LEMMA Spoiled ==
  ASSUME NEW d, Document(d), NEW q, NEW e, e = Spoil(d, q)
  PROVE  Document(e) /\ e.passed = FALSE
<1>1. PICK p, f, c, r, k, l : d = Paper(p, f, c, r, k, l)
  BY DEF Document, Paper
<1>2. e = Paper(FALSE, TRUE, c, r, q, l)
  BY <1>1 DEF Paper, Spoil
<1>3. PICK a, b : a = FALSE /\ b = TRUE /\ e = Paper(a, b, c, r, q, l)
  BY <1>2
<1>4. e = Paper(a, b, c, r, q, l)
  BY <1>3
<1>5. Document(e) /\ e.passed = a
  BY <1>4, PaperFields
<1> QED
  BY <1>3, <1>5

\* Documents are about the run's commit, files and permissions, none of which changes.
LEMMA SoundKept ==
  ASSUME NEW d, Sound(d), UNCHANGED <<manifest, allowed, source>>
  PROVE  Sound(d)'
<1>1. Document(d)'
  BY DEF Sound, Document, Attested
<1>2. AllPassed(d.results) => AllPassed(d.results)'
  BY DEF AllPassed, Passed, Ran, Launch
<1>3. Admissible(source) => Admissible(source)'
  BY DEF Admissible
<1> QED
  BY <1>1, <1>2, <1>3 DEF Sound

\* The broker's part of a release
LEMMA ReleaseEffect ==
  ASSUME NEW q, TypeInv,
         lease' \in {lease, Cleaned(q)}
  PROVE  /\ lease' = [state |-> lease'.state, files |-> lease'.files, attested |-> lease'.attested, bound |-> lease'.bound]
         /\ lease'.files = lease.files /\ lease'.attested = lease.attested
         /\ lease'.state = "held" => lease' = lease
         /\ lease' = Cleaned(q) => lease'.state = "gone" /\ lease'.bound = q
<1>1. PICK s, f, a, b, l, m : l = lease /\ m = lease' /\ l = [state |-> s, files |-> f, attested |-> a, bound |-> b]
  BY DEF TypeInv
<1>2. l = [state |-> s, files |-> f, attested |-> a, bound |-> b]
  BY <1>1
<1>3. ASSUME m = [l EXCEPT !.state = "gone", !.bound = q] 
      PROVE  m = [state |-> "gone", files |-> f, attested |-> a, bound |-> q]
  BY <1>2, <1>3
<1>4. m = l \/ m = [l EXCEPT !.state = "gone", !.bound = q]
  BY <1>1 DEF Cleaned
<1>5. Cleaned(q) = [l EXCEPT !.state = "gone", !.bound = q]
  BY <1>1 DEF Cleaned
<1>6. CASE m = [l EXCEPT !.state = "gone", !.bound = q]
  <2>1. m = [state |-> "gone", files |-> f, attested |-> a, bound |-> q]
    BY <1>3, <1>6
  <2>2. m.state = "gone" /\ m.files = f /\ m.attested = a /\ m.bound = q
    BY <2>1
  <2> QED
    BY <1>1, <2>1, <2>2
<1>7. CASE m = l /\ m # [l EXCEPT !.state = "gone", !.bound = q]
  BY <1>1, <1>5, <1>7
<1> QED
  BY <1>4, <1>6, <1>7

-----------------------------------------------------------------------------
(* The release *)

\* What becomes of the guard when a release is tried, and when it succeeds
Tried(g, q) == [g EXCEPT !.preimage = <<q>>]
Freed(g, q) == [[g EXCEPT !.preimage = <<q>>] EXCEPT !.released = TRUE]
FreedAtOnce(g, q) == [g EXCEPT !.preimage = <<q>>, !.released = TRUE]

\* The fields after a try
LEMMA TriedGuard ==
  ASSUME NEW g, NEW a, NEW r, NEW p, g = [attached |-> a, released |-> r, preimage |-> p],
         NEW q, NEW h, h = Tried(g, q)
  PROVE  h = [attached |-> a, released |-> r, preimage |-> <<q>>]
BY DEF Tried

\* The fields after a release
LEMMA FreedGuard ==
  ASSUME NEW g, NEW a, NEW r, NEW p, g = [attached |-> a, released |-> r, preimage |-> p],
         NEW q, NEW h, h = Freed(g, q)
  PROVE  h = [attached |-> a, released |-> TRUE, preimage |-> <<q>>]
BY DEF Freed

\* The same, from cleanup_after_abort
LEMMA FreedAtOnceGuard ==
  ASSUME NEW g, NEW a, NEW r, NEW p, g = [attached |-> a, released |-> r, preimage |-> p],
         NEW q, NEW h, h = FreedAtOnce(g, q)
  PROVE  h = [attached |-> a, released |-> TRUE, preimage |-> <<q>>]
BY DEF FreedAtOnce

\* The fields of a guard
LEMMA GuardFields ==
  ASSUME NEW a, NEW r, NEW p, NEW h, h = [attached |-> a, released |-> r, preimage |-> p]
  PROVE  /\ h = [attached |-> h.attached, released |-> h.released, preimage |-> h.preimage]
         /\ h.attached = a /\ h.released = r /\ h.preimage = p
OBVIOUS

\* The guard after a release request names its preimage.
LEMMA GuardAfter ==
  ASSUME NEW q, TypeInv, guard' \in {Tried(guard, q), Freed(guard, q), FreedAtOnce(guard, q)}
  PROVE  /\ guard' = [attached |-> guard'.attached, released |-> guard'.released, preimage |-> guard'.preimage]
         /\ guard'.attached = guard.attached /\ guard'.preimage = <<q>> /\ guard'.released \in {TRUE, guard.released}
         /\ guard' = Tried(guard, q) => guard'.released = guard.released
         /\ guard' \in {Freed(guard, q), FreedAtOnce(guard, q)} => guard'.released = TRUE
<1>1. PICK g, h, a, r, p : g = guard /\ h = guard' /\ g = [attached |-> a, released |-> r, preimage |-> p]
                           /\ a = guard.attached /\ r = guard.released
  BY DEF TypeInv
<1>2. g = [attached |-> a, released |-> r, preimage |-> p]
  BY <1>1
<1>3. CASE h = Tried(g, q)
  <2>1. h = [attached |-> a, released |-> r, preimage |-> <<q>>]
    BY <1>2, <1>3, TriedGuard
  <2>2. /\ h = [attached |-> h.attached, released |-> h.released, preimage |-> h.preimage]
        /\ h.attached = a /\ h.released = r /\ h.preimage = <<q>>
    BY <2>1, GuardFields
  <2>3. h \in {Freed(g, q), FreedAtOnce(g, q)} => r = TRUE
    <3>1. ASSUME h \in {Freed(g, q), FreedAtOnce(g, q)} PROVE h = [attached |-> a, released |-> TRUE, preimage |-> <<q>>]
      BY <1>2, <3>1, FreedGuard, FreedAtOnceGuard
    <3>2. ASSUME h = [attached |-> a, released |-> TRUE, preimage |-> <<q>>] PROVE h.released = TRUE
      BY <3>2
    <3> QED
      BY <2>2, <3>1, <3>2
  <2> QED
    BY <1>1, <2>2, <2>3
<1>4. CASE h \in {Freed(g, q), FreedAtOnce(g, q)} /\ h # Tried(g, q)
  <2>1. h = [attached |-> a, released |-> TRUE, preimage |-> <<q>>]
    BY <1>2, <1>4, FreedGuard, FreedAtOnceGuard
  <2>2. PICK t : t = TRUE
    OBVIOUS
  <2>3. h = [attached |-> a, released |-> t, preimage |-> <<q>>]
    BY <2>1, <2>2
  <2>4. /\ h = [attached |-> h.attached, released |-> h.released, preimage |-> h.preimage]
        /\ h.attached = a /\ h.released = t /\ h.preimage = <<q>>
    BY <2>3, GuardFields
  <2> QED
    BY <1>1, <1>4, <2>2, <2>4
<1> QED
  BY <1>1, <1>3, <1>4

\* _BrokerLeaseGuard.release keeps the invariant: only an answer lets the document
\* stay passed.
LEMMA ReleaseStep ==
  ASSUME RunnerInv, ReleaseLease
  PROVE  RunnerInv'
<1>0. /\ TypeInv /\ GuardInv /\ RunInv /\ DocumentInv /\ pc = "release"
      /\ UNCHANGED <<manifest, allowed, source, results, checks, receipt>>
  BY DEF RunnerInv, ReleaseLease, At, request
<1>1. PICK d, q : d = document /\ q = Preimage(d) /\ Sound(d) /\ Document(d) /\ (d.passed <=> ~ failure)
  BY <1>0 DEF DocumentInv, Sound
<1>2. /\ guard.preimage = <<>> /\ sent = {} /\ ~ guard.released /\ guard.attached /\ receipt = None /\ outcome # "returned"
      /\ lease.files = Entries[source] /\ lease.attested = Attested /\ Admissible(source) /\ ~ allowed.gpu
  BY <1>0 DEF GuardInv, DocumentInv, RunInv, Ahead, Inside, Admitted, Pinned, Places
<1>3. /\ sent' = {q} /\ lease' \in {lease, Cleaned(q)}
      /\ \/ /\ lease' = Cleaned(q) /\ guard' = Freed(guard, q)
            /\ document' = Stamp(d, <<q>>) /\ pc' = "write" /\ outcome' = outcome /\ failure' = failure
         \/ /\ guard' = Tried(guard, q)
            /\ document' = Spoil(d, <<q>>) /\ failure' = TRUE /\ pc' = "write" /\ outcome' = outcome
         \/ /\ guard' = Tried(guard, q)
            /\ pc' = "cleanup" /\ outcome' = "raised" /\ failure' = failure
  BY <1>1, <1>2 DEF ReleaseLease, Release, Go, Raise, Freed, Tried, Stamp, Spoil
<1>4. /\ guard' = [attached |-> guard'.attached, released |-> guard'.released, preimage |-> guard'.preimage]
      /\ guard'.attached = guard.attached /\ guard'.preimage = <<q>> /\ guard'.released \in {TRUE, guard.released}
      /\ guard' = Tried(guard, q) => guard'.released = guard.released
      /\ guard' = Freed(guard, q) => guard'.released = TRUE
  BY <1>0, <1>2, <1>3, GuardAfter
<1>5. /\ lease' = [state |-> lease'.state, files |-> lease'.files, attested |-> lease'.attested, bound |-> lease'.bound]
      /\ lease'.files = lease.files /\ lease'.attested = lease.attested
      /\ lease'.state = "held" => lease' = lease
      /\ lease' = Cleaned(q) => lease'.state = "gone" /\ lease'.bound = q
  BY <1>0, <1>3, ReleaseEffect
<1>6. /\ pc' \in {"write", "cleanup"} /\ outcome' \in {outcome, "raised"} /\ failure' \in BOOLEAN /\ (~ failure' => ~ failure)
      /\ guard'.released \in BOOLEAN /\ guard'.attached \in BOOLEAN
      /\ guard'.released => lease'.state = "gone" /\ lease'.bound = q
  <2>1. pc' \in {"write", "cleanup"} /\ outcome' \in {outcome, "raised"} /\ (failure' = failure \/ failure' = TRUE)
    BY <1>3
  <2>2. guard'.released => lease' = Cleaned(q)
    BY <1>2, <1>3, <1>4
  <2>3. failure' \in BOOLEAN /\ (~ failure' => ~ failure)
    <3>1. failure \in BOOLEAN
      BY <1>0 DEF TypeInv
    <3>2. CASE failure' = failure
      BY <3>1, <3>2
    <3>3. CASE failure' = TRUE
      BY <3>3
    <3> QED
      BY <2>1, <3>2, <3>3
  <2>4. guard'.released \in BOOLEAN /\ guard'.attached \in BOOLEAN
    BY <1>0, <1>4 DEF TypeInv
  <2> QED
    BY <1>5, <2>1, <2>2, <2>3, <2>4
<1>7. TypeInv'
  BY <1>0, <1>4, <1>5, <1>6 DEF TypeInv, Places
<1>8. GuardInv'
  <2>1. guard'.preimage # <<>> /\ Head(guard'.preimage) = q
    BY <1>4
  <2>2. lease'.files = Entries[source'] /\ lease'.attested = Attested'
    BY <1>0, <1>2, <1>5 DEF Attested
  <2> QED
    BY <1>2, <1>3, <1>4, <1>6, <2>1, <2>2 DEF GuardInv, Before, Ahead
<1>9. RunInv'
  <2>1. pc \in Inside
    BY <1>0 DEF Inside
  <2>2. \A k \in 1..Len(results') :
            /\ Ran(results[k], k)'
            /\ ~ failure' => results'[k].execution = Success
            /\ lease'.state = "held" => results'[k].saw = lease'
    BY <1>0, <1>5, <1>6, <2>1, ResultsKept
  <2>3. Admissible(source)' /\ ~ allowed'.gpu
    BY <1>0, <1>2 DEF Admissible
  <2> QED
    BY <1>6, <2>2, <2>3 DEF RunInv, Before
<1>10. DocumentInv'
  <2>1. receipt' = None /\ outcome' # "returned"
    BY <1>0, <1>2, <1>6
  <2>2. CASE pc' = "cleanup"
    BY <2>1, <2>2 DEF DocumentInv, Ahead, Before
  <2>3. CASE document' = Stamp(d, <<q>>) /\ guard' = Freed(guard, q) /\ failure' = failure /\ pc' = "write"
    <3>1. PICK e : e = document' /\ e = Stamp(d, <<q>>)
      BY <2>3
    <3>2. /\ Document(e) /\ e.passed = d.passed /\ e.failure = d.failure /\ e.checks = d.checks
          /\ e.results = d.results /\ e.preimage = <<q>> /\ e.cleanup = <<q>> /\ Preimage(e) = Preimage(d)
      BY <1>1, <3>1, Stamped
    <3>3. Sound(e)
      BY <1>1, <3>2 DEF Sound
    <3>4. Sound(e)'
      BY <1>0, <3>3, SoundKept
    <3>5. Sound(document)'
      BY <3>1, <3>4 DEF Sound, Document, AllPassed, Passed, Ran, Launch, Admissible, Attested
    <3>6. document'.passed <=> ~ failure'
      BY <1>1, <2>3, <3>1, <3>2
    <3>7. Settled(document)'
      <4>1. Preimage(document)' = q
        BY <1>1, <3>1, <3>2 DEF Preimage
      <4> QED
        BY <1>4, <2>3, <3>1, <3>2, <4>1 DEF Settled
    <3> QED
      BY <2>1, <2>3, <3>5, <3>6, <3>7 DEF DocumentInv
  <2>4. CASE document' = Spoil(d, <<q>>) /\ failure' = TRUE /\ pc' = "write"
    <3>1. PICK e : e = document' /\ e = Spoil(d, <<q>>)
      BY <2>4
    <3>2. Document(e) /\ e.passed = FALSE
      BY <1>1, <3>1, Spoiled
    <3>3. Sound(e)
      BY <3>2 DEF Sound
    <3>4. Sound(e)'
      BY <1>0, <3>3, SoundKept
    <3>5. Sound(document)'
      BY <3>1, <3>4 DEF Sound, Document, AllPassed, Passed, Ran, Launch, Admissible, Attested
    <3>6. (document'.passed <=> ~ failure') /\ Settled(document)'
      BY <2>4, <3>1, <3>2 DEF Settled
    <3> QED
      BY <2>1, <2>4, <3>5, <3>6 DEF DocumentInv
  <2> QED
    BY <1>3, <2>2, <2>3, <2>4
<1> QED
  BY <1>7, <1>8, <1>9, <1>10 DEF RunnerInv

-----------------------------------------------------------------------------
(* The end of the run *)

\* The write of receipt.json keeps the invariant.
LEMMA WriteStep ==
  ASSUME RunnerInv, WriteReceipt
  PROVE  RunnerInv'
<1>0. /\ TypeInv /\ GuardInv /\ RunInv /\ DocumentInv /\ pc = "write"
      /\ UNCHANGED <<manifest, allowed, source, lease, guard, results, failure, checks, document, sent>>
      /\ \/ receipt' = document /\ pc' = "return" /\ outcome' = outcome
         \/ receipt' \in {receipt, document} /\ pc' = "cleanup" /\ outcome' = "raised"
  BY DEF RunnerInv, WriteReceipt, At, request, Go, Raise
<1>1. /\ receipt = None /\ outcome # "returned" /\ Sound(document) /\ Settled(document) /\ (document.passed <=> ~ failure)
  BY <1>0 DEF DocumentInv
<1>2. PICK d : d = document
  OBVIOUS
<1>3. Sound(d)' /\ Settled(d)'
  <2>1. Sound(d)'
    BY <1>0, <1>1, <1>2, SoundKept
  <2> QED
    BY <1>0, <1>1, <1>2, <2>1 DEF Settled
<1>4. TypeInv'
  BY <1>0 DEF TypeInv, Places
<1>5. GuardInv'
  BY <1>0 DEF GuardInv, Before, Ahead, Inside, Attested
<1>6. RunInv'
  <2>1. pc \in Inside /\ pc \in Admitted
    BY <1>0 DEF Inside, Admitted, Pinned, Places
  <2>2. \A k \in 1..Len(results') :
            /\ Ran(results[k], k)'
            /\ ~ failure' => results'[k].execution = Success
            /\ lease'.state = "held" => results'[k].saw = lease'
    BY <1>0, <2>1, ResultsKept
  <2>3. Admissible(source)' /\ ~ allowed'.gpu
    BY <1>0, <2>1 DEF RunInv, Admissible
  <2> QED
    BY <1>0, <2>2, <2>3 DEF RunInv, Before
<1>7. DocumentInv'
  <2>1. document' = d /\ receipt' \in {None, d} /\ (pc' = "return" => receipt' = document') /\ pc' \in {"return", "cleanup"}
        /\ outcome' # "returned" /\ (document'.passed <=> ~ failure')
    BY <1>0, <1>1, <1>2
  <2>2. Sound(document)' /\ Settled(document)'
    BY <1>3, <2>1 DEF Sound, Settled, Preimage, Document, AllPassed, Passed, Ran, Launch, Admissible, Attested
  <2>3. receipt' # None => Sound(receipt)' /\ Settled(receipt)'
    BY <1>3, <2>1 DEF Sound, Settled, Preimage, Document, AllPassed, Passed, Ran, Launch, Admissible, Attested
  <2> QED
    BY <2>1, <2>2, <2>3 DEF DocumentInv, Ahead, Before
<1> QED
  BY <1>4, <1>5, <1>6, <1>7 DEF RunnerInv

\* The return keeps the invariant.
LEMMA ReturnStep ==
  ASSUME RunnerInv, Return
  PROVE  RunnerInv'
<1>0. /\ TypeInv /\ GuardInv /\ RunInv /\ DocumentInv /\ pc = "return" /\ pc' = "cleanup"
      /\ UNCHANGED <<manifest, allowed, source, lease, guard, results, failure, checks, document, receipt, sent>>
      /\ outcome' = IF failure THEN "raised" ELSE "returned"
  BY DEF RunnerInv, Return, At, request
<1>1. /\ outcome # "returned" /\ Sound(receipt) /\ Settled(receipt) /\ (receipt.passed <=> ~ failure)
  BY <1>0 DEF DocumentInv
<1>2. PICK d : d = receipt
  OBVIOUS
<1>3. Sound(d)'
  BY <1>0, <1>1, <1>2, SoundKept
<1>4. Sound(receipt)' /\ Settled(receipt)'
  <2>1. receipt' = d
    BY <1>0, <1>2
  <2>2. Sound(receipt)'
    BY <1>3, <2>1 DEF Sound, Document, AllPassed, Passed, Ran, Launch, Admissible, Attested
  <2> QED
    BY <1>0, <1>1, <2>2 DEF Settled, Preimage
<1>5. TypeInv'
  BY <1>0 DEF TypeInv, Places
<1>6. GuardInv'
  BY <1>0 DEF GuardInv, Before, Ahead, Inside, Attested
<1>7. RunInv'
  BY <1>0 DEF RunInv, Before, Inside, Admitted, Pinned
<1>8. DocumentInv'
  BY <1>0, <1>1, <1>4 DEF DocumentInv, Ahead, Before
<1> QED
  BY <1>5, <1>6, <1>7, <1>8 DEF RunnerInv

\* cleanup_after_abort keeps the invariant: it repeats the preimage already sent.
LEMMA CleanupStep ==
  ASSUME RunnerInv, CleanupAfterAbort
  PROVE  RunnerInv'
<1>0. /\ TypeInv /\ GuardInv /\ RunInv /\ DocumentInv /\ pc = "cleanup" /\ pc' = "ended"
      /\ UNCHANGED <<manifest, allowed, source, results, failure, checks, document, receipt, outcome>>
  BY DEF RunnerInv, CleanupAfterAbort, At, request, run
<1>1. RunInv'
  BY <1>0 DEF RunInv, Before, Inside, Admitted, Pinned
<1>2. CASE (guard.attached => guard.released) /\ UNCHANGED <<lease, guard, sent>>
  <2>1. TypeInv'
    BY <1>0, <1>2 DEF TypeInv, Places
  <2>2. GuardInv'
    BY <1>0, <1>2 DEF GuardInv, Before, Ahead, Inside, Attested
  <2>3. DocumentInv'
    BY <1>0, <1>2 DEF DocumentInv, Ahead, Before, Sound, Settled, Preimage, Document, AllPassed, Passed, Ran, Launch, Admissible, Attested
  <2> QED
    BY <1>1, <2>1, <2>2, <2>3 DEF RunnerInv
<1>3. CASE ~ ((guard.attached => guard.released) /\ UNCHANGED <<lease, guard, sent>>)
  <2>1. PICK q : q = AbortPreimage
    OBVIOUS
  <2>2. /\ guard.attached /\ ~ guard.released /\ sent' = sent \union {q} /\ lease' \in {lease, Cleaned(q)}
        /\ \/ lease' = Cleaned(q) /\ guard' = FreedAtOnce(guard, q)
           \/ guard' = Tried(guard, q)
    BY <1>3, <2>1 DEF CleanupAfterAbort, Release, FreedAtOnce, Tried
  <2>3. sent' = {q}
    BY <1>0, <2>1, <2>2 DEF GuardInv, AbortPreimage
  <2>4. /\ guard' = [attached |-> guard'.attached, released |-> guard'.released, preimage |-> guard'.preimage]
        /\ guard'.attached = guard.attached /\ guard'.preimage = <<q>> /\ guard'.released \in {TRUE, guard.released}
        /\ guard' = Tried(guard, q) => guard'.released = guard.released
    BY <1>0, <2>2, GuardAfter
  <2>5. /\ lease' = [state |-> lease'.state, files |-> lease'.files, attested |-> lease'.attested, bound |-> lease'.bound]
        /\ lease'.files = lease.files /\ lease'.attested = lease.attested
        /\ lease' = Cleaned(q) => lease'.state = "gone" /\ lease'.bound = q
    BY <1>0, <2>2, ReleaseEffect
  <2>6. guard'.released => lease'.state = "gone" /\ lease'.bound = q
    BY <2>2, <2>4, <2>5
  <2>7. TypeInv'
    <3>1. guard'.released \in BOOLEAN /\ guard'.attached \in BOOLEAN
      BY <1>0, <2>4 DEF TypeInv
    <3> QED
      BY <1>0, <2>4, <2>5, <3>1 DEF TypeInv, Places
  <2>8. GuardInv'
    <3>1. guard'.preimage # <<>> /\ Head(guard'.preimage) = q
      BY <2>4
    <3>2. lease.files = Entries[source] /\ lease.attested = Attested
      BY <1>0, <2>2 DEF GuardInv
    <3>3. lease'.files = Entries[source'] /\ lease'.attested = Attested'
      BY <1>0, <2>5, <3>2 DEF Attested
    <3> QED
      BY <1>0, <2>2, <2>3, <2>4, <2>6, <3>1, <3>3 DEF GuardInv, Before, Ahead, Inside
  <2>9. DocumentInv'
    <3>1. (receipt # None => Sound(receipt) /\ ~ receipt.passed) /\ outcome # "returned"
      BY <1>0, <2>2 DEF DocumentInv, Settled
    <3>2. PICK d : d = receipt
      OBVIOUS
    <3>3. receipt # None => Sound(d)'
      BY <1>0, <3>1, <3>2, SoundKept
    <3>4. receipt' # None => Sound(receipt)' /\ Settled(receipt)'
      BY <1>0, <3>1, <3>2, <3>3 DEF Sound, Settled, Document, AllPassed, Passed, Ran, Launch, Admissible, Attested
    <3> QED
      BY <1>0, <3>1, <3>4 DEF DocumentInv, Ahead, Before
  <2> QED
    BY <1>1, <2>7, <2>8, <2>9 DEF RunnerInv
<1> QED
  BY <1>2, <1>3

\* An expired lease keeps the invariant.
LEMMA ExpireStep ==
  ASSUME RunnerInv, ExpireLease
  PROVE  RunnerInv'
<1>0. /\ TypeInv /\ GuardInv /\ RunInv /\ DocumentInv /\ lease.state = "held"
      /\ lease' = [lease EXCEPT !.state = "gone"]
      /\ UNCHANGED <<manifest, allowed, source, guard, pc, outcome, results, failure, checks, document, receipt, sent>>
  BY DEF RunnerInv, ExpireLease, request, run
<1>1. /\ lease' = [state |-> "gone", files |-> lease.files, attested |-> lease.attested, bound |-> lease.bound]
      /\ ~ guard.released
  BY <1>0 DEF TypeInv, GuardInv
<1>2. lease'.state = "gone" /\ lease'.files = lease.files /\ lease'.attested = lease.attested
  BY <1>1
<1>3. TypeInv'
  <2>1. lease' = [state |-> lease'.state, files |-> lease'.files, attested |-> lease'.attested, bound |-> lease'.bound]
    BY <1>1
  <2> QED
    BY <1>0, <2>1 DEF TypeInv
<1>4. GuardInv'
  BY <1>0, <1>1, <1>2 DEF GuardInv, Attested
<1>5. RunInv'
  <2>1. pc \in Inside => \A k \in 1..Len(results') :
            /\ Ran(results[k], k)'
            /\ ~ failure' => results'[k].execution = Success
            /\ lease'.state = "held" => results'[k].saw = lease'
    BY <1>0, <1>2, ResultsKept
  <2>2. AllPassed(results) => AllPassed(results)'
    BY <1>0 DEF AllPassed, Passed, Ran, Launch
  <2>3. Admissible(source) => Admissible(source)'
    BY <1>0 DEF Admissible
  <2> QED
    BY <1>0, <2>1, <2>2, <2>3 DEF RunInv
<1>6. DocumentInv'
  BY <1>0 DEF DocumentInv, Sound, Settled, Preimage, Document, AllPassed, Passed, Ran, Launch, Admissible, Attested
<1> QED
  BY <1>3, <1>4, <1>5, <1>6 DEF RunnerInv

-----------------------------------------------------------------------------
(* The whole run *)

\* Nothing of the run changes.
LEMMA RunnerFrame ==
  ASSUME RunnerInv,
         UNCHANGED <<manifest, allowed, source, lease, guard, results, failure, checks, document, receipt, sent, pc, outcome>>
  PROVE  RunnerInv'
BY MoveStep DEF Kept, Moves

\* Every step of the run and of the world around it keeps the invariant.
LEMMA RunnerNext ==
  ASSUME RunnerInv, Next
  PROVE  RunnerInv'
BY SourceStep, QuietStep, AcquireStep, RunStepInv, SourcePostStep, SnapshotPostStep, DocumentStep, ReleaseStep,
   WriteStep, ReturnStep, CleanupStep, ExpireStep DEF Next

\* HEAD names a commit, and so does what was pinned.
LEMMA HeadNext ==
  ASSUME HeadInv, Next
  PROVE  HeadInv'
<1>1. CASE SourceState
  BY <1>1 DEF HeadInv, SourceState, repository
<1>2. CASE EditRepository
  BY <1>2 DEF HeadInv, EditRepository, run
<1>3. CASE ~ SourceState /\ ~ EditRepository
  <2>1. source' = source /\ head' = head /\ (pc' = "source" => pc = "source") /\ (pc = "source" => pc' \in {"source", "dead"})
        /\ (pc = "dead" => pc' = "dead")
    <3>1. CASE RequireIsolation \/ MaterializeCommittedSnapshot \/ AcquireLease \/ RemoveCallerSource
      BY <3>1 DEF RequireIsolation, MaterializeCommittedSnapshot, AcquireLease, RemoveCallerSource, At, GoOrRaise, Go, Raise, repository
    <3>2. CASE Precheck \/ ValidateCommands \/ SourcePostcheck \/ SnapshotPostcheck \/ MakeDocument
      BY <3>2 DEF Precheck, ValidateCommands, SourcePostcheck, SnapshotPostcheck, MakeDocument, At, GoOrRaise, Go, Raise, repository
    <3>3. CASE RunValidation
      BY <3>3 DEF RunValidation, At, Go, repository
    <3>4. CASE ReleaseLease \/ WriteReceipt \/ Return
      BY <3>4 DEF ReleaseLease, Release, WriteReceipt, Return, At, Go, Raise, repository
    <3>5. CASE CleanupAfterAbort \/ ChangeCallerSource \/ ExpireLease \/ Die
      BY <3>5 DEF CleanupAfterAbort, ChangeCallerSource, ExpireLease, Die, At, run, repository
    <3> QED
      BY <1>3, <3>1, <3>2, <3>3, <3>4, <3>5 DEF Next
  <2> QED
    BY <2>1 DEF HeadInv
<1> QED
  BY <1>1, <1>2, <1>3

\* A run begins in the invariant.
LEMMA RunnerInit ==
  ASSUME Init
  PROVE  RunnerInv /\ HeadInv
<1>1. PICK c \in Cases : manifest = c.manifest /\ head = c.head
  BY DEF Init
<1>2. /\ IsSeq(manifest) /\ manifest # <<>> /\ head \in Commits
  <2>1. manifest \in Seq(Seq(STRING) \ {<<>>}) /\ manifest # <<>> /\ head \in Commits
    BY <1>1, ConstantsAssumption
  <2>2. Len(manifest) \in Nat /\ manifest \in [1..Len(manifest) -> ToSet(manifest)]
    BY <2>1 DEF ToSet
  <2>3. manifest \in Seq(ToSet(manifest))
    BY <2>2
  <2> QED
    BY <2>1, <2>3 DEF IsSeq
<1>3. /\ lease = [state |-> "none", files |-> {}, attested |-> None, bound |-> None]
      /\ guard = [attached |-> FALSE, released |-> FALSE, preimage |-> <<>>]
      /\ pc = "source" /\ results = <<>> /\ failure = FALSE /\ checks = [source |-> FALSE, snapshot |-> FALSE]
      /\ receipt = None /\ outcome = "running" /\ sent = {}
  BY DEF Init
<1>4. guard.attached = FALSE /\ guard.released = FALSE /\ guard.preimage = <<>>
  BY <1>3
<1>5. TypeInv
  <2>1. IsSeq(results) /\ Len(results) = 0
    BY <1>3 DEF IsSeq
  <2>2. Len(manifest) \in Nat /\ Len(manifest) # 0
    BY <1>2 DEF IsSeq
  <2>3. lease = [state |-> lease.state, files |-> lease.files, attested |-> lease.attested, bound |-> lease.bound]
    BY <1>3
  <2>4. guard = [attached |-> guard.attached, released |-> guard.released, preimage |-> guard.preimage]
    BY <1>3
  <2>5. checks \in [source : BOOLEAN, snapshot : BOOLEAN]
    BY <1>3
  <2>6. Len(manifest) > 0 /\ Len(results) <= Len(manifest)
    BY <2>1, <2>2
  <2>7. failure \in BOOLEAN /\ guard.attached \in BOOLEAN /\ guard.released \in BOOLEAN
    BY <1>3, <1>4
  <2> QED
    BY <1>2, <1>3, <2>1, <2>3, <2>4, <2>5, <2>6, <2>7 DEF TypeInv, Places
<1>6. GuardInv
  BY <1>3, <1>4 DEF GuardInv, Inside
<1>7. RunInv
  BY <1>3 DEF RunInv, Admitted, Pinned, Inside
<1>8. DocumentInv
  BY <1>3 DEF DocumentInv
<1>9. HeadInv
  BY <1>2, <1>3 DEF HeadInv
<1> QED
  BY <1>5, <1>6, <1>7, <1>8, <1>9 DEF RunnerInv

-----------------------------------------------------------------------------
(* verify *)

\* The files of a bundle
LEMMA SourceNames ==
  SourceSet = {"manifest", "artifact", "receipt", "output"} /\ Len(Sources) = 4
  /\ Sources[1] = "manifest" /\ Sources[2] = "artifact" /\ Sources[3] = "receipt" /\ Sources[4] = "output"
BY DEF SourceSet, Sources, ToSet

\* The invariant of a verified run
AllInv == RunnerInv /\ HeadInv /\ VerifyInv

\* The run and the repository stand still.
Same == UNCHANGED <<manifest, allowed, declared, head, source, lease, guard, results, failure, checks, document, receipt, sent, pc, outcome>>

\* The steps of verify outside the run leave it alone.
LEMMA SameKeeps ==
  ASSUME RunnerInv, HeadInv, Same
  PROVE  RunnerInv' /\ HeadInv'
<1>1. RunnerInv'
  BY RunnerFrame DEF Same
<1> QED
  BY <1>1 DEF HeadInv, Same

\* verify begins in the invariant.
LEMMA VerifyStart ==
  ASSUME VerifyInit
  PROVE  AllInv
<1>1. RunnerInv /\ HeadInv
  BY RunnerInit DEF VerifyInit
<1>2. VerifyInv
  BY SourceNames DEF VerifyInit, VerifyInv
<1> QED
  BY <1>1, <1>2 DEF AllInv

\* A step of verify goes on or closes the run as failed.
LEMMA StageEffect ==
  ASSUME NEW from, NEW to, Stage(from, to)
  PROVE  stage = from /\ stage' \in {to, "failed"} /\ Same
BY DEF Stage, Same, vars, request, repository, run

\* Every step of verify, and every edit, keeps the invariant.
LEMMA VerifyStep ==
  ASSUME AllInv, VerifyNext
  PROVE  AllInv'
<1>0. RunnerInv /\ HeadInv /\ VerifyInv
  BY DEF AllInv
<1>1. CASE RunStep
  <2>1. RunnerInv' /\ HeadInv'
    BY <1>0, <1>1, RunnerNext, HeadNext DEF RunStep
  <2>2. VerifyInv'
    BY <1>0, <1>1 DEF RunStep, evidence, VerifyInv
  <2> QED
    BY <2>1, <2>2 DEF AllInv
<1>2. CASE ValidateManifest
  <2>1. Same /\ stage' \in {"run", "refused"} /\ stage = "manifest" /\ UNCHANGED <<copied, archive, bundle, verdict>>
    BY <1>2 DEF ValidateManifest, Same, vars, request, repository, run
  <2>2. VerifyInv'
    BY <1>0, <2>1 DEF VerifyInv
  <2> QED
    BY <1>0, <2>1, <2>2, SameKeeps DEF AllInv
<1>3. CASE Returned
  <2>1. Same /\ UNCHANGED <<copied, archive, bundle, verdict>> /\ stage = "run"
        /\ (stage' = "failed" \/ (stage' = "attest" /\ pc = "ended" /\ outcome = "returned"))
    BY <1>3 DEF Returned, At, Same, vars, request, repository, run
  <2>2. VerifyInv'
    BY <1>0, <2>1 DEF VerifyInv, Same
  <2> QED
    BY <1>0, <2>1, <2>2, SameKeeps DEF AllInv
<1>4. CASE Attest
  <2>1. Same /\ UNCHANGED <<copied, archive, bundle, verdict>> /\ stage = "attest" /\ stage' \in {"archive", "failed"}
    BY <1>4, StageEffect DEF Attest
  <2>2. VerifyInv'
    BY <1>0, <2>1 DEF VerifyInv, Same
  <2> QED
    BY <1>0, <2>1, <2>2, SameKeeps DEF AllInv
<1>5. CASE ArchiveFile
  <2>1. PICK f : /\ f = Sources[copied + 1] /\ Same /\ stage = "archive" /\ copied < 4 /\ copied' = copied + 1
                 /\ UNCHANGED <<edited, bundle, verdict>>
                 /\ \/ ~ Retains(f) /\ stage' = stage /\ archive' = archive
                    \/ Retains(f) /\ archive' = [archive EXCEPT ![f] = "hashed"] /\ stage' = stage
                    \/ stage' = "failed" /\ archive' = archive
    BY <1>5, SourceNames DEF ArchiveFile, CopyVerified, CopyContent, Same, vars, request, repository, run
  <2>2. copied \in 0..3 /\ f \in SourceSet /\ copied' \in 0..4
    BY <1>0, <2>1, SourceNames DEF VerifyInv
  <2>3. ASSUME stage' = "archive", NEW i \in 1..copied' PROVE Archived(Sources[i])'
    <3>1. CASE i = copied + 1
      BY <1>0, <2>1, <2>2, <2>3, <3>1, SourceNames DEF Archived, Retains, VerifyInv, Same
    <3>2. CASE i # copied + 1
      <4>1. i \in 1..copied
        BY <2>1, <2>2, <3>2
      <4>2. Archived(Sources[i])
        BY <1>0, <2>1, <4>1 DEF VerifyInv
      <4>3. PICK g \in SourceSet : g = Sources[i] /\ g = Sources[i]' /\ Archived(g)
        BY <2>2, <4>1, <4>2, SourceNames DEF Sources
      <4>4. archive'[g] \in {archive[g], "hashed"}
        BY <1>0, <2>1, <2>2, <4>3, SourceNames DEF VerifyInv
      <4>5. Archived(g)'
        BY <2>1, <4>3, <4>4 DEF Archived, Retains, Same
      <4> QED
        BY <4>3, <4>5 DEF Archived, Retains
    <3> QED
      BY <3>1, <3>2
  <2>4. VerifyInv'
    <3>1. DOMAIN archive' = {"manifest", "artifact", "receipt", "output"}
      BY <1>0, <2>1 DEF VerifyInv
    <3>2. stage' \in {"archive", "failed"} /\ verdict' = None /\ (stage' = "archive" => pc' = "ended" /\ outcome' = "returned")
      BY <1>0, <2>1 DEF VerifyInv, Same
    <3> QED
      BY <2>2, <2>3, <3>1, <3>2 DEF VerifyInv
  <2> QED
    BY <1>0, <2>1, <2>4, SameKeeps DEF AllInv
<1>6. CASE WriteBundle
  <2>1. /\ Same /\ UNCHANGED <<copied, archive, verdict>> /\ stage = "archive" /\ stage' \in {"sign", "failed"} /\ copied = 4
        /\ stage' = "sign" => bundle' = {f \in SourceSet : Retains(f)}
    BY <1>6, StageEffect, SourceNames DEF WriteBundle
  <2>2. \A f \in SourceSet : Archived(f)
    BY <1>0, <2>1, SourceNames DEF VerifyInv
  <2>3. \A f : (Retains(f)' <=> Retains(f)) /\ (Archived(f) => Archived(f)')
    BY <2>1 DEF Retains, Archived, Same
  <2>4. stage' = "sign" => bundle' = {f \in SourceSet : Retains(f)'} /\ \A f \in SourceSet : Archived(f)'
    BY <2>1, <2>2, <2>3
  <2>5. VerifyInv'
    BY <1>0, <2>1, <2>4 DEF VerifyInv, Same, SourceSet, Sources
  <2> QED
    BY <1>0, <2>1, <2>5, SameKeeps DEF AllInv
<1>7. CASE Sign
  <2>1. /\ Same /\ UNCHANGED <<copied, archive, bundle>> /\ stage = "sign" /\ stage' \in {"signed", "failed"}
        /\ verdict' = IF stage' = "signed" THEN receipt ELSE verdict
    BY <1>7, StageEffect DEF Sign
  <2>2. verdict = None
    BY <1>0, <2>1 DEF VerifyInv
  <2>3. VerifyInv'
    BY <1>0, <2>1, <2>2 DEF VerifyInv, Same, Archived, Retains, SourceSet, Sources
  <2> QED
    BY <1>0, <2>1, <2>3, SameKeeps DEF AllInv
<1>8. CASE EditEvidence
  <2>1. Same /\ UNCHANGED <<stage, copied, archive, bundle, verdict>>
    BY <1>8 DEF EditEvidence, Same, request, repository, run
  <2>2. VerifyInv'
    BY <1>0, <2>1 DEF VerifyInv, Same, Archived, Retains, SourceSet, Sources
  <2> QED
    BY <1>0, <2>1, <2>2, SameKeeps DEF AllInv
<1>9. CASE EditArchive
  <2>1. Same /\ UNCHANGED <<stage, copied, bundle, verdict>>
        /\ \E f \in SourceSet : archive' = [archive EXCEPT ![f] = "tampered"]
    BY <1>9 DEF EditArchive, Same, request, repository, run
  <2>2. \A f : (Retains(f)' <=> Retains(f)) /\ (Archived(f) => Archived(f)')
    BY <1>0, <2>1, SourceNames DEF Retains, Archived, Same, VerifyInv
  <2>3. DOMAIN archive' = {"manifest", "artifact", "receipt", "output"}
    BY <1>0, <2>1 DEF VerifyInv
  <2>4. VerifyInv'
    BY <1>0, <2>1, <2>2, <2>3 DEF VerifyInv, Same, SourceSet, Sources
  <2> QED
    BY <1>0, <2>1, <2>4, SameKeeps DEF AllInv
<1> QED
  BY <1>1, <1>2, <1>3, <1>4, <1>5, <1>6, <1>7, <1>8, <1>9 DEF VerifyNext

-----------------------------------------------------------------------------
(* The positional words of a command *)

\* Induction over the numbers, on a set instead of a predicate
LEMMA NumberInduction ==
  ASSUME NEW S, 0 \in S, \A n \in Nat : n \in S => n + 1 \in S
  PROVE  \A n \in Nat : n \in S
<1> DEFINE rest == Nat \ S
<1>1. SUFFICES ASSUME rest # {} PROVE FALSE
  OBVIOUS
<1>2. rest \subseteq Nat
  OBVIOUS
<1>3. PICK x \in rest : \A y \in rest : ~ (<<y, x>> \in OpToRel(<, Nat))
  <2> HIDE DEF rest
  <2> QED
    BY <1>1, <1>2, WFMin, NatLessThanWellFounded, Zenon
<1>4. x \in Nat /\ x # 0 /\ x - 1 \in Nat /\ x - 1 < x /\ x = (x - 1) + 1
  OBVIOUS
<1>5. x - 1 \in rest
  BY <1>4
<1>6. <<x - 1, x>> \in OpToRel(<, Nat)
  BY <1>4 DEF OpToRel
<1> QED
  BY <1>3, <1>5, <1>6

\* The recursion of Positional, as far as n
Picks(args, f, n) ==
    f = [i \in 0..n |-> IF i = 0 THEN <<>>
                        ELSE IF Option(args[i]) THEN f[i - 1] ELSE Append(f[i - 1], args[i])]

\* Positional is what its recursion computes.
LEMMA PositionalPicks ==
  ASSUME NEW args \in Seq(STRING)
  PROVE  \E f : Picks(args, f, Len(args)) /\ Positional(args) = f[Len(args)]
<1> DEFINE S == {n \in Nat : \E f : Picks(args, f, n)}
<1>1. 0 \in S
  <2> DEFINE f == [i \in 0..0 |-> <<>>]
  <2>1. Picks(args, f, 0)
    BY DEF Picks
  <2> QED
    BY <2>1
<1>2. ASSUME NEW n \in Nat, n \in S PROVE n + 1 \in S
  <2>1. PICK f : Picks(args, f, n)
    BY <1>2
  <2> DEFINE g == [i \in 0..(n + 1) |-> IF i <= n THEN f[i]
                     ELSE IF Option(args[i]) THEN f[n] ELSE Append(f[n], args[i])]
             h == [i \in 0..(n + 1) |-> IF i = 0 THEN <<>>
                     ELSE IF Option(args[i]) THEN g[i - 1] ELSE Append(g[i - 1], args[i])]
  <2>2. \A i \in 0..(n + 1) : g[i] = h[i]
    <3> TAKE i \in 0..(n + 1)
    <3>1. CASE i = 0
      BY <2>1, <3>1 DEF Picks
    <3>2. CASE i # 0 /\ i <= n
      <4>1. i \in 0..n /\ i - 1 \in 0..n /\ i - 1 \in 0..(n + 1)
        BY <3>2
      <4>2. f[i] = IF Option(args[i]) THEN f[i - 1] ELSE Append(f[i - 1], args[i])
        BY <2>1, <3>2, <4>1 DEF Picks
      <4> QED
        BY <3>2, <4>1, <4>2
    <3>3. CASE i = n + 1
      <4>1. i # 0 /\ i - 1 = n /\ n \in 0..(n + 1) /\ ~ (i <= n) /\ n <= n
        BY <3>3
      <4>2. g[n] = f[n]
        BY <4>1
      <4>3. g[i] = IF Option(args[i]) THEN f[n] ELSE Append(f[n], args[i])
        BY <4>1
      <4>4. h[i] = IF Option(args[i]) THEN g[n] ELSE Append(g[n], args[i])
        <5> HIDE DEF g
        <5> QED
          BY <4>1
      <4> QED
        BY <4>2, <4>3, <4>4
    <3> QED
      BY <3>1, <3>2, <3>3
  <2>3. g = h
    BY <2>2
  <2>4. Picks(args, g, n + 1)
    BY <2>3 DEF Picks
  <2> QED
    BY <2>4
<1>3. Len(args) \in S
  <2> HIDE DEF S
  <2> QED
    BY <1>1, <1>2, NumberInduction
<1>4. PICK f : Picks(args, f, Len(args))
  BY <1>3
<1> DEFINE kept == CHOOSE kept : Picks(args, kept, Len(args))
<1>5. Picks(args, kept, Len(args))
  BY <1>4
<1>6. Positional(args) = kept[Len(args)]
  BY DEF Positional, Picks
<1> QED
  BY <1>5, <1>6

\* g numbers the words of s by their places among the first n of args.
Numbers(s, args, n, g) ==
    /\ s \in Seq(STRING) /\ g \in [1..Len(s) -> 1..n]
    /\ \A k, m \in 1..Len(s) : g[k] = g[m] => k = m
    /\ \A k \in 1..Len(s) : s[k] = args[g[k]] /\ ~ Option(args[g[k]])
    /\ \A i \in 1..n : ~ Option(args[i]) => \E k \in 1..Len(s) : g[k] = i

\* Positional has every word that is no option, once for each place.
LEMMA PositionalNumbers ==
  ASSUME NEW args \in Seq(STRING)
  PROVE  \E g : Numbers(Positional(args), args, Len(args), g)
<1>1. PICK f : Picks(args, f, Len(args)) /\ Positional(args) = f[Len(args)]
  BY PositionalPicks
<1> DEFINE S == {n \in Nat : n <= Len(args) => \E g : Numbers(f[n], args, n, g)}
<1>2. Len(args) \in Nat /\ \A i \in 1..Len(args) : args[i] \in STRING
  OBVIOUS
<1>3. 0 \in S
  <2>1. f[0] = <<>>
    BY <1>1, <1>2 DEF Picks
  <2>2. Numbers(<<>>, args, 0, [k \in 1..0 |-> k])
    BY DEF Numbers
  <2> QED
    BY <2>1, <2>2
<1>4. ASSUME NEW n \in Nat, n \in S PROVE n + 1 \in S
  <2>1. SUFFICES ASSUME n + 1 <= Len(args) PROVE \E g : Numbers(f[n + 1], args, n + 1, g)
    OBVIOUS
  <2>2. PICK g : Numbers(f[n], args, n, g)
    BY <1>2, <1>4, <2>1
  <2>3. f[n + 1] = IF Option(args[n + 1]) THEN f[n] ELSE Append(f[n], args[n + 1])
    <3>1. n + 1 \in 0..Len(args) /\ (n + 1) - 1 = n /\ n + 1 # 0
      BY <1>2, <2>1
    <3> QED
      BY <1>1, <3>1 DEF Picks
  <2>4. CASE Option(args[n + 1])
    <3>1. \A i \in 1..(n + 1) : ~ Option(args[i]) => i \in 1..n
      BY <2>4
    <3>2. g \in [1..Len(f[n]) -> 1..(n + 1)]
      BY <2>2 DEF Numbers
    <3>3. Numbers(f[n], args, n + 1, g)
      BY <2>2, <3>1, <3>2 DEF Numbers
    <3> QED
      BY <2>3, <2>4, <3>3
  <2>5. CASE ~ Option(args[n + 1])
    <3> DEFINE s == f[n]
               l == Len(s)
               t == Append(s, args[n + 1])
               h == [k \in 1..(l + 1) |-> IF k = l + 1 THEN n + 1 ELSE g[k]]
    <3>1. s \in Seq(STRING) /\ l \in Nat /\ args[n + 1] \in STRING
      BY <1>2, <2>1, <2>2 DEF Numbers
    <3>2. /\ t \in Seq(STRING) /\ Len(t) = l + 1 /\ t[l + 1] = args[n + 1]
          /\ \A k \in 1..l : t[k] = s[k]
      BY <3>1
    <3>3. \A k \in 1..l : g[k] \in 1..n /\ g[k] # n + 1
      <4>1. g \in [1..l -> 1..n]
        BY <2>2 DEF Numbers
      <4>2. \A i \in 1..n : i # n + 1
        OBVIOUS
      <4> HIDE DEF l
      <4> QED
        BY <4>1, <4>2
    <3>4. \A k \in 1..(l + 1) : k = l + 1 \/ k \in 1..l
      BY <3>1
    <3>5. h \in [1..(l + 1) -> 1..(n + 1)]
      BY <3>1, <3>3, <3>4
    <3>6. \A k, m \in 1..(l + 1) : h[k] = h[m] => k = m
      BY <2>2, <3>3, <3>4 DEF Numbers
    <3>7. \A k \in 1..(l + 1) : t[k] = args[h[k]] /\ ~ Option(args[h[k]])
      BY <2>2, <2>5, <3>2, <3>4 DEF Numbers
    <3>8. \A i \in 1..(n + 1) : ~ Option(args[i]) => \E k \in 1..(l + 1) : h[k] = i
      <4> TAKE i \in 1..(n + 1)
      <4>1. CASE i = n + 1
        BY <3>1, <4>1
      <4>2. CASE i \in 1..n /\ ~ Option(args[i])
        <5>1. PICK k \in 1..l : g[k] = i
          BY <2>2, <4>2 DEF Numbers
        <5>2. k \in 1..(l + 1) /\ k # l + 1
          BY <3>1
        <5> QED
          BY <5>1, <5>2
      <4>3. i = n + 1 \/ i \in 1..n
        OBVIOUS
      <4> QED
        BY <4>1, <4>2, <4>3
    <3>9. Numbers(t, args, n + 1, h)
      <4> HIDE DEF t, h, l, s
      <4> QED
        BY <3>2, <3>5, <3>6, <3>7, <3>8 DEF Numbers
    <3> QED
      BY <2>3, <2>5, <3>9
  <2> QED
    BY <2>4, <2>5
<1>5. Len(args) \in S
  <2> HIDE DEF S
  <2> QED
    BY <1>2, <1>3, <1>4, NumberInduction
<1> QED
  BY <1>1, <1>2, <1>5

\* The words of one code file, as NoFileTwice lists them
Alike(v, w) ==
    \E s \in {{"a.py", "/ws/a.py", "a.py::t", "a.py::u", "a.T", "a.U"}, {"b.py", "b.T"}} : v \in s /\ w \in s

\* fn gives alike words, and only those, the same file.
Spells(fn) ==
    \A v, w \in STRING : fn[v] # NoFile /\ fn[w] # NoFile => (fn[v] = fn[w] <=> Alike(v, w))

\* What the three readings of a target say about a word
FileFn == [w \in STRING |-> FileOf(w)]
TestFileFn == [w \in STRING |-> TestFileOf(w)]
ModuleFileFn == [w \in STRING |-> ModuleFileOf(w)]

\* Each reading, a path, a pytest target or a dotted name, tells the files apart.
LEMMA ReadingsSpell == Spells(FileFn) /\ Spells(TestFileFn) /\ Spells(ModuleFileFn)
<1>1. ASSUME NEW v \in STRING, NEW w \in STRING, FileOf(v) # NoFile, FileOf(w) # NoFile
      PROVE  FileOf(v) = FileOf(w) <=> Alike(v, w)
  <2>1. \A x \in {v, w} : \/ x \in {"a.py", "/ws/a.py"} /\ FileOf(x) = "/ws/a.py"
                          \/ x = "b.py" /\ FileOf(x) = "/ws/b.py"
    BY <1>1 DEF FileOf
  <2> QED
    BY <2>1 DEF Alike
<1>2. ASSUME NEW v \in STRING, NEW w \in STRING, TestFileOf(v) # NoFile, TestFileOf(w) # NoFile
      PROVE  TestFileOf(v) = TestFileOf(w) <=> Alike(v, w)
  <2>1. \A x \in {v, w} : \/ x \in {"a.py", "/ws/a.py", "a.py::t", "a.py::u"} /\ TestFileOf(x) = "/ws/a.py"
                          \/ x = "b.py" /\ TestFileOf(x) = "/ws/b.py"
    BY <1>2 DEF FileOf, TestFileOf
  <2> QED
    BY <2>1 DEF Alike
<1>3. ASSUME NEW v \in STRING, NEW w \in STRING, ModuleFileOf(v) # NoFile, ModuleFileOf(w) # NoFile
      PROVE  ModuleFileOf(v) = ModuleFileOf(w) <=> Alike(v, w)
  <2>1. \A x \in {v, w} : \/ x \in {"a.T", "a.U", "a.py"} /\ ModuleFileOf(x) = "/ws/a.py"
                          \/ x \in {"b.T", "b.py"} /\ ModuleFileOf(x) = "/ws/b.py"
    BY <1>3 DEF ModuleFileOf
  <2> QED
    BY <2>1 DEF Alike
<1> QED
  BY <1>1, <1>2, <1>3 DEF Spells, FileFn, TestFileFn, ModuleFileFn

\* The files of the positional words, as fn reads them
FilesRead(args, fn) == [k \in DOMAIN Positional(args) |-> fn[Positional(args)[k]]]

\* The readings of a command's targets, as functions
LEMMA FilesAreRead ==
  ASSUME NEW args \in Seq(STRING)
  PROVE  /\ Files(Positional(args), FileOf) = FilesRead(args, FileFn)
         /\ Files(Positional(args), TestFileOf) = FilesRead(args, TestFileFn)
         /\ Files(Positional(args), ModuleFileOf) = FilesRead(args, ModuleFileFn)
<1>1. Positional(args) \in Seq(STRING)
  BY PositionalNumbers DEF Numbers
<1>2. \A k \in DOMAIN Positional(args) : Positional(args)[k] \in STRING
  BY <1>1
<1> QED
  BY <1>2 DEF Files, FilesRead, FileFn, TestFileFn, ModuleFileFn

\* No code file is named twice exactly when no two places of args have words of
\* one file.
LEMMA FilesOnce ==
  ASSUME NEW args \in Seq(STRING), NEW fn, Spells(fn), Committed(FilesRead(args, fn))
  PROVE  IsInjective(FilesRead(args, fn))
           <=> \A i, j \in 1..Len(args) : Alike(args[i], args[j]) => i = j
<1> DEFINE words == Positional(args)
           files == FilesRead(args, fn)
           len == Len(args)
<1>1. PICK g : Numbers(words, args, len, g)
  BY PositionalNumbers
<1>2. /\ words \in Seq(STRING) /\ DOMAIN words = 1..Len(words)
      /\ \A k \in 1..Len(words) : g[k] \in 1..len /\ words[k] = args[g[k]] /\ words[k] \in STRING
      /\ \A k, m \in 1..Len(words) : g[k] = g[m] => k = m
      /\ \A i \in 1..len : ~ Option(args[i]) => \E k \in 1..Len(words) : g[k] = i
  BY <1>1 DEF Numbers
<1>3. DOMAIN files = 1..Len(words) /\ \A k \in 1..Len(words) : files[k] = fn[words[k]]
  BY <1>2 DEF FilesRead
<1>4. \A k \in 1..Len(words) : fn[words[k]] # NoFile
  BY <1>3 DEF Committed, ToSet
<1>5. \A v, w : Alike(v, w) => ~ Option(v) /\ ~ Option(w)
  BY DEF Alike, Option
<1> HIDE DEF words, files, len
<1>6. \A k, m \in 1..Len(words) : files[k] = files[m] <=> Alike(args[g[k]], args[g[m]])
  <2> TAKE k, m \in 1..Len(words)
  <2>1. fn[words[k]] = fn[words[m]] <=> Alike(words[k], words[m])
    BY <1>2, <1>4 DEF Spells
  <2> QED
    BY <1>2, <1>3, <2>1
<1>7. ASSUME IsInjective(files), NEW i \in 1..len, NEW j \in 1..len, Alike(args[i], args[j]) PROVE i = j
  <2>1. PICK k \in 1..Len(words) : g[k] = i
    BY <1>2, <1>5, <1>7
  <2>2. PICK m \in 1..Len(words) : g[m] = j
    BY <1>2, <1>5, <1>7
  <2>3. files[k] = files[m]
    BY <1>6, <1>7, <2>1, <2>2
  <2>4. k = m
    BY <1>3, <1>7, <2>3 DEF IsInjective
  <2> QED
    BY <2>1, <2>2, <2>4
<1>8. ASSUME \A i, j \in 1..len : Alike(args[i], args[j]) => i = j PROVE IsInjective(files)
  <2> SUFFICES ASSUME NEW k \in 1..Len(words), NEW m \in 1..Len(words), files[k] = files[m] PROVE k = m
    BY <1>3 DEF IsInjective
  <2>1. g[k] = g[m]
    BY <1>2, <1>6, <1>8
  <2> QED
    BY <1>2, <2>1
<1> QED
  BY <1>7, <1>8 DEF files, len

-----------------------------------------------------------------------------
(* A command the runner executes, and its projection *)

\* The verdict of the projection on a command, as its parts
Projected(argv, network, environment) ==
    CommandProjected(argv, Policy(argv), IsolationArgv(Policy(argv).executed, network, environment),
                     network, environment)

\* The commands of python, node and PowerShell
LEMMA PolicyKinds ==
  ASSUME NEW argv \in Seq(STRING), argv # <<>>, Policy(argv) # Refused
  PROVE  \/ argv[1] = "python" /\ Kind(argv[1]) = "python" /\ Policy(argv) = PythonPolicy("python", Tail(argv))
         \/ argv[1] = "node" /\ Kind(argv[1]) = "node" /\ Policy(argv) = NodePolicy("node", Tail(argv))
         \/ /\ argv[1] = "pwsh" /\ Kind(argv[1]) = "powershell-file"
            /\ Policy(argv) = PowerShellPolicy("pwsh", Tail(argv))
<1>1. argv[1] \in {"python", "node", "pwsh"}
  BY DEF Policy, Bound
<1>2. Kind("python") = "python" /\ Kind("node") = "node" /\ Kind("pwsh") = "powershell-file"
  BY DEF Kind
<1>3. Bound(argv[1])
  BY <1>1 DEF Bound
<1>4. CASE argv[1] = "python"
  BY <1>2, <1>3, <1>4 DEF Policy
<1>5. CASE argv[1] = "node"
  BY <1>2, <1>3, <1>5 DEF Policy
<1>6. CASE argv[1] = "pwsh"
  BY <1>2, <1>3, <1>6 DEF Policy
<1> QED
  BY <1>1, <1>2, <1>4, <1>5, <1>6

\* A command and its arguments
LEMMA ArgumentsOf ==
  ASSUME NEW argv \in Seq(STRING), argv # <<>>
  PROVE  /\ Tail(argv) \in Seq(STRING) /\ Len(argv) \in Nat \ {0} /\ Len(Tail(argv)) = Len(argv) - 1
         /\ \A i \in 1..(Len(argv) - 1) : Tail(argv)[i] = argv[i + 1]
         /\ argv = <<argv[1]>> \o Tail(argv)
         /\ \A x : (<<x>> \o Tail(argv))[1] = x /\ Tail(<<x>> \o Tail(argv)) = Tail(argv)
<1>1. /\ Tail(argv) \in Seq(STRING) /\ Len(argv) \in Nat \ {0} /\ Len(Tail(argv)) = Len(argv) - 1
      /\ \A i \in 1..(Len(argv) - 1) : Tail(argv)[i] = argv[i + 1]
  OBVIOUS
<1>2. argv = <<argv[1]>> \o Tail(argv)
  BY <1>1
<1>3. ASSUME NEW x PROVE (<<x>> \o Tail(argv))[1] = x /\ Tail(<<x>> \o Tail(argv)) = Tail(argv)
  BY <1>1
<1> QED
  BY <1>1, <1>2, <1>3

\* Words have a first one, unless there are none.
LEMMA NonEmpty ==
  ASSUME NEW s \in Seq(STRING), s # <<>>
  PROVE  DOMAIN s # {} /\ 1 \in DOMAIN s /\ DOMAIN s = 1..Len(s) /\ Len(s) \in Nat \ {0}
<1>1. DOMAIN s = 1..Len(s) /\ Len(s) \in Nat /\ Len(s) # 0
  OBVIOUS
<1>2. 1 \in 1..Len(s)
  BY <1>1
<1> QED
  BY <1>1, <1>2

\* A python command: a module's targets once each, or a script
LEMMA PythonAgrees ==
  ASSUME NEW argv \in Seq(STRING), argv # <<>>, argv[1] = "python", Policy(argv) # Refused,
         NEW network, NEW environment
  PROVE  Projected(argv, network, environment) <=> CanonicalSpelling(argv) /\ NoFileTwice(argv)
<1> DEFINE args == Tail(argv)
           policy == Policy(argv)
           targets == SubSeq(args, 3, Len(args))
           files == ModuleFiles(args[2], targets)
<1>1. policy = PythonPolicy("python", args) /\ Kind(argv[1]) = "python" /\ Bound(argv[1])
  BY PolicyKinds DEF Bound
<1>2. /\ args \in Seq(STRING) /\ Len(argv) \in Nat \ {0} /\ Len(args) = Len(argv) - 1
      /\ \A i \in 1..(Len(argv) - 1) : args[i] = argv[i + 1]
      /\ (<<"python">> \o args)[1] = "python" /\ Tail(<<"python">> \o args) = args
  BY ArgumentsOf
<1>3. CanonicalSpelling(argv)
  BY DEF CanonicalSpelling
<1> HIDE DEF args, policy
<1>4. args # <<>> /\ Len(args) >= 1
  BY <1>1, <1>2 DEF policy, PythonPolicy
<1>5. CASE args[1] = "-m"
  <2>1. /\ Len(args) >= 2 /\ args[2] \in AllowedModules /\ ModuleArguments(args[2], targets) /\ Committed(files)
        /\ policy = PolicyOf("python", <<"python">> \o args, NoFile, files)
    BY <1>1, <1>5 DEF policy, PythonPolicy
  <2>2. /\ policy.kind = "python" /\ policy.executed = <<"python">> \o args /\ policy.code_path = NoFile
        /\ policy.code_paths = files
    BY <2>1 DEF PolicyOf
  <2>3. targets \in Seq(STRING) /\ Len(targets) = Len(args) - 2 /\ \A i \in 1..Len(targets) : targets[i] = args[i + 2]
    BY <1>2, <2>1
  <2>4. files # <<>>
    <3>1. Positional(targets) # <<>>
      BY <2>1 DEF ModuleArguments
    <3>2. Positional(targets) \in Seq(STRING)
      BY <2>3, PositionalNumbers DEF Numbers
    <3>3. DOMAIN Positional(targets) # {}
      BY <3>1, <3>2, NonEmpty
    <3>4. DOMAIN files = DOMAIN Positional(targets)
      BY DEF ModuleFiles, Files
    <3> QED
      BY <3>3, <3>4
  <2>5. Projected(argv, network, environment) <=> IsInjective(files)
    <3>1. Tail(policy.executed) = args /\ policy.executed[1] = argv[1]
      BY <1>2, <2>2
    <3>2. KindBindings(policy)
      <4> HIDE DEF targets
      <4> QED
        BY <1>5, <2>1, <2>2, <3>1 DEF KindBindings, targets
    <3>3. CodePathsValid(policy) <=> IsInjective(files)
      BY <2>1, <2>2, <2>4, <3>2 DEF CodePathsValid
    <3> QED
      BY <1>1, <2>2, <3>1, <3>3 DEF Projected, CommandProjected, policy, args
  <2>6. IsInjective(files) <=> \A i, j \in 1..Len(targets) : Alike(targets[i], targets[j]) => i = j
    <3>1. PICK fn : Spells(fn) /\ files = FilesRead(targets, fn)
      BY <2>3, ReadingsSpell, FilesAreRead DEF ModuleFiles
    <3> QED
      BY <2>1, <2>3, <3>1, FilesOnce
  <2>7. (\A i, j \in 1..Len(targets) : Alike(targets[i], targets[j]) => i = j)
          <=> \A i, j \in 3..Len(argv) : Alike(argv[i], argv[j]) => i = j
    <3>1. \A i \in 1..Len(targets) : i + 3 \in 3..Len(argv) /\ targets[i] = argv[i + 3]
      BY <1>2, <2>1, <2>3
    <3>2. \A i \in 3..Len(argv) : i = 3 \/ (i - 3 \in 1..Len(targets) /\ targets[i - 3] = argv[i])
      BY <1>2, <2>1, <2>3
    <3>3. argv[3] = args[2] /\ 3 \in 3..Len(argv)
      BY <1>2, <2>1
    <3>4. \A w : ~ Alike(argv[3], w) /\ ~ Alike(w, argv[3])
      BY <2>1, <3>3 DEF Alike, AllowedModules
    <3> HIDE DEF targets
    <3>5. ASSUME \A i, j \in 1..Len(targets) : Alike(targets[i], targets[j]) => i = j,
                 NEW i \in 3..Len(argv), NEW j \in 3..Len(argv), Alike(argv[i], argv[j])
          PROVE  i = j
      <4>1. i - 3 \in 1..Len(targets) /\ j - 3 \in 1..Len(targets) /\ Alike(targets[i - 3], targets[j - 3])
        BY <3>2, <3>4, <3>5
      <4>2. i - 3 = j - 3
        BY <3>5, <4>1
      <4> QED
        BY <4>2
    <3>6. ASSUME \A i, j \in 3..Len(argv) : Alike(argv[i], argv[j]) => i = j,
                 NEW i \in 1..Len(targets), NEW j \in 1..Len(targets), Alike(targets[i], targets[j])
          PROVE  i = j
      <4>1. i + 3 = j + 3
        BY <3>1, <3>6
      <4> QED
        BY <2>3, <4>1
    <3> QED
      BY <3>5, <3>6
  <2>8. NoFileTwice(argv) <=> \A i, j \in 3..Len(argv) : Alike(argv[i], argv[j]) => i = j
    <3>1. argv[2] = "-m" /\ argv[1] = "python"
      BY <1>2, <1>4, <1>5
    <3> QED
      BY <3>1 DEF NoFileTwice, Alike
  <2> QED
    BY <1>3, <2>5, <2>6, <2>7, <2>8
<1>6. CASE args[1] # "-m"
  <2>1. /\ ~ Option(args[1]) /\ FileOf(args[1]) # NoFile
        /\ policy = PolicyOf("python", <<"python">> \o args, FileOf(args[1]), <<FileOf(args[1])>>)
    BY <1>1, <1>6 DEF policy, PythonPolicy
  <2>2. /\ policy.kind = "python" /\ policy.executed = <<"python">> \o args
        /\ policy.code_path = FileOf(args[1]) /\ policy.code_paths = <<FileOf(args[1])>>
    BY <2>1 DEF PolicyOf
  <2>3. Tail(policy.executed) = args /\ policy.executed[1] = argv[1]
    BY <1>2, <2>2
  <2>4. KindBindings(policy)
    BY <1>4, <1>6, <2>1, <2>2, <2>3 DEF KindBindings
  <2>5. CodePathsValid(policy)
    <3>1. policy.code_paths # <<>> /\ IsInjective(policy.code_paths)
      BY <2>2 DEF IsInjective
    <3>2. ToSet(policy.code_paths) = {FileOf(args[1])}
      BY <2>2 DEF ToSet
    <3> QED
      BY <2>1, <2>2, <2>4, <3>1, <3>2 DEF CodePathsValid, Committed
  <2>6. Projected(argv, network, environment)
    BY <1>1, <2>2, <2>3, <2>5 DEF Projected, CommandProjected, policy, args
  <2>7. NoFileTwice(argv)
    <3>1. argv[2] # "-m"
      BY <1>2, <1>4, <1>6
    <3> QED
      BY <3>1 DEF NoFileTwice
  <2> QED
    BY <1>3, <2>6, <2>7
<1> QED
  BY <1>5, <1>6

\* The files a node command names
LEMMA NodeFiles ==
  ASSUME NEW args \in Seq(STRING), Files(NodeTargets(args), FileOf) # <<>>
  PROVE  /\ Positional(args) \in Seq(STRING) /\ Positional(args) # <<>> /\ NodeTargets(args) # <<>>
         /\ DOMAIN Files(NodeTargets(args), FileOf) # {} /\ 1 \in DOMAIN Files(NodeTargets(args), FileOf)
<1>1. Positional(args) \in Seq(STRING)
  BY PositionalNumbers DEF Numbers
<1>2. Positional(args) # <<>> /\ NodeTargets(args) # <<>>
  <2>1. SUFFICES ASSUME Positional(args) = <<>> \/ NodeTargets(args) = <<>> PROVE FALSE
    OBVIOUS
  <2>2. NodeTargets(args) = <<>>
    BY <2>1 DEF NodeTargets
  <2>3. Files(<<>>, FileOf) = <<>>
    BY DEF Files
  <2> QED
    BY <2>2, <2>3
<1>3. 1 \in DOMAIN NodeTargets(args)
  <2>1. 1 \in DOMAIN Positional(args) /\ 1 \in DOMAIN <<Positional(args)[1]>>
    BY <1>1, <1>2, NonEmpty
  <2> QED
    BY <2>1 DEF NodeTargets
<1> QED
  BY <1>1, <1>2, <1>3 DEF Files

\* A node command: the test files once each
LEMMA NodeAgrees ==
  ASSUME NEW argv \in Seq(STRING), argv # <<>>, argv[1] = "node", Policy(argv) # Refused,
         NEW network, NEW environment
  PROVE  Projected(argv, network, environment) <=> CanonicalSpelling(argv) /\ NoFileTwice(argv)
<1> DEFINE args == Tail(argv)
           policy == Policy(argv)
           files == Files(NodeTargets(args), FileOf)
<1>1. policy = NodePolicy("node", args) /\ Kind(argv[1]) = "node" /\ Bound(argv[1])
  BY PolicyKinds DEF Bound
<1>2. /\ args \in Seq(STRING) /\ Len(argv) \in Nat \ {0} /\ Len(args) = Len(argv) - 1
      /\ \A i \in 1..(Len(argv) - 1) : args[i] = argv[i + 1]
      /\ (<<"node">> \o args)[1] = "node" /\ Tail(<<"node">> \o args) = args
  BY ArgumentsOf
<1>3. CanonicalSpelling(argv)
  BY DEF CanonicalSpelling
<1> HIDE DEF args, policy
<1>4. /\ \A word \in ToSet(args) : Option(word) => SafeNodeOption(word)
      /\ files # <<>> /\ Committed(files)
      /\ policy = PolicyOf("node", <<"node">> \o args, files[1], files)
  BY <1>1 DEF policy, NodePolicy
<1> HIDE DEF files
<1>5. /\ policy.kind = "node" /\ policy.executed = <<"node">> \o args
      /\ policy.code_path = files[1] /\ policy.code_paths = files
  BY <1>4 DEF PolicyOf
<1>6. Positional(args) \in Seq(STRING) /\ Positional(args) # <<>> /\ NodeTargets(args) # <<>> /\ 1 \in DOMAIN files
  BY <1>2, <1>4, NodeFiles DEF files
<1>7. files[1] \in ToSet(files) /\ files[1] # NoFile
  BY <1>4, <1>6 DEF ToSet, Committed
<1>8. Projected(argv, network, environment) <=> IsInjective(files)
  <2>1. Tail(policy.executed) = args /\ policy.executed[1] = argv[1]
    BY <1>2, <1>5
  <2>2. KindBindings(policy)
    BY <1>4, <1>5, <1>6, <1>7, <2>1 DEF KindBindings, files
  <2>3. CodePathsValid(policy) <=> IsInjective(files)
    BY <1>4, <1>5, <1>7, <2>2 DEF CodePathsValid
  <2> QED
    BY <1>1, <1>5, <2>1, <2>3 DEF Projected, CommandProjected, policy, args
<1>9. "--test" \in ToSet(argv) <=> "--test" \in ToSet(args)
  <2>1. \A i \in DOMAIN argv : i = 1 \/ (i - 1 \in DOMAIN args /\ args[i - 1] = argv[i])
    BY <1>2
  <2>2. \A i \in DOMAIN args : i + 1 \in DOMAIN argv /\ argv[i + 1] = args[i]
    BY <1>2
  <2> QED
    BY <2>1, <2>2 DEF ToSet
<1>10. CASE "--test" \in ToSet(argv)
  <2>1. files = FilesRead(args, FileFn)
    BY <1>2, <1>9, <1>10, FilesAreRead DEF files, NodeTargets
  <2>2. IsInjective(files) <=> \A i, j \in 1..Len(args) : Alike(args[i], args[j]) => i = j
    BY <1>2, <1>4, <2>1, FilesOnce, ReadingsSpell
  <2>3. (\A i, j \in 1..Len(args) : Alike(args[i], args[j]) => i = j)
          <=> \A i, j \in 2..Len(argv) : Alike(argv[i], argv[j]) => i = j
    <3>1. \A i \in 1..Len(args) : i + 1 \in 2..Len(argv) /\ args[i] = argv[i + 1]
      BY <1>2
    <3>2. \A i \in 2..Len(argv) : i - 1 \in 1..Len(args) /\ args[i - 1] = argv[i]
      BY <1>2
    <3>3. ASSUME \A i, j \in 1..Len(args) : Alike(args[i], args[j]) => i = j,
                 NEW i \in 2..Len(argv), NEW j \in 2..Len(argv), Alike(argv[i], argv[j])
          PROVE  i = j
      <4>1. i - 1 = j - 1
        BY <3>2, <3>3
      <4> QED
        BY <4>1
    <3>4. ASSUME \A i, j \in 2..Len(argv) : Alike(argv[i], argv[j]) => i = j,
                 NEW i \in 1..Len(args), NEW j \in 1..Len(args), Alike(args[i], args[j])
          PROVE  i = j
      <4>1. i + 1 = j + 1
        BY <3>1, <3>4
      <4> QED
        BY <4>1
    <3> QED
      BY <3>3, <3>4
  <2>4. NoFileTwice(argv) <=> \A i, j \in 2..Len(argv) : Alike(argv[i], argv[j]) => i = j
    BY <1>10 DEF NoFileTwice, Alike
  <2> QED
    BY <1>3, <1>8, <2>2, <2>3, <2>4
<1>11. CASE "--test" \notin ToSet(argv)
  <2>1. NodeTargets(args) = <<Positional(args)[1]>>
    BY <1>6, <1>9, <1>11 DEF NodeTargets
  <2>2. IsInjective(files)
    BY <2>1 DEF files, Files, IsInjective
  <2>3. NoFileTwice(argv)
    BY <1>11 DEF NoFileTwice
  <2> QED
    BY <1>3, <1>8, <2>2, <2>3
<1> QED
  BY <1>10, <1>11

\* A PowerShell command: exactly the host arguments the policy writes, and the
\* script by its full name
LEMMA PowerShellAgrees ==
  ASSUME NEW argv \in Seq(STRING), argv # <<>>, argv[1] = "pwsh", Policy(argv) # Refused,
         NEW network, NEW environment
  PROVE  Projected(argv, network, environment) <=> CanonicalSpelling(argv) /\ NoFileTwice(argv)
<1> DEFINE args == Tail(argv)
           policy == Policy(argv)
           at == {i \in DOMAIN args : Lower(args[i]) = "-file"}
           f == CHOOSE i \in at : TRUE
           script == SubSeq(args, f + 2, Len(args))
           file == FileOf(args[f + 1])
           host == <<"pwsh", "-NoProfile", "-NonInteractive", "-File", file>>
           words == STRING \union {"pwsh", "-NoProfile", "-NonInteractive", "-File", "/ws/a.py", "/ws/b.py"}
<1>1. policy = PowerShellPolicy("pwsh", args) /\ Kind(argv[1]) = "powershell-file" /\ Bound(argv[1])
  BY PolicyKinds DEF Bound
<1>2. /\ args \in Seq(STRING) /\ Len(argv) \in Nat \ {0} /\ Len(args) = Len(argv) - 1
      /\ \A i \in 1..(Len(argv) - 1) : args[i] = argv[i + 1]
      /\ Len(args) \in Nat
  BY ArgumentsOf
<1>3. NoFileTwice(argv)
  BY DEF NoFileTwice
<1> HIDE DEF args, policy
<1>4. /\ \E i \in at : at = {i}
      /\ f < Len(args) /\ file # NoFile
      /\ policy = PolicyOf("powershell-file", host \o script, file, <<file>>)
  BY <1>1 DEF policy, PowerShellPolicy
<1>5. f \in at /\ at = {f} /\ f \in 1..Len(args)
  <2>1. PICK i \in at : at = {i}
    BY <1>4
  <2>2. f = i
    BY <2>1
  <2> QED
    BY <1>2, <2>1, <2>2
<1>6. file \in {"/ws/a.py", "/ws/b.py"} /\ (args[f + 1] = file => file = "/ws/a.py") /\ args[f + 1] \in STRING
  <2>1. f + 1 \in 1..Len(args)
    BY <1>2, <1>4, <1>5
  <2>2. file \in {"/ws/a.py", "/ws/b.py"}
    BY <1>4 DEF FileOf
  <2>3. FileOf("/ws/b.py") = NoFile
    BY DEF FileOf
  <2> HIDE DEF file
  <2> QED
    BY <1>2, <1>4, <2>1, <2>2, <2>3 DEF file
<1> HIDE DEF f, at, file
<1>7. /\ script \in Seq(words) /\ Len(script) = Len(args) - f - 1
      /\ \A i \in 1..Len(script) : script[i] = args[f + 1 + i]
  <2>1. f + 2 \in Int /\ Len(args) \in Int /\ f + 2 \in 1..(Len(args) + 1)
    BY <1>2, <1>4, <1>5
  <2>2. \A i \in (f + 2)..Len(args) : args[i] \in STRING
    BY <1>2, <2>1
  <2>3. /\ script \in Seq(STRING) /\ script \in Seq(words)
        /\ Len(script) = IF f + 2 <= Len(args) THEN Len(args) - (f + 2) + 1 ELSE 0
        /\ \A i \in 1..(Len(args) - (f + 2) + 1) : script[i] = args[(f + 2) + i - 1]
    BY <1>2, <2>1, <2>2, SubSeqProperties, SeqMonotonic
  <2>4. Len(script) = Len(args) - f - 1 /\ Len(args) - (f + 2) + 1 = Len(args) - f - 1
    BY <1>2, <1>5, <2>1, <2>3
  <2>5. ASSUME NEW i \in 1..Len(script) PROVE script[i] = args[f + 1 + i]
    <3>1. i \in 1..(Len(args) - (f + 2) + 1)
      BY <2>4
    <3>2. (f + 2) + i - 1 = f + 1 + i
      BY <1>5
    <3> QED
      BY <2>3, <3>1, <3>2
  <2> QED
    BY <2>3, <2>4, <2>5
<1> HIDE DEF script
<1>8. /\ host \in Seq(words) /\ Len(host) = 5 /\ host[1] = "pwsh" /\ host[2] = "-NoProfile"
      /\ host[3] = "-NonInteractive" /\ host[4] = "-File" /\ host[5] = file
  <2>1. file \in words /\ {"pwsh", "-NoProfile", "-NonInteractive", "-File"} \subseteq words
    BY <1>6
  <2> HIDE DEF words
  <2> QED
    BY <2>1
<1> HIDE DEF host
<1> DEFINE executed == host \o script
<1>9. /\ executed \in Seq(words) /\ Len(executed) = 5 + Len(script)
      /\ \A i \in 1..5 : executed[i] = host[i]
      /\ \A i \in 1..Len(script) : executed[5 + i] = script[i]
  <2>1. script \in Seq(words) /\ host \in Seq(words) /\ Len(host) = 5
    BY <1>7, <1>8
  <2>2. /\ executed \in Seq(words) /\ Len(executed) = Len(host) + Len(script)
        /\ \A i \in 1..(Len(host) + Len(script)) :
             executed[i] = IF i <= Len(host) THEN host[i] ELSE script[i - Len(host)]
    BY <2>1, ConcatProperties
  <2>3. Len(script) \in Nat
    BY <2>1
  <2>4. ASSUME NEW i \in 1..5 PROVE executed[i] = host[i]
    BY <2>1, <2>2, <2>3
  <2>5. ASSUME NEW i \in 1..Len(script) PROVE executed[5 + i] = script[i]
    <3>1. 5 + i \in 1..(5 + Len(script)) /\ ~ (5 + i <= 5) /\ (5 + i) - 5 = i
      BY <2>3
    <3> QED
      BY <2>1, <2>2, <3>1
  <2> HIDE DEF executed
  <2> QED
    BY <2>1, <2>2, <2>4, <2>5
<1> DEFINE rest == Tail(executed)
<1>10. /\ rest \in Seq(words) /\ Len(rest) = 4 + Len(script)
       /\ rest[1] = "-NoProfile" /\ rest[2] = "-NonInteractive" /\ rest[3] = "-File" /\ rest[4] = file
       /\ \A i \in 1..Len(script) : rest[4 + i] = script[i]
  <2> HIDE DEF executed
  <2>1. rest \in Seq(words) /\ Len(rest) = 4 + Len(script) /\ \A i \in 1..(4 + Len(script)) : rest[i] = executed[i + 1]
    BY <1>7, <1>9
  <2>2. executed[2] = host[2] /\ executed[3] = host[3] /\ executed[4] = host[4] /\ executed[5] = host[5]
    BY <1>9
  <2>3. Len(script) \in Nat
    BY <1>7
  <2>4. rest[1] = executed[2] /\ rest[2] = executed[3] /\ rest[3] = executed[4] /\ rest[4] = executed[5]
    BY <2>1, <2>3
  <2>5. ASSUME NEW i \in 1..Len(script) PROVE rest[4 + i] = script[i]
    <3>1. 4 + i \in 1..(4 + Len(script)) /\ (4 + i) + 1 = 5 + i
      BY <2>3
    <3> QED
      BY <1>9, <2>1, <3>1
  <2> QED
    BY <1>8, <2>1, <2>2, <2>4, <2>5
<1>11. /\ policy.kind = "powershell-file" /\ policy.executed = executed
       /\ policy.code_path = file /\ policy.code_paths = <<file>>
  BY <1>4 DEF PolicyOf
<1>12. executed[1] = argv[1]
  BY <1>8, <1>9
<1> HIDE DEF executed, rest
<1>13. ASSUME args = rest
       PROVE  f = 3 /\ file = "/ws/a.py" /\ Len(args) >= 4 /\ CodePathsValid(policy)
  <2>1. Len(args) >= 4 /\ args[3] = "-File" /\ args[4] = file
    BY <1>7, <1>10, <1>13
  <2>2. 3 \in at
    BY <1>2, <2>1 DEF at, Lower
  <2>3. f = 3 /\ f + 1 = 4
    BY <1>5, <2>2
  <2>4. file = "/ws/a.py" /\ FileOf(rest[4]) = file
    BY <1>6, <1>10, <2>1, <2>3 DEF FileOf
  <2>5. policy.code_paths # <<>> /\ IsInjective(policy.code_paths) /\ Len(policy.code_paths) = 1
    BY <1>11 DEF IsInjective
  <2>6. ToSet(policy.code_paths) = {file}
    BY <1>11 DEF ToSet
  <2>7. Files(SubSeq(rest, 1, 3), Lower) = <<"-noprofile", "-noninteractive", "-file">>
    <3> DEFINE u == SubSeq(rest, 1, 3)
               files == Files(u, Lower)
    <3>1. u \in Seq(words) /\ Len(u) = 3 /\ u[1] = "-NoProfile" /\ u[2] = "-NonInteractive" /\ u[3] = "-File"
      <4>1. Len(rest) \in Nat /\ Len(rest) >= 3 /\ \A i \in 1..3 : rest[i] \in words
        BY <1>7, <1>10
      <4>2. u \in Seq(words) /\ Len(u) = 3 /\ \A i \in 1..3 : u[i] = rest[i]
        BY <1>10, <4>1, SubSeqProperties
      <4> QED
        BY <1>10, <4>2
    <3>2. Lower("-NoProfile") = "-noprofile" /\ Lower("-NonInteractive") = "-noninteractive" /\ Lower("-File") = "-file"
      BY DEF Lower
    <3> HIDE DEF u
    <3>3. /\ files \in [1..3 -> {Lower(u[i]) : i \in 1..3}]
          /\ files[1] = "-noprofile" /\ files[2] = "-noninteractive" /\ files[3] = "-file"
      BY <3>1, <3>2 DEF Files
    <3> HIDE DEF files
    <3>4. files = <<"-noprofile", "-noninteractive", "-file">>
      BY <3>3
    <3> QED
      BY <3>4 DEF files, u
  <2>8. KindBindings(policy)
    BY <1>11, <1>13, <2>1, <2>4, <2>5, <2>7 DEF KindBindings, rest
  <2> QED
    BY <1>4, <1>11, <2>1, <2>3, <2>4, <2>5, <2>6, <2>8 DEF CodePathsValid, Committed
<1>14. Projected(argv, network, environment) <=> args = rest
  BY <1>1, <1>11, <1>12, <1>13 DEF Projected, CommandProjected, policy, args, rest
<1>15. CanonicalSpelling(argv) <=>
         Len(argv) >= 5 /\ argv[2] = "-NoProfile" /\ argv[3] = "-NonInteractive" /\ argv[4] = "-File" /\ argv[5] = "/ws/a.py"
  <2> DEFINE p == <<"pwsh", "-NoProfile", "-NonInteractive", "-File", "/ws/a.py">>
  <2>1. CanonicalSpelling(argv) <=> IsPrefix(p, argv)
    BY DEF CanonicalSpelling
  <2>2. /\ p \in Seq(words) /\ Len(p) = 5 /\ p[1] = "pwsh" /\ p[2] = "-NoProfile" /\ p[3] = "-NonInteractive"
        /\ p[4] = "-File" /\ p[5] = "/ws/a.py"
    <3>1. {"pwsh", "-NoProfile", "-NonInteractive", "-File", "/ws/a.py"} \subseteq words
      OBVIOUS
    <3> HIDE DEF words
    <3> QED
      BY <3>1
  <2> HIDE DEF p
  <2>3. /\ SubSeq(p, 1, 5) \in Seq(words) /\ Len(SubSeq(p, 1, 5)) = 5
        /\ \A i \in 1..5 : SubSeq(p, 1, 5)[i] = p[i]
    BY <2>2, SubSeqProperties
  <2>4. argv \in Seq(words) /\ Len(argv) \in Nat
    BY <1>2, SeqMonotonic
  <2> HIDE DEF words
  <2>5. ASSUME Len(argv) >= 5
        PROVE  /\ SubSeq(argv, 1, 5) \in Seq(words) /\ Len(SubSeq(argv, 1, 5)) = 5
               /\ \A i \in 1..5 : SubSeq(argv, 1, 5)[i] = argv[i]
    <3>1. \A i \in 1..5 : argv[i] \in words
      BY <2>4, <2>5
    <3> QED
      BY <2>4, <2>5, <3>1, SubSeqProperties
  <2>6. ASSUME Len(argv) >= 5
        PROVE  SubSeq(p, 1, 5) = SubSeq(argv, 1, 5) <=> \A i \in 1..5 : p[i] = argv[i]
    BY <2>3, <2>5, <2>6, SeqEqual
  <2>7. (\A i \in 1..5 : p[i] = argv[i]) <=> /\ p[1] = argv[1] /\ p[2] = argv[2] /\ p[3] = argv[3]
                                            /\ p[4] = argv[4] /\ p[5] = argv[5]
    <3>1. 1..5 = {1, 2, 3, 4, 5}
      OBVIOUS
    <3> QED
      BY <3>1
  <2>8. IsPrefix(p, argv) <=> Len(argv) >= 5 /\ SubSeq(p, 1, 5) = SubSeq(argv, 1, 5)
    BY <2>2, <2>4 DEF IsPrefix
  <2> QED
    BY <2>1, <2>2, <2>6, <2>7, <2>8 DEF p
<1>16. args = rest => CanonicalSpelling(argv)
  <2>1. ASSUME args = rest
        PROVE  Len(argv) >= 5 /\ argv[2] = "-NoProfile" /\ argv[3] = "-NonInteractive" /\ argv[4] = "-File" /\ argv[5] = "/ws/a.py"
    <3>1. Len(argv) >= 5
      BY <1>2, <1>13, <2>1
    <3>2. argv[2] = args[1] /\ argv[3] = args[2] /\ argv[4] = args[3] /\ argv[5] = args[4]
      BY <1>2, <3>1
    <3> QED
      BY <1>10, <1>13, <2>1, <3>1, <3>2
  <2> QED
    BY <1>15, <2>1
<1>17. CanonicalSpelling(argv) => args = rest
  <2>1. SUFFICES ASSUME Len(argv) >= 5, argv[2] = "-NoProfile", argv[3] = "-NonInteractive", argv[4] = "-File", argv[5] = "/ws/a.py"
                 PROVE  args = rest
    BY <1>15
  <2>2. args[1] = "-NoProfile" /\ args[2] = "-NonInteractive" /\ args[3] = "-File" /\ args[4] = "/ws/a.py" /\ Len(args) >= 4
    BY <1>2, <2>1
  <2>3. 3 \in at
    BY <1>2, <2>2 DEF at, Lower
  <2>4. f = 3 /\ f + 1 = 4
    BY <1>5, <2>3
  <2>5. file = "/ws/a.py"
    BY <2>2, <2>4 DEF file, FileOf
  <2>6. Len(rest) = Len(args)
    BY <1>2, <1>7, <1>10, <2>2, <2>4
  <2>7. ASSUME NEW i \in 1..Len(args) PROVE args[i] = rest[i]
    <3>1. i \in {1, 2, 3, 4} \/ (i - 4 \in 1..Len(script) /\ 4 + (i - 4) = i)
      BY <1>2, <1>7, <2>4
    <3>2. CASE i \in {1, 2, 3, 4}
      BY <1>10, <2>2, <2>5, <3>2
    <3>3. CASE i - 4 \in 1..Len(script) /\ 4 + (i - 4) = i
      <4>1. rest[i] = script[i - 4]
        BY <1>10, <3>3
      <4>2. script[i - 4] = args[3 + 1 + (i - 4)] /\ 3 + 1 + (i - 4) = i
        BY <1>7, <2>4, <3>3
      <4> QED
        BY <4>1, <4>2
    <3> QED
      BY <3>1, <3>2, <3>3
  <2>8. args \in Seq(words)
    BY <1>2, SeqMonotonic
  <2> HIDE DEF words
  <2> QED
    BY <1>10, <2>6, <2>7, <2>8, SeqEqual
<1> QED
  BY <1>3, <1>14, <1>16, <1>17

\* Of the commands the runner executes, the projection accepts those that are
\* spelled as they are executed and name no code file twice.
LEMMA CommandAgrees ==
  ASSUME NEW argv \in Seq(STRING), argv # <<>>, Policy(argv) # Refused, NEW network, NEW environment
  PROVE  Projected(argv, network, environment) <=> CanonicalSpelling(argv) /\ NoFileTwice(argv)
BY PolicyKinds, PythonAgrees, NodeAgrees, PowerShellAgrees

-----------------------------------------------------------------------------
(* The commands of a run are those the policy executes *)

\* The places behind the validation of the commands
Behind == {"execute", "source postcheck", "snapshot postcheck", "document", "release", "write", "return"}

\* The commands are words, and a run that has come past their validation, or has
\* returned, executes each of them.
AllExecuted == \A k \in DOMAIN manifest : Policy(manifest[k]) # Refused
PolicyInv ==
    /\ manifest \in Seq(Seq(STRING) \ {<<>>})
    /\ pc \in Behind \/ outcome = "returned" => AllExecuted

LEMMA PolicyInit ==
  ASSUME Init
  PROVE  PolicyInv
<1>1. PICK c \in Cases : manifest = c.manifest
  BY DEF Init
<1> QED
  BY <1>1, ConstantsAssumption DEF Init, PolicyInv, Behind

\* A step leads behind the validation only through it.
LEMMA PolicyStep ==
  ASSUME PolicyInv, Next
  PROVE  PolicyInv'
<1> DEFINE past == pc \in Behind \/ outcome = "returned"
<1>1. SUFFICES manifest' = manifest /\ (past' => past \/ AllExecuted)
  <2>1. ASSUME manifest' = manifest PROVE AllExecuted' <=> AllExecuted
    BY <2>1 DEF AllExecuted
  <2> QED
    BY <2>1 DEF PolicyInv
<1>2. CASE SourceState
  BY <1>2 DEF SourceState, GoOrRaise, Go, Raise, Behind, request
<1>3. CASE RequireIsolation
  BY <1>3 DEF RequireIsolation, GoOrRaise, Go, Raise, Behind, request
<1>4. CASE MaterializeCommittedSnapshot
  BY <1>4 DEF MaterializeCommittedSnapshot, Go, Raise, Behind, request
<1>5. CASE AcquireLease
  BY <1>5 DEF AcquireLease, Behind, request
<1>6. CASE RemoveCallerSource
  BY <1>6 DEF RemoveCallerSource, Go, Raise, Behind, request
<1>7. CASE Precheck
  BY <1>7 DEF Precheck, Go, Raise, Behind, request
<1>8. CASE ValidateCommands
  BY <1>8 DEF ValidateCommands, GoOrRaise, Go, Raise, Behind, request, AllExecuted
<1>9. CASE RunValidation
  BY <1>9 DEF RunValidation, At, Behind, request
<1>10. CASE SourcePostcheck \/ SnapshotPostcheck \/ MakeDocument \/ ReleaseLease \/ WriteReceipt \/ Return
  BY <1>10 DEF SourcePostcheck, SnapshotPostcheck, MakeDocument, ReleaseLease, WriteReceipt, Return, At, Behind, request
<1>11. CASE CleanupAfterAbort
  BY <1>11 DEF CleanupAfterAbort, Behind, request, run
<1>12. CASE EditRepository \/ ChangeCallerSource \/ ExpireLease \/ Die
  BY <1>12 DEF EditRepository, ChangeCallerSource, ExpireLease, Die, Behind, request, run
<1> QED
  BY <1>2, <1>3, <1>4, <1>5, <1>6, <1>7, <1>8, <1>9, <1>10, <1>11, <1>12 DEF Next

\* Nothing else of verify touches the run or its commands.
LEMMA PolicyKeeps ==
  ASSUME PolicyInv, UNCHANGED <<manifest, pc, outcome>>
  PROVE  PolicyInv'
BY DEF PolicyInv, AllExecuted

LEMMA PolicyVerifyStep ==
  ASSUME PolicyInv, VerifyNext
  PROVE  PolicyInv'
<1>1. CASE RunStep
  BY <1>1, PolicyStep DEF RunStep
<1>2. CASE ~ RunStep
  <2>1. UNCHANGED <<manifest, pc, outcome>>
    BY <1>2 DEF VerifyNext, ValidateManifest, Returned, Attest, ArchiveFile, WriteBundle, Sign, Stage,
                EditEvidence, EditArchive, vars, request, run
  <2> QED
    BY <2>1, PolicyKeeps
<1> QED
  BY <1>1, <1>2

-----------------------------------------------------------------------------
(* The theorems *)

\* Whatever fails, expires, dies or is edited, a verified run keeps its invariant.
THEOREM RunnerInvariant == VerifySpec => []AllInv
<1>1. VerifyInit => AllInv
  BY VerifyStart
<1>2. AllInv /\ [VerifyNext]_allVars => AllInv'
  <2>1. ASSUME AllInv, VerifyNext PROVE AllInv'
    BY <2>1, VerifyStep
  <2>2. ASSUME AllInv, UNCHANGED allVars PROVE AllInv'
    <3>1. Same /\ UNCHANGED <<stage, copied, archive, bundle, verdict>>
      BY <2>2 DEF allVars, vars, evidence, Same, request, repository, run
    <3>2. VerifyInv'
      BY <2>2, <3>1 DEF AllInv, VerifyInv, Same, Archived, Retains, SourceSet, Sources
    <3> QED
      BY <2>2, <3>1, <3>2, SameKeeps DEF AllInv
  <2> QED
    BY <2>1, <2>2
<1> QED
  BY <1>1, <1>2, PTL DEF VerifySpec

\* PassedReceiptSound for every manifest, commit, permission and number of faults:
\* a passed receipt is about commands that all succeeded on the pinned files while
\* they were leased, and the lease was removed for this very receipt.
THEOREM ReceiptsSound == VerifySpec => []PassedReceiptSound
<1>1. AllInv => PassedReceiptSound
  <2> SUFFICES ASSUME AllInv, receipt # None, receipt.passed PROVE
        /\ DOMAIN receipt.results = DOMAIN manifest
        /\ \A k \in DOMAIN manifest :
             /\ receipt.results[k].argv = manifest[k]
             /\ receipt.results[k].execution = Success
             /\ receipt.results[k].saw.state = "held"
             /\ receipt.results[k].saw.files = Entries[receipt.source]
        /\ lease.state = "gone" /\ lease.bound = Preimage(receipt)
    BY DEF PassedReceiptSound
  <2>1. /\ TypeInv /\ GuardInv /\ Sound(receipt) /\ Settled(receipt)
    BY DEF AllInv, RunnerInv, DocumentInv
  <2>2. AllPassed(receipt.results) /\ Document(receipt)
    BY <2>1 DEF Sound
  <2>3. DOMAIN receipt.results = 1..Len(manifest) /\ DOMAIN manifest = 1..Len(manifest)
    BY <2>1, <2>2 DEF TypeInv, AllPassed, IsSeq
  <2>4. receipt.source = source
    BY <2>2 DEF Document
  <2>5. lease.state = "gone" /\ lease.bound = Preimage(receipt)
    <3>1. guard.released /\ guard.preimage = <<Preimage(receipt)>>
      BY <2>1 DEF Settled
    <3>2. lease.state = "gone" /\ guard.preimage = <<lease.bound>>
      BY <2>1, <3>1 DEF GuardInv
    <3>3. \A x, y : <<x>> = <<y>> => x = y
      OBVIOUS
    <3> QED
      BY <3>1, <3>2, <3>3
  <2> QED
    BY <2>2, <2>3, <2>4, <2>5 DEF AllPassed, Passed, Ran
<1> QED
  BY <1>1, RunnerInvariant, PTL

\* LeaseSettled in the same generality: one preimage for all release requests of a
\* lease, and a call that ends has sent one.
THEOREM LeasesSettle == VerifySpec => []LeaseSettled
<1>1. AllInv => LeaseSettled
  <2> SUFFICES ASSUME AllInv PROVE LeaseSettled
    OBVIOUS
  <2>1. GuardInv
    BY DEF AllInv, RunnerInv
  <2>2. Cardinality(sent) <= 1
    <3>1. CASE sent = {}
      BY <3>1, FS_EmptySet
    <3>2. CASE \E q : sent = {q}
      <4>1. PICK q : sent = {q}
        BY <3>2
      <4>2. Cardinality({q}) = 1
        BY FS_Singleton
      <4> QED
        BY <4>1, <4>2
    <3> QED
      BY <2>1, <3>1, <3>2 DEF GuardInv
  <2>3. ASSUME pc = "ended", guard.attached
        PROVE  sent # {} /\ (guard.released => lease.state = "gone" /\ lease.bound \in sent)
    <3>1. guard.preimage # <<>> /\ sent = {Head(guard.preimage)}
      BY <2>1, <2>3 DEF GuardInv
    <3>2. guard.released => lease.state = "gone" /\ guard.preimage = <<lease.bound>>
      BY <2>1 DEF GuardInv
    <3> QED
      BY <3>1, <3>2
  <2> QED
    BY <2>2, <2>3 DEF LeaseSettled, At
<1> QED
  BY <1>1, RunnerInvariant, PTL

\* The verifier and the projection agree about everything but the spelling of
\* hashes and commands and the number of files: a verdict that verify has signed
\* is refused later exactly when the archive was changed, a hash is in upper case,
\* the commit or the bundle has too many files, or a command does not pass
\* _valid_command_receipt.
THEOREM VerdictsRestOnCommands == VerifySpec => []VerdictRestsOnCommands
<1>1. AllInv => VerdictRestsOnCommands
  <2> SUFFICES ASSUME AllInv, verdict # None
               PROVE  VerdictValid <=>
                        /\ \A f \in SourceSet \ {"artifact"} : archive[f] # "tampered"
                        /\ Rereadable
                        /\ \A k \in DOMAIN manifest :
                             CommandProjected(manifest[k], Policy(manifest[k]), Launch(manifest[k]), allowed.network,
                                              SandboxEnvironment(Entries[source]))
    BY DEF VerdictRestsOnCommands
  <2>1. /\ TypeInv /\ GuardInv /\ HeadInv /\ VerifyInv /\ stage = "signed" /\ verdict = receipt /\ pc = "ended"
        /\ Sound(receipt) /\ Settled(receipt) /\ receipt.passed
    BY DEF AllInv, RunnerInv, VerifyInv, DocumentInv
  <2>2. (Retained("manifest") /\ Retained("receipt") /\ Retained("output"))
          <=> \A f \in SourceSet \ {"artifact"} : archive[f] # "tampered"
    <3>1. bundle = {f \in SourceSet : Retains(f)} /\ \A f \in SourceSet : Archived(f)
      BY <2>1 DEF VerifyInv
    <3>2. \A f \in {"manifest", "receipt", "output"} : f \in bundle /\ archive[f] \in {"hashed", "tampered"}
      BY <3>1, SourceNames DEF Retains, Archived
    <3> QED
      BY <3>2, SourceNames DEF Retained
  <2>3. PICK r : r = receipt /\ Sound(r) /\ Settled(r) /\ r.passed
    BY <2>1
  <2>4. /\ r.source = source /\ r.files = Entries[source] /\ r.network = allowed.network
        /\ r.environment = SandboxEnvironment(Entries[source]) /\ r.acquired = Attested
        /\ r.contract = Contract(source, Entries[source], manifest, allowed.network, "lower")
    BY <2>3 DEF Sound, Document
  <2>5. /\ ~ r.failure /\ r.checks.source /\ r.checks.snapshot /\ AllPassed(r.results) /\ Admissible(source) /\ ~ allowed.gpu
    BY <2>3 DEF Sound
  <2>6. ReceiptPassed(r, allowed)
    BY <2>3, <2>4, <2>5 DEF ReceiptPassed
  <2>7. ProtectionValid(r)
    BY <2>3, <2>4 DEF ProtectionValid, Settled, Attested
  <2>8. SnapshotBound(r)
    <3>1. source \in Commits
      BY <2>1 DEF HeadInv
    <3>2. \A e, f \in Entries[source] : e.path = f.path => e = f
      BY <3>1, ConstantsAssumption
    <3>3. /\ Cardinality(Entries[source]) <= MaxEntries
          /\ \A e \in Entries[source] : e.mode \in {"100644", "100755"}
      BY <2>5 DEF Admissible
    <3> QED
      BY <2>4, <3>2, <3>3 DEF SnapshotBound, SandboxEnvironment
  <2>9. ContractBound(r, manifest, declared.hashes) <=> declared.hashes = "lower"
    <3>1. PICK h : h = declared.hashes
      OBVIOUS
    <3>2. Contract(source, Entries[source], manifest, allowed.network, "lower")
            = Contract(source, Entries[source], manifest, allowed.network, h) <=> h = "lower"
      BY DEF Contract
    <3> QED
      BY <2>4, <3>1, <3>2 DEF ContractBound
  <2>10. CommandsProjected(r, manifest) <=>
           \A k \in DOMAIN manifest :
             CommandProjected(manifest[k], Policy(manifest[k]), Launch(manifest[k]), allowed.network,
                              SandboxEnvironment(Entries[source]))
    <3>1. Len(r.results) = Len(manifest) /\ DOMAIN manifest = 1..Len(manifest)
      BY <2>1, <2>5 DEF AllPassed, TypeInv, IsSeq
    <3>2. \A k \in DOMAIN manifest :
            /\ r.results[k].argv = manifest[k] /\ r.results[k].policy = Policy(manifest[k])
            /\ r.results[k].launch = Launch(manifest[k]) /\ r.results[k].execution = Success
      BY <2>5, <3>1 DEF AllPassed, Passed, Ran
    <3> QED
      BY <2>4, <3>1, <3>2 DEF CommandsProjected
  <2>11. VerdictValid <=> /\ Fits(declared.artifacts) /\ Fits(Cardinality(Entries[source]))
                          /\ Retained("manifest") /\ Retained("receipt") /\ Retained("output")
                          /\ ReceiptValid(r, manifest, declared.hashes, allowed)
    BY <2>1, <2>3, <2>4 DEF VerdictValid
  <2> QED
    BY <2>2, <2>6, <2>7, <2>8, <2>9, <2>10, <2>11, Zenon DEF ReceiptValid, Rereadable
<1> QED
  BY <1>1, RunnerInvariant, PTL

\* The commands of every run are words that the policy executes, once it has
\* validated them.
THEOREM CommandsExecuted == VerifySpec => []PolicyInv
<1>1. VerifyInit => PolicyInv
  BY PolicyInit DEF VerifyInit
<1>2. PolicyInv /\ [VerifyNext]_allVars => PolicyInv'
  <2>1. ASSUME PolicyInv, UNCHANGED allVars PROVE PolicyInv'
    BY <2>1, PolicyKeeps DEF allVars, vars, request, run
  <2> QED
    BY <2>1, PolicyVerifyStep
<1> QED
  BY <1>1, <1>2, PTL DEF VerifySpec

\* ProjectionAgrees for every manifest of words, whatever its length: a signed
\* verdict is refused later exactly when the archive was changed, the evidence
\* cannot be read again (hashes in upper case, too many files), or a command is
\* not spelled as _validate_command_argv executes it, or names a code file twice.
THEOREM ProjectionsAgree == VerifySpec => []ProjectionAgrees
<1>1. AllInv /\ PolicyInv /\ VerdictRestsOnCommands => ProjectionAgrees
  <2> SUFFICES ASSUME AllInv, PolicyInv, VerdictRestsOnCommands, verdict # None
               PROVE  VerdictValid <=>
                        /\ \A f \in SourceSet \ {"artifact"} : archive[f] # "tampered"
                        /\ Rereadable
                        /\ \A k \in DOMAIN manifest : CanonicalSpelling(manifest[k]) /\ NoFileTwice(manifest[k])
    BY DEF ProjectionAgrees
  <2>1. outcome = "returned"
    BY DEF AllInv, VerifyInv
  <2>2. /\ \A k \in DOMAIN manifest : manifest[k] \in Seq(STRING) /\ manifest[k] # <<>>
        /\ \A k \in DOMAIN manifest : Policy(manifest[k]) # Refused
    BY <2>1 DEF PolicyInv, AllExecuted
  <2>3. \A k \in DOMAIN manifest :
          CommandProjected(manifest[k], Policy(manifest[k]), Launch(manifest[k]), allowed.network,
                           SandboxEnvironment(Entries[source]))
            <=> CanonicalSpelling(manifest[k]) /\ NoFileTwice(manifest[k])
    BY <2>2, CommandAgrees DEF Projected, Launch
  <2> QED
    BY <2>3 DEF VerdictRestsOnCommands
<1> QED
  BY <1>1, RunnerInvariant, CommandsExecuted, VerdictsRestOnCommands, PTL
=============================================================================
