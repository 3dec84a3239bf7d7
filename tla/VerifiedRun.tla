----------------------------- MODULE VerifiedRun -----------------------------
(***************************************************************************)
(* What Workspace.verify does around run_trusted_validations: the          *)
(* verifier's evidence is validated (evidence.py), the commands are run,   *)
(* every file is archived under its hash (archive.py), and the verdict is  *)
(* signed over the archive, which the projection reads again later.  All   *)
(* this time other processes may edit the evidence and the archive.        *)
(*                                                                         *)
(* The executor attestation is external: no emitter exists yet, and until  *)
(* one does every run ends there.                                          *)
(***************************************************************************)
EXTENDS TrustedRunner

CONSTANT MaxArchived    \* MAX_ARCHIVED_JSON_BYTES: the file records it has room for

ASSUME ArchiveAssumption == MaxArchived \in Nat

VARIABLES
    stage,      \* where verify is
    edited,     \* source files changed since their hash was taken
    copied,     \* how many of Sources are dealt with
    archive,    \* the files below the bundle's directory
    bundle,     \* the files bundle.json says are retained
    verdict     \* the receipt in the signed event

evidence == <<stage, edited, copied, archive, bundle, verdict>>
allVars == <<vars, evidence>>

\* The files of the bundle, in the order of the code.  The first two are
\* hashed by validate_manifest, the others at the end of the run.
Sources == <<"manifest", "artifact", "receipt", "output">>
SourceSet == ToSet(Sources)
Validated == {"manifest", "artifact"}

VerifyInit ==
    /\ Init
    /\ stage = "manifest" /\ edited = {} /\ copied = 0 /\ bundle = {} /\ verdict = None
    \* An earlier run of the attempt may have archived the same manifest.
    /\ archive \in {[f \in SourceSet |-> "none"], [f \in SourceSet |-> IF f = "manifest" THEN "hashed" ELSE "none"]}

-----------------------------------------------------------------------------
(* validate_manifest *)

\* _read_manifest_once and the reject functions: one view of a bounded file
Readable(d) == d.form = "complete"

\* Every artifact, and every raw output, has the hash the manifest names.
FilesBound(d) == d.artifact = "hashed" /\ d.output = "hashed"

ValidationsPassed(d) ==
    /\ d.exit = 0 /\ d.failed = 0 /\ d.passed + d.skipped > 0
    /\ d.skipped > 0 => d.reasons >= d.skipped /\ allowed.skips

KnownAnswersMatch(d) ==
    /\ allowed.unchecked \/ d.known # <<>>
    /\ \A k \in DOMAIN d.known : d.known[k].passed /\ d.known[k].expected = d.known[k].observed

ClaimsPermitted(d) ==
    /\ "resource" \in d.claims => allowed.gpu
    /\ "performance" \in d.claims => allowed.metrics

\* The hash of the worker's own manifest is refused.
ValidateManifest ==
    /\ stage = "manifest"
    /\ stage' = IF /\ Readable(declared) /\ FilesBound(declared)
                   /\ ValidationsPassed(declared) /\ KnownAnswersMatch(declared)
                   /\ ClaimsPermitted(declared) /\ ~ declared.workers
                THEN "run" ELSE "refused"
    /\ UNCHANGED <<vars, edited, copied, archive, bundle, verdict>>

-----------------------------------------------------------------------------
(* run_trusted_validations and the attestation *)

RunStep == stage = "run" /\ Next /\ UNCHANGED evidence

Returned ==
    /\ stage = "run" /\ At("ended")
    /\ stage' = IF outcome = "returned" THEN "attest" ELSE "failed"
    /\ UNCHANGED <<vars, edited, copied, archive, bundle, verdict>>

\* A step of verify that succeeds, or raises: the run is closed as failed.
Stage(from, to) ==
    /\ stage = from
    /\ \/ stage' = to /\ UNCHANGED vars
       \/ stage' = "failed" /\ Fault
          /\ UNCHANGED <<request, repository, tree, lease, guard, pc, run, sent>>

\* request_executor_attestation and verify_executor_attestation
Attest == Stage("attest", "archive") /\ UNCHANGED <<edited, copied, archive, bundle, verdict>>

-----------------------------------------------------------------------------
(* archive_evidence_bundle *)

\* Mutant: the copy is not hashed
CopyVerified_Unchecked(f) == TRUE

\* _atomic_copy_verified: the copy has the hash that was taken, and so has a
\* file that is there already.
CopyVerified(f) == f \notin edited /\ archive[f] \in {"none", "hashed"}

\* Large artifacts stay outside.
Retains(f) == f = "artifact" => ~ declared.large

CopyContent(f) == IF f \in edited THEN "other" ELSE "hashed"

\* One file.  An external one is only recorded.
ArchiveFile ==
    /\ stage = "archive" /\ copied < Len(Sources)
    /\ LET f == Sources[copied + 1] IN
         \/ ~ Retains(f) /\ UNCHANGED <<stage, archive>>
         \/ /\ Retains(f) /\ CopyVerified(f)
            /\ archive' = [archive EXCEPT ![f] = CopyContent(f)] /\ UNCHANGED stage
         \/ Retains(f) /\ ~ CopyVerified(f) /\ stage' = "failed" /\ UNCHANGED archive
    /\ copied' = copied + 1
    /\ UNCHANGED <<vars, edited, bundle, verdict>>

\* bundle.json
WriteBundle ==
    /\ copied = Len(Sources) /\ Stage("archive", "sign")
    /\ bundle' = IF stage' = "sign" THEN {f \in SourceSet : Retains(f)} ELSE bundle
    /\ UNCHANGED <<edited, copied, archive, verdict>>

\* The signed event.  When the append fails the run stays open, for
\* reconcile_verification (Workspace).
Sign ==
    /\ Stage("sign", "signed")
    /\ verdict' = IF stage' = "signed" THEN receipt ELSE verdict
    /\ UNCHANGED <<edited, copied, archive, bundle>>

-----------------------------------------------------------------------------
(* The rest of the world *)

EditEvidence ==
    /\ Fault
    /\ \E f \in SourceSet \ edited :
         /\ stage \in {"attest", "archive"} \/ (stage = "run" /\ f \in Validated)
         /\ edited' = edited \union {f}
    /\ UNCHANGED <<request, repository, tree, lease, guard, pc, run, sent,
                   stage, copied, archive, bundle, verdict>>

EditArchive ==
    /\ Fault /\ stage \notin {"manifest", "refused", "failed"}
    /\ \E f \in SourceSet :
         /\ archive[f] # "none"
         /\ archive' = [archive EXCEPT ![f] = "tampered"]
    /\ UNCHANGED <<request, repository, tree, lease, guard, pc, run, sent,
                   stage, edited, copied, bundle, verdict>>

VerifyNext ==
    \/ ValidateManifest \/ RunStep \/ Returned \/ Attest
    \/ ArchiveFile \/ WriteBundle \/ Sign
    \/ EditEvidence \/ EditArchive

VerifySpec == VerifyInit /\ [][VerifyNext]_allVars

-----------------------------------------------------------------------------
(* The reader and the properties *)

\* bundle.json and receipt.json are not larger than the projection reads.  The
\* one lists the artifacts, the other the files of the commit.
Fits(records) == records <= MaxArchived

\* _retained_bundle_evidence, _retained_json: the file's bytes still have the
\* hash the bundle names.  The manifest is within the limit since it was read.
Retained(f) == f \in bundle /\ archive[f] = "hashed"

\* _valid_trusted_verification of the signed verdict
VerdictValid ==
    /\ Fits(declared.artifacts) /\ Fits(Cardinality(verdict.files))
    /\ Retained("manifest") /\ Retained("receipt") /\ Retained("output")
    /\ ReceiptValid(verdict, manifest, declared.hashes, allowed)

\* Nothing verify checks refuses these, and the projection does: a hash in upper
\* case, and a commit or a manifest of too many files to be read again.
Rereadable ==
    declared.hashes = "lower" /\ Fits(declared.artifacts) /\ Fits(Cardinality(Entries[source]))

\* The verifier and the projection agree about every signed verdict: what was
\* validated, run and archived, while others edit all of it, is accepted when
\* it is read again unless the archive was changed afterwards, a hash is spelled
\* in upper case, the commit or the bundle has too many files, or a command is
\* not spelled as it was executed or names a code file twice.  Those runs pass
\* and are signed although their receipt can never be verified.
ProjectionAgrees ==
    verdict # None =>
        (VerdictValid <=>
            /\ \A f \in SourceSet \ {"artifact"} : archive[f] # "tampered"
            /\ Rereadable
            /\ \A k \in DOMAIN manifest : CanonicalSpelling(manifest[k]) /\ NoFileTwice(manifest[k]))

\* What validation_contract_sha256 says of itself, not a property of the code: it
\* "lets the read-side projection independently rebuild the same contract from
\* archived bytes".
ContractRebuilt ==
    verdict # None => ContractBound(verdict, manifest, declared.hashes)
=============================================================================
