-------------------------- MODULE TrustProjection --------------------------
(***************************************************************************)
(* trust_projection.py over the ledger and the task files of Workspace:    *)
(* how the doctor, the dashboard and the publisher decide what a task file *)
(* that says "verified" is worth.  Each operator is a pure function of the *)
(* signed events and of one task record, which is read without a lock.     *)
(* The receipt inside the verification is TrustedRunner's ReceiptValid and *)
(* is taken as valid here.                                                 *)
(***************************************************************************)
EXTENDS Workspace

Indices == 1..Len(ledger)

\* _validate_capability_receipt: the receipt verifies (ActorCapability), and
\* the authority's trust root is independent.
ReceiptTrusted == OsIsolationProven

\* _verification_binding_reasons is empty: a verdict is by the actor of the
\* start; a failure by that actor, or by the orchestrator that reconciled it.
BindingValid(s, i) ==
    \/ ledger[i].actor = ledger[s].actor
    \/ ledger[i].action = "verification.failed" /\ ledger[i].actor = Orchestrator

\* audit_verification_runs finds no reason against the run that starts at s
\* and ends at i.
RunValid(s, i) ==
    LET started == ledger[s]
        terminal == ledger[i]
    IN /\ Starts(started.run) = {s} /\ Terminals(started.run) = {i}
       /\ terminal.id = started.id /\ s < i /\ terminal.attempt = started.attempt
       /\ terminal.action # "verification.failed" =>
            /\ terminal.task.state =
                 IF terminal.action = "task.verified" THEN "verified" ELSE "rejected"
            /\ terminal.task.run = started.run
       /\ BindingValid(s, i)

\* require_authoritative_verification_terminal: i is the one terminal event of
\* its run, and the run's audit accepts it.
AuthoritativeTerminal(t, i) ==
    \E s \in Starts(ledger[i].task.run) : ledger[s].id = t /\ RunValid(s, i)

\* The task.verified events for the attempt the task file names.
Candidates(t, task) ==
    {i \in Indices : /\ ledger[i].action = "task.verified" /\ ledger[i].id = t
                     /\ ledger[i].task.attempt = task.attempt}

\* _authoritative_verification returns the event at i.
Authoritative(t, task, i) ==
    /\ task.attempt >= 1
    /\ Candidates(t, task) = {i}
    /\ ledger[i].task.state = "verified"
    /\ task.run = ledger[i].task.run
    /\ AuthoritativeTerminal(t, i)
    /\ ReceiptTrusted

Restatements(t) ==
    {i \in Indices : ledger[i].action = "verification.restatement" /\ ledger[i].id = t}

\* Every restatement of t is the orchestrator's, and about an earlier
\* task.verified event of t; no revocation is followed by a weaker status.
RestatementsAccepted(t) ==
    /\ \A i \in Restatements(t) :
         LET k == ledger[i].note.target
         IN /\ k \in Indices /\ k < i
            /\ ledger[k].action = "task.verified" /\ ledger[k].id = t
            /\ ledger[i].actor = Orchestrator /\ ReceiptTrusted
            /\ ledger[i].note.status \in Statuses
    /\ \A i, j \in Restatements(t) :
         i < j /\ ledger[i].note.target = ledger[j].note.target
               /\ ledger[i].note.status = "verification_revoked" =>
             ledger[j].note.status = "verification_revoked"

\* Mutant: the first restatement decides, not the last.
Effective_First(t, k) ==
    LET about == {i \in Restatements(t) : ledger[i].note.target = k}
    IN {ledger[i].note.status : i \in {j \in about : \A m \in about : j <= m}}

\* _effective_restatement: the status of the last restatement of the event at
\* k, or the empty set.
Effective(t, k) ==
    LET about == {i \in Restatements(t) : ledger[i].note.target = k}
    IN {ledger[i].note.status : i \in {j \in about : \A m \in about : m <= j}}

\* task_trust_projection's historical state.  The verification records whether
\* its verifier was independent of the worker.  Every exception on the way is
\* caught and answered as disputed.
TrustState(t, task) ==
    IF task.state \notin {"verified", "archived"} THEN task.state
    ELSE IF \E k \in Indices :
              /\ Authoritative(t, task, k)
              /\ evaluate_independence(Identity[Owner[t]], Identity[ledger[k].actor])
              /\ RestatementsAccepted(t)
    THEN LET k == CHOOSE i \in Indices : Authoritative(t, task, i)
         IN IF Effective(t, k) = {} THEN task.state ELSE CHOOSE s \in Effective(t, k) : TRUE
    ELSE "verification_disputed"

-----------------------------------------------------------------------------
(* audit_verification_events of independence.py: the doctor's own reading of *)
(* the same events, which uses none of the above.                            *)

\* The submission a verdict is about: the last one of its task before it.
AuditedSubmission(i, k) ==
    /\ i < k /\ ledger[i].action = "task.submitted" /\ ledger[i].id = ledger[k].id
    /\ \A j \in (i + 1)..(k - 1) :
         ~ (ledger[j].action = "task.submitted" /\ ledger[j].id = ledger[k].id)

AuditedIndependence(k) ==
    \E i \in Indices : /\ AuditedSubmission(i, k)
                       /\ evaluate_independence(Identity[ledger[i].actor], Identity[ledger[k].actor])

\* A restatement without reasons against it, taken alone
Restates(i, k) ==
    /\ ledger[i].action = "verification.restatement" /\ ledger[i].note.target = k
    /\ ledger[k].action = "task.verified" /\ ledger[i].id = ledger[k].id /\ k < i
    /\ ledger[i].note.status \in Statuses /\ ledger[i].actor = Orchestrator

\* latest_restatement: a weaker status after a revocation is set aside.
AuditStatus(k) ==
    IF \E i \in Indices : Restates(i, k) /\ ledger[i].note.status = "verification_revoked"
    THEN "verification_revoked"
    ELSE IF AuditedIndependence(k) /\ ~ \E i \in Indices : Restates(i, k)
    THEN "verified" ELSE "verification_disputed"

\* "valid": no restatement was refused, and every verdict that is not
\* independent has been restated.
AuditValid ==
    /\ \A i \in Indices : ledger[i].action = "verification.restatement" =>
         \E k \in Indices :
           /\ Restates(i, k)
           /\ ~ \E j \in 1..(i - 1) : /\ Restates(j, k)
                                        /\ ledger[j].note.status = "verification_revoked"
                                        /\ ledger[i].note.status # "verification_revoked"
    /\ \A k \in Indices : ledger[k].action = "task.verified" =>
         AuditedIndependence(k) \/ \E i \in Indices : Restates(i, k)

-----------------------------------------------------------------------------
\* What a reader is told of a task file that says verified, at any moment and
\* after any crash and take-over, is what the signed history says: revoked once
\* the verdict was revoked, whatever was signed before; disputed when it was
\* disputed, or when a crash made two verdicts of one attempt; and trusted
\* otherwise, so no history that the workspace signs makes the projection reject
\* a sound one.  The doctor's audit accepts every such history too, and gives a
\* single verdict the same status.
TrustFollowsLedger ==
    Undisturbed =>
        /\ AuditValid
        /\ \A t \in Tasks :
            LET task == projection[t]
                verdicts == {i \in Indices : /\ ledger[i].action = "task.verified"
                                             /\ ledger[i].id = t
                                             /\ ledger[i].attempt = task.attempt}
                Said(status) == \E i \in Indices, k \in verdicts :
                                   ledger[i].note.target = k /\ ledger[i].note.status = status
            IN task.state = "verified" =>
                 /\ TrustState(t, task) =
                      IF \E i, j \in verdicts : i # j THEN "verification_disputed"
                      ELSE IF Said("verification_revoked") THEN "verification_revoked"
                      ELSE IF Said("verification_disputed") THEN "verification_disputed"
                      ELSE "verified"
                 /\ \A k \in verdicts : verdicts = {k} => TrustState(t, task) = AuditStatus(k)
=============================================================================
