--------------------------- MODULE ActorCapability ---------------------------
(***************************************************************************)
(* ActorCapabilityAuthority of actor_capability.py, for one actor of one   *)
(* workspace: the one-time bootstrap guard, the key record, short-lived    *)
(* bearer tokens, the consumption markers under used/, and key rotation.   *)
(* Every call runs in a process of its own and shares only the files.  A   *)
(* process may die between any two file operations, a write may raise, and *)
(* the clock may be set back.  rotate runs under the FileLock of lock.py,  *)
(* whose stat and unlink of a stale file are two steps.                    *)
(*                                                                         *)
(* A key is named by the secret it is derived from, a signature by the key *)
(* that made it, and an operation with its task, run and attempt binding   *)
(* by one scope.                                                           *)
(***************************************************************************)
EXTENDS Naturals, Sequences, FiniteSets

CONSTANTS
    Procs, Secrets,
    Scopes,         \* operations with their bindings
    Rotate,         \* "capability.rotate", unbound
    StaleSeconds,   \* stale_seconds of rotation.lock
    TTL,            \* ttl_seconds of a token
    Leeway,         \* the 5 seconds a token may come from the future
    MaxTokens, MaxTime, MaxFaults  \* bounds

ASSUME ConstantsAssumption ==
    /\ Rotate \in Scopes
    /\ {StaleSeconds, TTL, Leeway, MaxTokens, MaxTime, MaxFaults} \subseteq Nat
    /\ TTL > 0

VARIABLES
    now,        \* int(time.time())
    guard,      \* bootstrap.guard.json
    record,     \* key.json
    used,       \* the marker of each token
    lock,       \* rotation.lock: the times of last change of the files there, none or one
    tokens,     \* the tokens minted so far; a token's nonce is its place
    receipts,   \* the receipts returned to a caller
    grants,     \* how often each token has been accepted
    rotations,  \* the rotations reported done
    proc,       \* what each process is doing
    faults,     \* crashes, failed writes and steps back of the clock so far
    robbed      \* history: rotation.lock was unlinked as stale with a process inside rotate

files == <<guard, record, used, lock>>
answers == <<receipts, grants, rotations>>
vars == <<now, files, tokens, answers, proc, faults, robbed>>

Nonces == 1..MaxTokens
Absent == [file |-> "absent"]
\* created, and not yet or not wholly written
Torn == [file |-> "torn"]
Idle == [pc |-> "idle"]

\* A key record: the active version, its key and the retired ones
Records == [file : {"ok"}, version : Nat \ {0}, key : Secrets,
            retired : SUBSET [version : Nat \ {0}, key : Secrets]]
Receipts == [nonce : Nonces, scope : Scopes, version : Nat \ {0}, key : Secrets,
             issued : Nat, expires : Nat, consumed : Nat]

TypeOK ==
    /\ now \in 0..MaxTime
    /\ guard \in {Absent, Torn} \union [file : {"ok"}, secret : Secrets]
    /\ record \in {Absent, Torn} \union Records
    /\ used \in [Nonces -> {Absent, Torn} \union [file : {"ok"}, receipt : Receipts]]
    /\ lock \in SUBSET Nat
    /\ tokens \in Seq([scope : Scopes, version : Nat \ {0}, key : Secrets,
                       issued : Nat, expires : Nat])
    /\ receipts \subseteq Receipts
    /\ grants \in [Nonces -> Nat] /\ rotations \in Nat
    /\ robbed \in BOOLEAN

Init ==
    /\ now = 0 /\ guard = Absent /\ record = Absent
    /\ used = [n \in Nonces |-> Absent] /\ lock = {}
    /\ tokens = <<>> /\ receipts = {}
    /\ grants = [n \in Nonces |-> 0] /\ rotations = 0
    /\ proc = [p \in Procs |-> Idle]
    /\ faults = 0 /\ robbed = FALSE

-----------------------------------------------------------------------------
(* Steps of a process *)

At(p, pc) == proc[p].pc = pc
Go(p, state) == proc' = [proc EXCEPT ![p] = state]
Done(p) == Go(p, Idle)
Fault == faults < MaxFaults /\ faults' = faults + 1
Sound == UNCHANGED <<now, faults>>

\* The process is inside rotate.
Rotating(p) ==
    \/ proc[p].pc \in {"mark", "fill marker"} /\ proc[p].to = "swap"
    \/ proc[p].pc \in {"swap", "write"}

\* FileLock.release: a rotation unlinks rotation.lock by its path however it
\* ends, whoever's file is there.
Unlocked(p) == lock' = IF Rotating(p) THEN {} ELSE lock

-----------------------------------------------------------------------------
(* Bootstrap *)

\* provision_guard, up to its exists() tests
ProvisionGuard(p) ==
    /\ At(p, "idle") /\ record = Absent /\ guard = Absent
    /\ \E s \in Secrets : Go(p, [pc |-> "provision", secret |-> s])
    /\ Sound /\ UNCHANGED <<files, tokens, answers>>

\* its exclusive create
CreateGuard(p) ==
    /\ At(p, "provision")
    /\ \/ guard = Absent /\ guard' = Torn /\ Go(p, [proc[p] EXCEPT !.pc = "fill guard"])
       \/ guard # Absent /\ Done(p) /\ UNCHANGED guard
    /\ Sound /\ UNCHANGED <<record, used, lock, tokens, answers>>

\* its write, or the unlink when that raises
FillGuard(p) ==
    /\ At(p, "fill guard") /\ Done(p)
    /\ \/ guard' = [file |-> "ok", secret |-> proc[p].secret] /\ UNCHANGED faults
       \/ guard' = Absent /\ Fault
    /\ UNCHANGED <<now, record, used, lock, tokens, answers>>

\* bootstrap, up to the check of the secret against the guard's digest
Bootstrap(p) ==
    /\ At(p, "idle") /\ record = Absent /\ guard.file = "ok"
    /\ Go(p, [pc |-> "bootstrap", secret |-> guard.secret])
    /\ Sound /\ UNCHANGED <<files, tokens, answers>>

\* the exclusive create that decides between two bootstraps
CreateRecord(p) ==
    /\ At(p, "bootstrap")
    /\ \/ record = Absent /\ record' = Torn /\ Go(p, [proc[p] EXCEPT !.pc = "fill record"])
       \/ record # Absent /\ Done(p) /\ UNCHANGED record
    /\ Sound /\ UNCHANGED <<guard, used, lock, tokens, answers>>

FillRecord(p) ==
    /\ At(p, "fill record")
    /\ \/ /\ record' = [file |-> "ok", version |-> 1, key |-> proc[p].secret, retired |-> {}]
          /\ Go(p, [pc |-> "drop guard"]) /\ UNCHANGED faults
       \/ record' = Absent /\ Done(p) /\ Fault
    /\ UNCHANGED <<now, guard, used, lock, tokens, answers>>

\* guard_path.unlink()
DropGuard(p) ==
    /\ At(p, "drop guard") /\ Done(p)
    /\ \/ guard' = Absent /\ UNCHANGED faults
       \/ UNCHANGED guard /\ Fault
    /\ UNCHANGED <<now, record, used, lock, tokens, answers>>

-----------------------------------------------------------------------------
(* Tokens *)

\* _record: the key record reads and passes its checks.
Usable(r) ==
    /\ r.file = "ok"
    /\ \A k \in r.retired : k.version < r.version
    /\ \A k, l \in r.retired : k.version = l.version => k = l

\* mint, with the credential of the active key
Mint(p) ==
    /\ At(p, "idle") /\ Usable(record) /\ Len(tokens) < MaxTokens
    /\ \E scope \in Scopes :
         tokens' = Append(tokens,
             [scope |-> scope, version |-> record.version, key |-> record.key,
              issued |-> now, expires |-> now + TTL])
    /\ Sound /\ UNCHANGED <<files, answers, proc>>

\* the window a token is accepted in
Timely(t) == t.issued <= now + Leeway /\ now < t.expires

\* The receipt verify_and_consume makes out for token n, before the marker.
ReceiptFor(n) ==
    [nonce |-> n, scope |-> tokens[n].scope, version |-> record.version, key |-> record.key,
     issued |-> tokens[n].issued, expires |-> tokens[n].expires, consumed |-> now]

\* verify_and_consume, up to the marker: signature, scope, version and window
Verified(n, scope) ==
    /\ Usable(record)
    /\ tokens[n].key = record.key
    /\ tokens[n].version = record.version
    /\ tokens[n].scope = scope
    /\ Timely(tokens[n])

\* A service checks a token for an operation other than rotation.
Present(p) ==
    /\ At(p, "idle")
    /\ \E n \in DOMAIN tokens, scope \in Scopes \ {Rotate} :
         Verified(n, scope) /\ Go(p, [pc |-> "mark", receipt |-> ReceiptFor(n), to |-> "answer"])
    /\ Sound /\ UNCHANGED <<files, tokens, answers>>

\* Mutant: the marker is opened without O_EXCL
Mark_Shared(p) ==
    /\ At(p, "mark")
    /\ used' = [used EXCEPT ![proc[p].receipt.nonce] = Torn]
    /\ Go(p, [proc[p] EXCEPT !.pc = "fill marker"])
    /\ Sound /\ UNCHANGED <<guard, record, lock, tokens, answers>>

\* the exclusive create of the marker
Mark(p) ==
    /\ At(p, "mark")
    /\ LET n == proc[p].receipt.nonce IN
       \/ /\ used[n] = Absent /\ used' = [used EXCEPT ![n] = Torn]
          /\ Go(p, [proc[p] EXCEPT !.pc = "fill marker"]) /\ UNCHANGED lock
       \/ used[n] # Absent /\ Done(p) /\ Unlocked(p) /\ UNCHANGED used
    /\ Sound /\ UNCHANGED <<guard, record, tokens, answers>>

\* the marker's write, or the unlink when it raises
FillMarker(p) ==
    /\ At(p, "fill marker")
    /\ LET n == proc[p].receipt.nonce IN
       \/ /\ used' = [used EXCEPT ![n] = [file |-> "ok", receipt |-> proc[p].receipt]]
          /\ Go(p, [proc[p] EXCEPT !.pc = proc[p].to]) /\ UNCHANGED <<lock, faults>>
       \/ used' = [used EXCEPT ![n] = Absent] /\ Done(p) /\ Unlocked(p) /\ Fault
    /\ UNCHANGED <<now, guard, record, tokens, answers>>

Granted(n) == grants' = [grants EXCEPT ![n] = @ + 1]

\* verify_and_consume returns.
Answer(p) ==
    /\ At(p, "answer") /\ Done(p)
    /\ receipts' = receipts \union {proc[p].receipt}
    /\ Granted(proc[p].receipt.nonce)
    /\ Sound /\ UNCHANGED <<files, tokens, rotations>>

\* _receipt_key: the active or the retired key of that version
ReceiptKey(version, key) ==
    \/ record.version = version /\ record.key = key
    \/ [version |-> version, key |-> key] \in record.retired

\* validate_receipt, for the scope the receipt names
Valid(r) ==
    /\ r.issued <= r.consumed /\ r.consumed < r.expires
    /\ Usable(record)
    /\ ReceiptKey(r.version, r.key)
    /\ used[r.nonce] = [file |-> "ok", receipt |-> r]

-----------------------------------------------------------------------------
(* Rotation *)

\* Mutant: rotate runs without its lock
LockFree_Always == TRUE

\* FileLock.acquire: its exclusive create succeeds.
LockFree == lock = {}

\* _remove_if_stale: a process waiting for the lock finds its file too old...
FindStale(p) ==
    /\ At(p, "idle") /\ \E m \in lock : now > m + StaleSeconds
    /\ Go(p, [pc |-> "unlink"])
    /\ Sound /\ UNCHANGED <<files, tokens, answers>>

\* ...and unlinks the file that is there by now.
UnlinkStale(p) ==
    /\ At(p, "unlink") /\ Done(p)
    /\ lock' = {}
    /\ robbed' = (robbed \/ (lock # {} /\ \E q \in Procs : Rotating(q)))
    /\ Sound /\ UNCHANGED <<guard, record, used, tokens, answers>>

\* rotate, up to the marker of its token
BeginRotate(p) ==
    /\ At(p, "idle") /\ LockFree
    /\ \E n \in DOMAIN tokens, s \in Secrets :
         /\ Verified(n, Rotate)
         /\ Go(p, [pc |-> "mark", receipt |-> ReceiptFor(n), to |-> "swap", secret |-> s])
    /\ lock' = {now}
    /\ Sound /\ UNCHANGED <<guard, record, used, tokens, answers>>

\* the compare-and-swap on key_version, against a fresh read of the record
CompareVersion(p) ==
    /\ At(p, "swap")
    /\ Granted(proc[p].receipt.nonce)
    /\ \/ /\ Usable(record) /\ record.version = proc[p].receipt.version
          /\ Go(p, [pc |-> "write", secret |-> proc[p].secret, record |-> record])
          /\ UNCHANGED lock
       \/ /\ ~ (Usable(record) /\ record.version = proc[p].receipt.version)
          /\ Done(p) /\ Unlocked(p)
    /\ Sound /\ UNCHANGED <<guard, record, used, tokens, receipts, rotations>>

\* Mutant: rotate keeps only the last retired key
Rotated_LastOnly(r, s) ==
    [r EXCEPT !.version = @ + 1, !.key = s,
              !.retired = {[version |-> r.version, key |-> r.key]}]

\* The record rotate writes in place of r.
Rotated(r, s) ==
    [r EXCEPT !.version = @ + 1, !.key = s,
              !.retired = @ \union {[version |-> r.version, key |-> r.key]}]

\* _secure_write, atomic, and the end of the lock; it may raise before or
\* after the file is in place.
WriteRecord(p) ==
    /\ At(p, "write") /\ Done(p) /\ Unlocked(p)
    /\ \/ /\ record' = Rotated(proc[p].record, proc[p].secret)
          /\ rotations' = rotations + 1 /\ UNCHANGED faults
       \/ record' \in {record, Rotated(proc[p].record, proc[p].secret)} /\ Fault /\ UNCHANGED rotations
    /\ UNCHANGED <<now, guard, used, tokens, receipts, grants>>

-----------------------------------------------------------------------------
(* Time and failure *)

Crash(p) ==
    /\ ~ At(p, "idle") /\ Fault /\ Done(p)
    /\ UNCHANGED <<now, files, tokens, answers>>

Tick == now < MaxTime /\ now' = now + 1 /\ UNCHANGED <<files, tokens, answers, proc, faults>>

\* The clock is set back by a second.
SetBack ==
    /\ now > 0 /\ now' = now - 1 /\ Fault
    /\ UNCHANGED <<files, tokens, answers, proc>>

Step(p) ==
    \/ ProvisionGuard(p) \/ CreateGuard(p) \/ FillGuard(p)
    \/ Bootstrap(p) \/ CreateRecord(p) \/ FillRecord(p) \/ DropGuard(p)
    \/ Mint(p) \/ Present(p) \/ Mark(p) \/ FillMarker(p) \/ Answer(p)
    \/ FindStale(p) \/ BeginRotate(p) \/ CompareVersion(p) \/ WriteRecord(p)
    \/ Crash(p)

Next ==
    \/ \E p \in Procs : Step(p) /\ UNCHANGED robbed
    \/ \E p \in Procs : UnlinkStale(p)
    \/ (Tick \/ SetBack) /\ UNCHANGED robbed

Spec == Init /\ [][Next]_vars

-----------------------------------------------------------------------------
(* Properties *)

\* A token is accepted at most once (verify_and_consume, "atomically consume
\* one actor capability proof"), whichever processes present it and wherever
\* they fail, and once it has been accepted its marker holds a receipt, so that
\* no later call can accept it again.
SpentOnce ==
    \A n \in Nonces : /\ grants[n] <= 1
                      /\ grants[n] = 1 => used[n].file = "ok"

\* A receipt handed to a caller stays valid (validate_receipt) through any later
\* rotations, failed or interrupted ones and take-overs of a dead process's lock
\* included: its key is active or retired and its marker is the one written for
\* it.  Two exceptions: a receipt consumed, by a clock set back within the leeway,
\* before its token was issued; and a rotation whose lock file was unlinked while
\* it was running (_remove_if_stale).
ReceiptsStayValid ==
    ~ robbed => \A r \in receipts : r.issued <= r.consumed => Valid(r)

\* No rotation that was reported done is overwritten by another ("compare and
\* swap" of rotate): each one has its own key version, also when the lock of a
\* dead process has been taken over, as long as the lock file of a running one
\* never was.
RotationsKept == ~ robbed /\ record.file = "ok" => rotations < record.version

\* Known behaviour, not a property of the code: RotationsKept without its
\* condition.  Of two processes that find a dead process's lock file stale, the
\* slower unlinks the file the faster has just created (lock.py, lines 55 and
\* 61); both pass the compare-and-swap, and one key replaces the other.
EveryRotationKept == record.file = "ok" => rotations < record.version

=============================================================================
