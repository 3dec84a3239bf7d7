----------------------- MODULE ActorCapabilityProofs -----------------------
(***************************************************************************)
(* Proofs about ActorCapability, for every set of processes, secrets and   *)
(* scopes, any number of tokens, and any number of crashes, failed writes  *)
(* and steps back of the clock: a token is accepted once; and as long as   *)
(* no running rotation loses its lock file, no rotation is lost and a      *)
(* receipt stays valid.                                                    *)
(***************************************************************************)
EXTENDS ActorCapability, TLAPS

\* What a process holds in memory in each step.
States ==
    [pc : {"idle", "drop guard", "unlink"}]
    \union [pc : {"provision", "fill guard", "bootstrap", "fill record"}, secret : Secrets]
    \union [pc : {"mark", "fill marker", "answer"}, receipt : Receipts, to : {"answer"}]
    \union [pc : {"mark", "fill marker", "swap"}, receipt : Receipts, to : {"swap"}, secret : Secrets]
    \union [pc : {"write"}, secret : Secrets, record : Records]

TypeInv ==
    /\ TypeOK
    /\ Len(tokens) <= MaxTokens
    /\ proc \in [Procs -> States]
    /\ faults \in Nat

\* The process has created the marker of token n and has not answered yet.
Spends(p, n) == proc[p].pc \in {"fill marker", "answer", "swap"} /\ proc[p].receipt.nonce = n

\* SpentOnce is not inductive: a second call is refused because the marker is
\* there from the moment it is created, and is unlinked by its creator alone.
Spending(n) ==
    /\ grants[n] \in {0, 1}
    /\ grants[n] = 1 => used[n].file = "ok"
    /\ \A p \in Procs : Spends(p, n) =>
         /\ grants[n] = 0 /\ used[n] # Absent
         /\ proc[p].pc # "fill marker" => used[n] = [file |-> "ok", receipt |-> proc[p].receipt]
         /\ \A q \in Procs : Spends(q, n) => q = p
SpendInv == \A n \in Nonces : Spending(n)

\* No other process is inside rotate, and the lock file is there.
Alone(p) == lock # {} /\ \A q \in Procs : Rotating(q) => q = p

\* Holds until a running rotation is robbed of its lock file.
RotateInv ==
    /\ \A p \in Procs : Rotating(p) => Alone(p)
    /\ \A p \in Procs : proc[p].pc = "write" => proc[p].record = record
    /\ \A p \in Procs : proc[p].pc = "fill record" =>
         record = Torn /\ \A q \in Procs : proc[q].pc = "fill record" => q = p
    /\ record.file = "ok" => Usable(record)
    /\ IF record.file = "ok" THEN rotations < record.version ELSE rotations = 0

\* The receipt was signed with a key the record still knows, in its window.
Signed(r) ==
    record.file = "ok" /\ ReceiptKey(r.version, r.key) /\ r.consumed < r.expires

ReceiptInv ==
    /\ \A p \in Procs : proc[p].pc \in {"mark", "fill marker", "answer"} => Signed(proc[p].receipt)
    /\ \A r \in receipts :
         Signed(r) /\ grants[r.nonce] = 1 /\ used[r.nonce] = [file |-> "ok", receipt |-> r]

-----------------------------------------------------------------------------
(* Types *)

\* A step of p replaces the state of p and no other.
LEMMA GoTyped ==
  ASSUME TypeInv, NEW p \in Procs, NEW s \in States, Go(p, s)
  PROVE  /\ proc' \in [Procs -> States]
         /\ proc'[p] = s
         /\ \A q \in Procs : q # p => proc'[q] = proc[q]
  BY DEF TypeInv, Go

\* A process that provisions or bootstraps holds its secret.
LEMMA SecretHeld ==
  ASSUME TypeInv, NEW p \in Procs,
         proc[p].pc \in {"provision", "fill guard", "bootstrap", "fill record"}
  PROVE  /\ proc[p].secret \in Secrets
         /\ \A c \in {"fill guard", "fill record"} : [proc[p] EXCEPT !.pc = c] \in States
<1>1. proc[p] \in States
  BY DEF TypeInv
<1>2. proc[p] \in [pc : {"provision", "fill guard", "bootstrap", "fill record"}, secret : Secrets]
  BY <1>1 DEF States
<1> QED
  BY <1>2 DEF States

\* From verification to the answer a process holds the receipt it made out.
LEMMA ReceiptHeld ==
  ASSUME TypeInv, NEW p \in Procs, proc[p].pc \in {"mark", "fill marker", "answer", "swap"}
  PROVE  /\ proc[p].receipt \in Receipts
         /\ proc[p].receipt.nonce \in Nonces
         /\ proc[p].to \in {"answer", "swap"}
         /\ proc[p].to = "swap" => proc[p].secret \in Secrets
         /\ proc[p].pc = "answer" => proc[p].to = "answer"
         /\ proc[p].pc = "swap" => proc[p].to = "swap"
<1>1. proc[p] \in States
  BY DEF TypeInv
<1>2. \/ proc[p] \in [pc : {"mark", "fill marker", "answer"}, receipt : Receipts, to : {"answer"}]
      \/ proc[p] \in [pc : {"mark", "fill marker", "swap"}, receipt : Receipts, to : {"swap"}, secret : Secrets]
  BY <1>1 DEF States
<1>3. proc[p].receipt \in Receipts
  BY <1>2
<1> QED
  BY <1>2, <1>3 DEF Receipts

\* Creating and writing the marker do not change the receipt.
LEMMA ReceiptKept ==
  ASSUME TypeInv, NEW p \in Procs, proc[p].pc \in {"mark", "fill marker"},
         NEW c \in {"fill marker", proc[p].to}
  PROVE  /\ [proc[p] EXCEPT !.pc = c] \in States
         /\ [proc[p] EXCEPT !.pc = c].pc = c
         /\ [proc[p] EXCEPT !.pc = c].receipt = proc[p].receipt
         /\ [proc[p] EXCEPT !.pc = c].to = proc[p].to
<1>1. proc[p] \in States
  BY DEF TypeInv
<1>2. \/ proc[p] \in [pc : {"mark", "fill marker", "answer"}, receipt : Receipts, to : {"answer"}]
      \/ proc[p] \in [pc : {"mark", "fill marker", "swap"}, receipt : Receipts, to : {"swap"}, secret : Secrets]
  BY <1>1 DEF States
<1>3. CASE proc[p] \in [pc : {"mark", "fill marker", "answer"}, receipt : Receipts, to : {"answer"}]
  <2>1. [proc[p] EXCEPT !.pc = c] \in [pc : {"mark", "fill marker", "answer"}, receipt : Receipts, to : {"answer"}]
    BY <1>3
  <2> QED
    BY <1>3, <2>1 DEF States
<1>4. CASE proc[p] \in [pc : {"mark", "fill marker", "swap"}, receipt : Receipts, to : {"swap"}, secret : Secrets]
  <2>1. [proc[p] EXCEPT !.pc = c] \in [pc : {"mark", "fill marker", "swap"}, receipt : Receipts, to : {"swap"}, secret : Secrets]
    BY <1>4
  <2> QED
    BY <1>4, <2>1 DEF States
<1> QED
  BY <1>2, <1>3, <1>4

\* A rotation that passed its compare-and-swap holds the record it read.
LEMMA WriteHeld ==
  ASSUME TypeInv, NEW p \in Procs, proc[p].pc = "write"
  PROVE  proc[p].secret \in Secrets /\ proc[p].record \in Records
  BY DEF TypeInv, States

\* What rotate writes: the next version, the new key, one more retired key.
LEMMA RotatedTyped ==
  ASSUME NEW r \in Records, NEW s \in Secrets
  PROVE  /\ Rotated(r, s) \in Records
         /\ Rotated(r, s).file = "ok"
         /\ Rotated(r, s).version = r.version + 1
         /\ Rotated(r, s).key = s
         /\ Rotated(r, s).retired = r.retired \union {[version |-> r.version, key |-> r.key]}
<1>1. [version |-> r.version, key |-> r.key] \in [version : Nat \ {0}, key : Secrets]
  BY DEF Records
<1>2. r.version + 1 \in Nat \ {0}
  BY DEF Records
<1> QED
  BY <1>1, <1>2 DEF Rotated, Records

\* A receipt is made out with the active key, inside the token's window.
LEMMA ReceiptForTyped ==
  ASSUME TypeInv, NEW n \in DOMAIN tokens, NEW scope, Verified(n, scope)
  PROVE  /\ ReceiptFor(n) \in Receipts
         /\ ReceiptFor(n).nonce = n
         /\ ReceiptFor(n).version = record.version
         /\ ReceiptFor(n).key = record.key
         /\ ReceiptFor(n).consumed < ReceiptFor(n).expires
         /\ record \in Records
         /\ record.file = "ok"
<1>1. /\ tokens[n] \in [scope : Scopes, version : Nat \ {0}, key : Secrets, issued : Nat, expires : Nat]
      /\ n \in Nonces
      /\ now \in Nat
  <2>1. MaxTokens \in Nat /\ MaxTime \in Nat
    BY ConstantsAssumption
  <2>2. tokens \in Seq([scope : Scopes, version : Nat \ {0}, key : Secrets, issued : Nat, expires : Nat])
    BY DEF TypeInv, TypeOK
  <2>3. n \in 1 .. Len(tokens) /\ Len(tokens) \in Nat /\ Len(tokens) <= MaxTokens
    BY <2>2 DEF TypeInv
  <2>4. now \in Nat
    BY <2>1 DEF TypeInv, TypeOK
  <2>5. n \in Nonces
    BY <2>1, <2>3 DEF Nonces
  <2>6. \A S : \A t \in Seq(S) : \A i \in 1 .. Len(t) : t[i] \in S
    OBVIOUS
  <2>7. tokens[n] \in [scope : Scopes, version : Nat \ {0}, key : Secrets, issued : Nat, expires : Nat]
    BY <2>2, <2>3, <2>6
  <2> QED
    BY <2>4, <2>5, <2>7
<1>2. record \in Records /\ record.file = "ok"
  BY DEF TypeInv, TypeOK, Verified, Usable, Absent, Torn
<1>3. now < tokens[n].expires
  BY DEF Verified, Timely
<1> QED
  BY <1>1, <1>2, <1>3 DEF ReceiptFor, Receipts, Records

\* Every operation preserves the types.
LEMMA TypeStep ==
  ASSUME TypeInv, NEW p \in Procs, Step(p), UNCHANGED robbed
  PROVE  TypeInv'
<1> USE DEF files, answers, At, Sound
<1>0. Idle \in States /\ [pc |-> "drop guard"] \in States /\ Procs \in SUBSET Procs
  BY DEF Idle, States
<1>f. Fault => faults' \in Nat
  BY DEF Fault, TypeInv
<1>u. Unlocked(p) => lock' \in SUBSET Nat
  BY DEF Unlocked, TypeInv, TypeOK
<1>1. CASE ProvisionGuard(p)
  <2>1. PICK s \in Secrets : Go(p, [pc |-> "provision", secret |-> s])
    BY <1>1 DEF ProvisionGuard
  <2>2. [pc |-> "provision", secret |-> s] \in States
    BY DEF States
  <2>3. proc' \in [Procs -> States]
    BY <2>1, <2>2, GoTyped
  <2> QED
    BY <1>1, <2>3 DEF ProvisionGuard, TypeInv, TypeOK
<1>2. CASE CreateGuard(p)
  <2>1. proc' \in [Procs -> States]
    BY <1>2, <1>0, SecretHeld, GoTyped DEF CreateGuard, Done
  <2> QED
    BY <1>2, <2>1 DEF CreateGuard, TypeInv, TypeOK
<1>3. CASE FillGuard(p)
  <2>1. proc' \in [Procs -> States]
    BY <1>3, <1>0, GoTyped DEF FillGuard, Done
  <2>2. proc[p].secret \in Secrets
    BY <1>3, SecretHeld DEF FillGuard
  <2>3. [file |-> "ok", secret |-> proc[p].secret] \in [file : {"ok"}, secret : Secrets]
    BY <2>2
  <2>4. guard' \in {Absent, Torn} \union [file : {"ok"}, secret : Secrets]
    BY <1>3, <2>3 DEF FillGuard
  <2>5. faults' \in Nat
    BY <1>3, <1>f DEF FillGuard, TypeInv
  <2> QED
    BY <1>3, <2>1, <2>4, <2>5 DEF FillGuard, TypeInv, TypeOK
<1>4. CASE Bootstrap(p)
  <2>1. guard.secret \in Secrets
    BY <1>4 DEF Bootstrap, TypeInv, TypeOK, Absent, Torn
  <2>2. [pc |-> "bootstrap", secret |-> guard.secret] \in States
    BY <2>1 DEF States
  <2>3. proc' \in [Procs -> States]
    BY <1>4, <2>2, GoTyped DEF Bootstrap
  <2> QED
    BY <1>4, <2>3 DEF Bootstrap, TypeInv, TypeOK
<1>5. CASE CreateRecord(p)
  <2>1. proc' \in [Procs -> States]
    BY <1>5, <1>0, SecretHeld, GoTyped DEF CreateRecord, Done
  <2> QED
    BY <1>5, <2>1 DEF CreateRecord, TypeInv, TypeOK
<1>6. CASE FillRecord(p)
  <2>1. proc' \in [Procs -> States]
    BY <1>6, <1>0, GoTyped DEF FillRecord, Done
  <2>2. proc[p].secret \in Secrets
    BY <1>6, SecretHeld DEF FillRecord
  <2>3. record' \in {Absent, Torn} \union Records
    <3>1. [file |-> "ok", version |-> 1, key |-> proc[p].secret, retired |-> {}] \in Records
      BY <2>2 DEF Records
    <3> QED
      BY <1>6, <3>1 DEF FillRecord
  <2>4. faults' \in Nat
    BY <1>6, <1>f DEF FillRecord, TypeInv
  <2> QED
    BY <1>6, <2>1, <2>3, <2>4 DEF FillRecord, TypeInv, TypeOK
<1>7. CASE DropGuard(p)
  <2>1. proc' \in [Procs -> States]
    BY <1>7, <1>0, GoTyped DEF DropGuard, Done
  <2> QED
    BY <1>7, <1>f, <2>1 DEF DropGuard, TypeInv, TypeOK
<1>8. CASE Mint(p)
  <2>1. record \in Records
    BY <1>8 DEF Mint, Usable, TypeInv, TypeOK, Absent, Torn
  <2>2. now \in Nat /\ now + TTL \in Nat /\ MaxTokens \in Nat
    BY ConstantsAssumption DEF TypeInv, TypeOK
  <2>3. PICK scope \in Scopes :
          tokens' = Append(tokens,
             [scope |-> scope, version |-> record.version, key |-> record.key,
              issued |-> now, expires |-> now + TTL])
    BY <1>8 DEF Mint
  <2>4. [scope |-> scope, version |-> record.version, key |-> record.key,
              issued |-> now, expires |-> now + TTL]
          \in [scope : Scopes, version : Nat \ {0}, key : Secrets, issued : Nat, expires : Nat]
    BY <2>1, <2>2 DEF Records
  <2>5. /\ tokens' \in Seq([scope : Scopes, version : Nat \ {0}, key : Secrets, issued : Nat, expires : Nat])
        /\ Len(tokens') = Len(tokens) + 1
    BY <2>3, <2>4 DEF TypeInv, TypeOK
  <2>6. Len(tokens') <= MaxTokens
    BY <1>8, <2>2, <2>5 DEF Mint, TypeInv, TypeOK
  <2> QED
    BY <1>8, <2>5, <2>6 DEF Mint, TypeInv, TypeOK
<1>9. CASE Present(p)
  <2>1. PICK n \in DOMAIN tokens, scope \in Scopes \ {Rotate} :
          /\ Verified(n, scope)
          /\ Go(p, [pc |-> "mark", receipt |-> ReceiptFor(n), to |-> "answer"])
    BY <1>9 DEF Present
  <2>2. ReceiptFor(n) \in Receipts
    BY <2>1, ReceiptForTyped
  <2>3. [pc |-> "mark", receipt |-> ReceiptFor(n), to |-> "answer"] \in States
    BY <2>2 DEF States
  <2>4. proc' \in [Procs -> States]
    BY <2>1, <2>3, GoTyped
  <2> QED
    BY <1>9, <2>4 DEF Present, TypeInv, TypeOK
<1>10. CASE Mark(p)
  <2>1. proc[p].receipt.nonce \in Nonces
    BY <1>10, ReceiptHeld DEF Mark
  <2>2. [proc[p] EXCEPT !.pc = "fill marker"] \in States
    BY <1>10, ReceiptKept DEF Mark
  <2>3. proc' \in [Procs -> States]
    BY <1>10, <1>0, <2>2, GoTyped DEF Mark, Done
  <2>4. lock' \in SUBSET Nat
    BY <1>10, <1>u DEF Mark, TypeInv, TypeOK
  <2>5. used' \in [Nonces -> {Absent, Torn} \union [file : {"ok"}, receipt : Receipts]]
    BY <1>10, <2>1 DEF Mark, TypeInv, TypeOK
  <2> QED
    BY <1>10, <2>3, <2>4, <2>5 DEF Mark, TypeInv, TypeOK
<1>11. CASE FillMarker(p)
  <2>1. proc[p].receipt \in Receipts /\ proc[p].receipt.nonce \in Nonces
    BY <1>11, ReceiptHeld DEF FillMarker
  <2>2. [proc[p] EXCEPT !.pc = proc[p].to] \in States
    BY <1>11, ReceiptKept DEF FillMarker
  <2>3. proc' \in [Procs -> States]
    BY <1>11, <1>0, <2>2, GoTyped DEF FillMarker, Done
  <2>4. lock' \in SUBSET Nat /\ faults' \in Nat
    BY <1>11, <1>u, <1>f DEF FillMarker, TypeInv, TypeOK
  <2>5. used' \in [Nonces -> {Absent, Torn} \union [file : {"ok"}, receipt : Receipts]]
    <3>1. [file |-> "ok", receipt |-> proc[p].receipt] \in [file : {"ok"}, receipt : Receipts]
      BY <2>1
    <3> QED
      BY <1>11, <2>1, <3>1 DEF FillMarker, TypeInv, TypeOK
  <2> QED
    BY <1>11, <2>3, <2>4, <2>5 DEF FillMarker, TypeInv, TypeOK
<1>12. CASE Answer(p)
  <2>1. proc[p].receipt \in Receipts /\ proc[p].receipt.nonce \in Nonces
    BY <1>12, ReceiptHeld DEF Answer
  <2>2. proc' \in [Procs -> States]
    BY <1>12, <1>0, GoTyped DEF Answer, Done
  <2>3. grants' \in [Nonces -> Nat]
    BY <1>12, <2>1 DEF Answer, Granted, TypeInv, TypeOK
  <2> QED
    BY <1>12, <2>1, <2>2, <2>3 DEF Answer, TypeInv, TypeOK
<1>13. CASE BeginRotate(p)
  <2>1. PICK n \in DOMAIN tokens, s \in Secrets :
          /\ Verified(n, Rotate)
          /\ Go(p, [pc |-> "mark", receipt |-> ReceiptFor(n), to |-> "swap", secret |-> s])
    BY <1>13 DEF BeginRotate
  <2>2. ReceiptFor(n) \in Receipts
    BY <2>1, ReceiptForTyped
  <2>3. [pc |-> "mark", receipt |-> ReceiptFor(n), to |-> "swap", secret |-> s] \in States
    BY <2>2 DEF States
  <2>4. proc' \in [Procs -> States]
    BY <2>1, <2>3, GoTyped
  <2>5. lock' \in SUBSET Nat
    BY <1>13, ConstantsAssumption DEF BeginRotate, TypeInv, TypeOK
  <2> QED
    BY <1>13, <2>4, <2>5 DEF BeginRotate, TypeInv, TypeOK
<1>14. CASE CompareVersion(p)
  <2>1. proc[p].receipt.nonce \in Nonces /\ proc[p].secret \in Secrets
    BY <1>14, ReceiptHeld DEF CompareVersion
  <2>2. Usable(record) => record \in Records
    BY DEF Usable, TypeInv, TypeOK, Absent, Torn
  <2>3. Usable(record) => [pc |-> "write", secret |-> proc[p].secret, record |-> record] \in States
    BY <2>1, <2>2 DEF States
  <2>4. proc' \in [Procs -> States]
    BY <1>14, <1>0, <2>3, GoTyped DEF CompareVersion, Done
  <2>5. grants' \in [Nonces -> Nat]
    BY <1>14, <2>1 DEF CompareVersion, Granted, TypeInv, TypeOK
  <2>6. lock' \in SUBSET Nat
    BY <1>14, <1>u DEF CompareVersion, TypeInv, TypeOK
  <2> QED
    BY <1>14, <2>4, <2>5, <2>6 DEF CompareVersion, TypeInv, TypeOK
<1>15. CASE WriteRecord(p)
  <2>1. Rotated(proc[p].record, proc[p].secret) \in Records
    BY <1>15, WriteHeld, RotatedTyped DEF WriteRecord
  <2>2. proc' \in [Procs -> States]
    BY <1>15, <1>0, GoTyped DEF WriteRecord, Done
  <2>3. record' \in {Absent, Torn} \union Records
    BY <1>15, <2>1 DEF WriteRecord, TypeInv, TypeOK
  <2>4. rotations' \in Nat /\ faults' \in Nat
    BY <1>15, <1>f DEF WriteRecord, TypeInv, TypeOK
  <2> QED
    BY <1>15, <1>u, <2>2, <2>3, <2>4 DEF WriteRecord, TypeInv, TypeOK
<1>16. CASE Crash(p)
  <2>1. proc' \in [Procs -> States]
    BY <1>16, <1>0, GoTyped DEF Crash, Done
  <2> QED
    BY <1>16, <1>f, <2>1 DEF Crash, TypeInv, TypeOK
<1>17. CASE FindStale(p)
  <2>1. [pc |-> "unlink"] \in States
    BY DEF States
  <2>2. proc' \in [Procs -> States]
    BY <1>17, <2>1, GoTyped DEF FindStale
  <2> QED
    BY <1>17, <2>2 DEF FindStale, TypeInv, TypeOK
<1> QED
  BY <1>1, <1>2, <1>3, <1>4, <1>5, <1>6, <1>7, <1>8, <1>9, <1>10, <1>11, <1>12,
     <1>13, <1>14, <1>15, <1>16, <1>17 DEF Step

\* What unlinking a stale lock file changes: the file, and the history.
LEMMA UnlinkMoves ==
  ASSUME TypeInv, NEW p \in Procs, UnlinkStale(p)
  PROVE  /\ proc' \in [Procs -> States]
         /\ proc'[p].pc = "idle"
         /\ \A q \in Procs : q # p => proc'[q] = proc[q]
         /\ lock' = {}
         /\ UNCHANGED <<now, faults, guard, record, used, tokens, receipts, grants, rotations>>
         /\ robbed' \in BOOLEAN
         /\ ~ robbed' => ~ robbed /\ (lock # {} => \A q \in Procs : ~ Rotating(q))
<1>1. Idle \in States /\ Idle.pc = "idle"
  BY DEF Idle, States
<1>2. /\ proc' \in [Procs -> States]
      /\ proc'[p].pc = "idle"
      /\ \A q \in Procs : q # p => proc'[q] = proc[q]
  BY <1>1, GoTyped DEF UnlinkStale, Done
<1>3. robbed' = (robbed \/ (lock # {} /\ \E q \in Procs : Rotating(q)))
  BY DEF UnlinkStale
<1>4. /\ robbed' \in BOOLEAN
      /\ ~ robbed' => ~ robbed /\ (lock # {} => \A q \in Procs : ~ Rotating(q))
  BY <1>3, Zenon
<1> QED
  BY <1>2, <1>4 DEF UnlinkStale, Sound, answers

\* TypeOK is strengthened by what each process holds in memory.
LEMMA TypeAlways == Spec => []TypeInv
<1>1. Init => TypeInv
  <2> SUFFICES ASSUME Init PROVE TypeInv
    OBVIOUS
  <2>1. robbed = FALSE
    BY DEF Init
  <2>2. robbed \in BOOLEAN
    BY <2>1, Zenon
  <2> QED
    BY <2>2, ConstantsAssumption DEF Init, TypeInv, TypeOK, States, Idle, Nonces
<1>2. TypeInv /\ [Next]_vars => TypeInv'
  <2> SUFFICES ASSUME TypeInv, [Next]_vars PROVE TypeInv'
    OBVIOUS
  <2>1. ASSUME NEW p \in Procs, Step(p), UNCHANGED robbed PROVE TypeInv'
    BY <2>1, TypeStep
  <2>2. CASE Tick /\ UNCHANGED robbed
    BY <2>2, ConstantsAssumption DEF Tick, files, answers, TypeInv, TypeOK
  <2>3. CASE SetBack /\ UNCHANGED robbed
    BY <2>3, ConstantsAssumption DEF SetBack, Fault, files, answers, TypeInv, TypeOK
  <2>4. CASE UNCHANGED vars
    BY <2>4 DEF vars, files, answers, TypeInv, TypeOK
  <2>5. ASSUME NEW p \in Procs, UnlinkStale(p) PROVE TypeInv'
    <3>1. lock' = {} /\ robbed' \in BOOLEAN /\ proc' \in [Procs -> States]
      BY <2>5, UnlinkMoves
    <3>2. UNCHANGED <<now, faults, guard, record, used, tokens, receipts, grants, rotations>>
      BY <2>5, UnlinkMoves
    <3> QED
      BY <3>1, <3>2 DEF TypeInv, TypeOK
  <2> QED
    BY <2>1, <2>2, <2>3, <2>4, <2>5 DEF Next
<1> QED
  BY <1>1, <1>2, PTL DEF Spec

\* Every file of the capability store, every token and every receipt has its
\* type in every reachable state, for every set of processes and every bound.
THEOREM TypeCorrect == Spec => []TypeOK
<1>1. TypeInv => TypeOK
  BY DEF TypeInv
<1> QED
  BY <1>1, TypeAlways, PTL

-----------------------------------------------------------------------------
(* A token is consumed once *)

\* A step of p leaves the memory of every other process alone.
LEMMA OthersStand ==
  ASSUME TypeInv, NEW p \in Procs, Step(p)
  PROVE  \A q \in Procs : q # p => proc'[q] = proc[q]
<1> USE DEF TypeInv
<1>1. ASSUME NEW s, Go(p, s) PROVE \A q \in Procs : q # p => proc'[q] = proc[q]
  BY <1>1 DEF Go
<1> QED
  BY <1>1 DEF Step, ProvisionGuard, CreateGuard, FillGuard, Bootstrap, CreateRecord, FillRecord,
     DropGuard, Mint, Present, Mark, FillMarker, Answer, FindStale, BeginRotate, CompareVersion,
     WriteRecord, Crash, Done

\* Where each operation leaves its process.
LEMMA Moves ==
  ASSUME TypeInv, NEW p \in Procs
  PROVE  /\ ProvisionGuard(p) => proc'[p].pc = "provision"
         /\ CreateGuard(p) => proc'[p].pc \in {"idle", "fill guard"}
         /\ Bootstrap(p) => proc'[p].pc = "bootstrap"
         /\ CreateRecord(p) => proc'[p].pc \in {"idle", "fill record"}
         /\ FillRecord(p) => proc'[p].pc \in {"idle", "drop guard"}
         /\ FillGuard(p) \/ DropGuard(p) \/ Answer(p) \/ WriteRecord(p) \/ Crash(p) => proc'[p].pc = "idle"
         /\ Present(p) \/ BeginRotate(p) => proc'[p].pc = "mark"
         /\ CompareVersion(p) => proc'[p].pc \in {"idle", "write"}
         /\ FindStale(p) => proc'[p].pc = "unlink"
<1>1. \A s : Go(p, s) => proc'[p] = s
  BY DEF TypeInv, Go
<1>2. Done(p) => proc'[p].pc = "idle"
  BY <1>1 DEF Done, Idle
<1>3. ASSUME proc[p].pc \in {"provision", "bootstrap"}
      PROVE  \A c : [proc[p] EXCEPT !.pc = c].pc = c
  <2>1. proc[p] \in States
    BY DEF TypeInv
  <2>2. proc[p] \in [pc : {"provision", "fill guard", "bootstrap", "fill record"}, secret : Secrets]
    BY <1>3, <2>1 DEF States
  <2> QED
    BY <2>2
<1>4. ProvisionGuard(p) => proc'[p].pc = "provision"
  BY <1>1 DEF ProvisionGuard
<1>5. CreateGuard(p) => proc'[p].pc \in {"idle", "fill guard"}
  BY <1>1, <1>2, <1>3 DEF CreateGuard, At
<1>6. Bootstrap(p) => proc'[p].pc = "bootstrap"
  BY <1>1 DEF Bootstrap
<1>7. CreateRecord(p) => proc'[p].pc \in {"idle", "fill record"}
  BY <1>1, <1>2, <1>3 DEF CreateRecord, At
<1>8. FillRecord(p) => proc'[p].pc \in {"idle", "drop guard"}
  <2>1. Go(p, [pc |-> "drop guard"]) => proc'[p].pc = "drop guard"
    <3>1. [pc |-> "drop guard"].pc = "drop guard"
      OBVIOUS
    <3> QED
      BY <1>1, <3>1
  <2> QED
    BY <1>2, <2>1 DEF FillRecord
<1>9. FillGuard(p) \/ DropGuard(p) \/ Answer(p) \/ WriteRecord(p) \/ Crash(p) => proc'[p].pc = "idle"
  BY <1>2 DEF FillGuard, DropGuard, Answer, WriteRecord, Crash
<1>10. Present(p) => proc'[p].pc = "mark"
  BY <1>1 DEF Present
<1>11. BeginRotate(p) => proc'[p].pc = "mark"
  BY <1>1 DEF BeginRotate
<1>12. CompareVersion(p) => proc'[p].pc \in {"idle", "write"}
  <2>1. Go(p, [pc |-> "write", secret |-> proc[p].secret, record |-> record]) => proc'[p].pc = "write"
    BY <1>1
  <2> QED
    BY <1>2, <2>1 DEF CompareVersion
<1>13. FindStale(p) => proc'[p].pc = "unlink"
  <2>1. [pc |-> "unlink"].pc = "unlink"
    OBVIOUS
  <2> QED
    BY <1>1, <2>1 DEF FindStale
<1> QED
  BY <1>4, <1>5, <1>6, <1>7, <1>8, <1>9, <1>10, <1>11, <1>12, <1>13

\* A step that touches no marker and grants nothing.
LEMMA SpendCalm ==
  ASSUME SpendInv, NEW p \in Procs, UNCHANGED <<used, grants>>,
         \A q \in Procs : q # p => proc'[q] = proc[q],
         proc'[p] = proc[p] \/ proc'[p].pc \notin {"fill marker", "answer", "swap"}
  PROVE  SpendInv'
<1> SUFFICES ASSUME NEW n \in Nonces PROVE Spending(n)'
  BY DEF SpendInv
<1>1. Spending(n)
  BY DEF SpendInv
<1>2. \A q \in Procs : Spends(q, n)' => Spends(q, n) /\ proc'[q] = proc[q]
  BY DEF Spends
<1> QED
  BY <1>1, <1>2 DEF Spending

\* Arithmetic the provers need spelled out.
LEMMA ZeroOne == 0 \in {0, 1} /\ 1 \in {0, 1} /\ 0 # 1 /\ 0 + 1 = 1
  OBVIOUS

\* The exclusive create: the marker was absent, so nobody is spending the token.
LEMMA SpendMark ==
  ASSUME TypeInv, SpendInv, NEW p \in Procs, Mark(p)
  PROVE  SpendInv'
<1> DEFINE n == proc[p].receipt.nonce
<1>0. n \in Nonces /\ proc[p].receipt \in Receipts /\ proc[p].pc = "mark"
  BY ReceiptHeld DEF Mark, At
<1>s. Step(p)
  BY DEF Step
<1>o. \A q \in Procs : q # p => proc'[q] = proc[q]
  BY <1>s, OthersStand
<1>1. CASE used[n] # Absent
  <2>1. Idle \in States /\ Idle.pc = "idle"
    BY DEF Idle, States
  <2>2. UNCHANGED <<used, grants>> /\ Done(p)
    BY <1>1 DEF Mark, answers
  <2>3. proc'[p] = Idle
    BY <2>1, <2>2, GoTyped DEF Done
  <2> QED
    BY <1>o, <2>1, <2>2, <2>3, SpendCalm
<1>2. CASE used[n] = Absent
  <2>1. /\ used' = [used EXCEPT ![n] = Torn]
        /\ grants' = grants
        /\ Go(p, [proc[p] EXCEPT !.pc = "fill marker"])
    BY <1>2 DEF Mark, answers
  <2>2. /\ [proc[p] EXCEPT !.pc = "fill marker"] \in States
        /\ [proc[p] EXCEPT !.pc = "fill marker"].pc = "fill marker"
        /\ [proc[p] EXCEPT !.pc = "fill marker"].receipt = proc[p].receipt
    BY <1>0, ReceiptKept
  <2>3. proc'[p].pc = "fill marker" /\ proc'[p].receipt = proc[p].receipt
    BY <2>1, <2>2, GoTyped
  <2>4. Torn # Absent /\ Absent.file # "ok" /\ used \in [Nonces -> {Absent, Torn} \union [file : {"ok"}, receipt : Receipts]]
    BY DEF Torn, Absent, TypeInv, TypeOK
  <2>5. Spending(n)
    BY <1>0 DEF SpendInv
  <2>6. grants[n] = 0 /\ \A q \in Procs : ~ Spends(q, n)
    BY <1>2, <2>4, <2>5 DEF Spending
  <2> HIDE DEF n
  <2>7. ASSUME NEW m \in Nonces PROVE Spending(m)'
    <3>1. CASE m = n
      <4>1. used'[m] # Absent /\ grants'[m] = 0
        BY <1>0, <2>1, <2>4, <2>6, <3>1
      <4>2. \A q \in Procs : Spends(q, m)' => q = p
        BY <1>o, <2>6, <3>1 DEF Spends
      <4> QED
        BY <2>3, <4>1, <4>2, ZeroOne DEF Spending
    <3>2. CASE m # n
      <4>1. Spending(m) /\ used'[m] = used[m] /\ grants'[m] = grants[m]
        BY <1>0, <2>1, <2>4, <3>2 DEF SpendInv
      <4>2. ~ Spends(p, m)'
        BY <2>3, <3>2 DEF Spends, n
      <4>3. \A q \in Procs : Spends(q, m)' => Spends(q, m) /\ proc'[q] = proc[q]
        BY <1>o, <4>2 DEF Spends
      <4> QED
        BY <4>1, <4>3 DEF Spending
    <3> QED
      BY <3>1, <3>2
  <2> QED
    BY <2>7 DEF SpendInv
<1> QED
  BY <1>1, <1>2

\* The marker is written, or unlinked by the process that created it.
LEMMA SpendFill ==
  ASSUME TypeInv, SpendInv, NEW p \in Procs, FillMarker(p)
  PROVE  SpendInv'
<1> DEFINE n == proc[p].receipt.nonce
<1>0. n \in Nonces /\ proc[p].receipt \in Receipts /\ proc[p].pc = "fill marker"
  BY ReceiptHeld DEF FillMarker, At
<1>s. Step(p)
  BY DEF Step
<1>o. \A q \in Procs : q # p => proc'[q] = proc[q]
  BY <1>s, OthersStand
<1>1. Spending(n) /\ Spends(p, n)
  BY <1>0 DEF SpendInv, Spends
<1>2. grants[n] = 0 /\ \A q \in Procs : Spends(q, n) => q = p
  BY <1>1 DEF Spending
<1>3. grants' = grants /\ used \in [Nonces -> {Absent, Torn} \union [file : {"ok"}, receipt : Receipts]]
  BY DEF FillMarker, answers, TypeInv, TypeOK
<1>4. ASSUME NEW m \in Nonces, m # n, used'[m] = used[m],
             proc'[p].receipt = proc[p].receipt \/ proc'[p].pc = "idle"
      PROVE  Spending(m)'
  <2>1. Spending(m) /\ grants'[m] = grants[m]
    BY <1>3 DEF SpendInv
  <2>2. ~ Spends(p, m)'
    BY <1>4 DEF Spends
  <2>3. \A q \in Procs : Spends(q, m)' => Spends(q, m) /\ proc'[q] = proc[q]
    BY <1>o, <2>2 DEF Spends
  <2> QED
    BY <1>4, <2>1, <2>3 DEF Spending
<1>5. CASE /\ used' = [used EXCEPT ![n] = [file |-> "ok", receipt |-> proc[p].receipt]]
           /\ Go(p, [proc[p] EXCEPT !.pc = proc[p].to])
  <2>1. /\ [proc[p] EXCEPT !.pc = proc[p].to] \in States
        /\ [proc[p] EXCEPT !.pc = proc[p].to].pc = proc[p].to
        /\ [proc[p] EXCEPT !.pc = proc[p].to].receipt = proc[p].receipt
    BY <1>0, ReceiptKept
  <2>2. proc'[p].pc \in {"answer", "swap"} /\ proc'[p].receipt = proc[p].receipt
    BY <1>0, <1>5, <2>1, GoTyped, ReceiptHeld
  <2>3. [file |-> "ok", receipt |-> proc[p].receipt] # Absent
    BY DEF Absent
  <2>4. used'[n] = [file |-> "ok", receipt |-> proc'[p].receipt]
    BY <1>0, <1>3, <1>5, <2>2
  <2>5. \A m \in Nonces : m # n => used'[m] = used[m]
    BY <1>3, <1>5
  <2> HIDE DEF n
  <2>6. ASSUME NEW m \in Nonces, m = n PROVE Spending(m)'
    <3>1. \A q \in Procs : Spends(q, m)' => q = p
      BY <1>o, <1>2, <2>6 DEF Spends
    <3>2. grants'[m] = 0 /\ used'[m] = [file |-> "ok", receipt |-> proc'[p].receipt] /\ used'[m] # Absent
      BY <1>2, <1>3, <2>2, <2>3, <2>4, <2>6
    <3> QED
      BY <3>1, <3>2, ZeroOne DEF Spending
  <2> QED
    BY <1>4, <2>2, <2>5, <2>6 DEF SpendInv
<1>6. CASE used' = [used EXCEPT ![n] = Absent] /\ Done(p)
  <2>1. Idle \in States /\ Idle.pc = "idle"
    BY DEF Idle, States
  <2>2. proc'[p].pc = "idle"
    BY <1>6, <2>1, GoTyped DEF Done
  <2>5. \A m \in Nonces : m # n => used'[m] = used[m]
    BY <1>3, <1>6
  <2> HIDE DEF n
  <2>6. ASSUME NEW m \in Nonces, m = n PROVE Spending(m)'
    <3>1. \A q \in Procs : ~ Spends(q, m)'
      BY <1>o, <1>2, <2>2, <2>6 DEF Spends
    <3>2. grants'[m] = 0
      BY <1>2, <1>3, <2>6
    <3> QED
      BY <3>1, <3>2, ZeroOne DEF Spending
  <2> QED
    BY <1>4, <2>2, <2>5, <2>6 DEF SpendInv
<1> QED
  BY <1>5, <1>6 DEF FillMarker

\* The token is accepted by the only process that spends it.
LEMMA SpendGrant ==
  ASSUME TypeInv, SpendInv, NEW p \in Procs, proc[p].pc \in {"answer", "swap"},
         Granted(proc[p].receipt.nonce), used' = used,
         proc'[p].pc \notin {"fill marker", "answer", "swap"},
         \A q \in Procs : q # p => proc'[q] = proc[q]
  PROVE  SpendInv'
<1> DEFINE n == proc[p].receipt.nonce
<1>0. n \in Nonces
  BY ReceiptHeld
<1>1. Spending(n) /\ Spends(p, n)
  BY <1>0 DEF SpendInv, Spends
<1>2. /\ grants[n] = 0 /\ used[n].file = "ok"
      /\ \A q \in Procs : Spends(q, n) => q = p
  <2>1. /\ grants[n] = 0
        /\ used[n] = [file |-> "ok", receipt |-> proc[p].receipt]
        /\ \A q \in Procs : Spends(q, n) => q = p
    BY <1>1 DEF Spending
  <2>2. \A r : [file |-> "ok", receipt |-> r].file = "ok"
    OBVIOUS
  <2> QED
    BY <2>1, <2>2
<1>3. grants \in [Nonces -> Nat] /\ grants' = [grants EXCEPT ![n] = @ + 1]
  BY DEF Granted, TypeInv, TypeOK
<1>4. grants'[n] = 1 /\ \A m \in Nonces : m # n => grants'[m] = grants[m]
  BY <1>0, <1>2, <1>3, ZeroOne
<1> HIDE DEF n
<1>5. ASSUME NEW m \in Nonces PROVE Spending(m)'
  <2>1. \A q \in Procs : Spends(q, m)' => Spends(q, m) /\ proc'[q] = proc[q] /\ q # p
    BY DEF Spends
  <2>2. CASE m = n
    BY <1>2, <1>4, <2>1, <2>2 DEF Spending
  <2>3. CASE m # n
    <3>1. Spending(m)
      BY DEF SpendInv
    <3> QED
      BY <1>4, <2>1, <2>3, <3>1 DEF Spending
  <2> QED
    BY <2>2, <2>3
<1> QED
  BY <1>5 DEF SpendInv

\* Every operation preserves SpendInv.
LEMMA SpendStep ==
  ASSUME TypeInv, SpendInv, NEW p \in Procs, Step(p)
  PROVE  SpendInv'
<1>o. \A q \in Procs : q # p => proc'[q] = proc[q]
  BY OthersStand
<1>t. proc \in [Procs -> States]
  BY DEF TypeInv
<1>1. CASE Mark(p)
  BY <1>1, SpendMark
<1>2. CASE FillMarker(p)
  BY <1>2, SpendFill
<1>3. CASE Answer(p)
  <2>1. proc'[p] = Idle /\ Idle.pc = "idle" /\ used' = used
    BY <1>3, <1>t DEF Answer, Done, Go, Idle, files
  <2> QED
    BY <1>3, <1>o, <2>1, SpendGrant DEF Answer, At
<1>4. CASE CompareVersion(p)
  <2>1. proc'[p].pc \in {"idle", "write"} /\ used' = used
    BY <1>4, <1>t DEF CompareVersion, Done, Go, Idle
  <2> QED
    BY <1>4, <1>o, <2>1, SpendGrant DEF CompareVersion, At
<1>5. CASE Mint(p)
  BY <1>5, <1>o, SpendCalm DEF Mint, files, answers
<1>7. CASE \/ ProvisionGuard(p) \/ CreateGuard(p) \/ FillGuard(p)
           \/ Bootstrap(p) \/ CreateRecord(p) \/ FillRecord(p) \/ DropGuard(p)
           \/ Present(p) \/ FindStale(p) \/ BeginRotate(p) \/ WriteRecord(p) \/ Crash(p)
  <2>1. proc'[p].pc \in {"idle", "provision", "fill guard", "bootstrap", "fill record", "drop guard", "mark", "unlink"}
    BY <1>7, Moves
  <2>2. UNCHANGED <<used, grants>>
    BY <1>7 DEF ProvisionGuard, CreateGuard, FillGuard, Bootstrap, CreateRecord, FillRecord,
       DropGuard, Present, FindStale, BeginRotate, WriteRecord, Crash, files, answers
  <2> QED
    BY <1>o, <2>1, <2>2, SpendCalm
<1> QED
  BY <1>1, <1>2, <1>3, <1>4, <1>5, <1>7 DEF Step

\* Time passing, or set back, changes the clock alone.
LEMMA ClockSteps ==
  ASSUME Tick \/ SetBack \/ UNCHANGED vars
  PROVE  UNCHANGED <<files, tokens, answers, proc>>
  BY DEF Tick, SetBack, vars

\* The argument of TokensSpentOnce, as an invariant of every behaviour.
LEMMA SpendAlways == Spec => []SpendInv
<1>1. Init => SpendInv
  <2> SUFFICES ASSUME Init, NEW n \in Nonces PROVE Spending(n)
    BY DEF SpendInv
  <2>1. grants[n] = 0 /\ \A p \in Procs : ~ Spends(p, n)
    BY DEF Init, Spends, Idle
  <2>2. 0 \in {0, 1} /\ 0 # 1
    OBVIOUS
  <2> QED
    BY <2>1, <2>2 DEF Spending
<1>2. TypeInv /\ SpendInv /\ [Next]_vars => SpendInv'
  <2> SUFFICES ASSUME TypeInv, SpendInv, [Next]_vars PROVE SpendInv'
    OBVIOUS
  <2>1. ASSUME NEW p \in Procs, Step(p) PROVE SpendInv'
    BY <2>1, SpendStep
  <2>2. CASE Tick \/ SetBack \/ UNCHANGED vars
    <3>1. UNCHANGED <<used, grants, proc>>
      BY <2>2, ClockSteps DEF files, answers
    <3> QED
      BY <3>1 DEF SpendInv, Spending, Spends
  <2>3. ASSUME NEW p \in Procs, UnlinkStale(p) PROVE SpendInv'
    <3>1. /\ UNCHANGED <<used, grants>> /\ proc'[p].pc = "idle"
          /\ \A q \in Procs : q # p => proc'[q] = proc[q]
      BY <2>3, UnlinkMoves
    <3> QED
      BY <3>1, SpendCalm
  <2> QED
    BY <2>1, <2>2, <2>3 DEF Next
<1> QED
  BY <1>1, <1>2, TypeAlways, PTL DEF Spec

\* verify_and_consume accepts a token at most once, and an accepted token keeps
\* its marker, for any number of processes, crashes, failed writes and steps back
\* of the clock.
THEOREM TokensSpentOnce == Spec => []SpentOnce
<1>1. SpendInv => SpentOnce
  <2>1. ASSUME SpendInv, NEW n \in Nonces
        PROVE  grants[n] \in {0, 1} /\ (grants[n] = 1 => used[n].file = "ok")
    BY <2>1 DEF SpendInv, Spending
  <2>2. \A x \in {0, 1} : x <= 1
    OBVIOUS
  <2> QED
    BY <2>1, <2>2 DEF SpentOnce
<1> QED
  BY <1>1, SpendAlways, PTL

-----------------------------------------------------------------------------
(* No rotation is lost *)

\* A step that leaves the record alone and starts no rotation.
LEMMA RotateCalm ==
  ASSUME TypeInv, RotateInv, NEW p \in Procs, UNCHANGED <<record, rotations>>,
         lock' = lock \/ Unlocked(p),
         \A q \in Procs : q # p => proc'[q] = proc[q],
         Rotating(p)' => Rotating(p) /\ lock' = lock,
         proc'[p] = proc[p] \/ proc'[p].pc \notin {"write", "fill record"}
  PROVE  RotateInv'
<1>0. \A q \in Procs : Rotating(q)' => Rotating(q)
  BY DEF Rotating
<1>1. ASSUME NEW q \in Procs, Rotating(q)' PROVE Alone(q)'
  <2>1. Rotating(q) /\ Alone(q)
    BY <1>0, <1>1 DEF RotateInv
  <2>2. lock' = lock
    BY <1>1, <2>1 DEF Alone, Unlocked
  <2> QED
    BY <1>0, <2>1, <2>2 DEF Alone
<1>2. ASSUME NEW q \in Procs, proc'[q].pc = "write" PROVE proc'[q].record = record'
  BY <1>2 DEF RotateInv
<1>3. ASSUME NEW q \in Procs, proc'[q].pc = "fill record"
      PROVE  record' = Torn /\ \A z \in Procs : proc'[z].pc = "fill record" => z = q
  BY <1>3 DEF RotateInv
<1>4. /\ record'.file = "ok" => Usable(record')
      /\ IF record'.file = "ok" THEN rotations' < record'.version ELSE rotations' = 0
  BY DEF RotateInv
<1> QED
  BY <1>1, <1>2, <1>3, <1>4 DEF RotateInv

\* A rotated record passes the checks of _record.
LEMMA RotatedUsable ==
  ASSUME NEW r \in Records, NEW s \in Secrets, Usable(r)
  PROVE  Usable(Rotated(r, s))
<1>1. /\ Rotated(r, s).file = "ok"
      /\ Rotated(r, s).version = r.version + 1
      /\ Rotated(r, s).retired = r.retired \union {[version |-> r.version, key |-> r.key]}
  BY RotatedTyped
<1>2. r.version \in Nat /\ \A k \in r.retired : k.version \in Nat
  BY DEF Records
<1>3. ASSUME NEW k \in Rotated(r, s).retired PROVE k.version < Rotated(r, s).version
  <2>1. CASE k \in r.retired
    BY <1>1, <1>2, <2>1 DEF Usable
  <2>2. CASE k = [version |-> r.version, key |-> r.key]
    BY <1>1, <1>2, <2>2
  <2> QED
    BY <1>1, <1>3, <2>1, <2>2
<1>4. ASSUME NEW k \in Rotated(r, s).retired, NEW l \in Rotated(r, s).retired, k.version = l.version
      PROVE  k = l
  <2>1. \A m \in r.retired : m.version < r.version /\ m.version # r.version
    BY <1>2 DEF Usable
  <2>2. [version |-> r.version, key |-> r.key].version = r.version
    OBVIOUS
  <2>3. /\ k \in r.retired \/ k = [version |-> r.version, key |-> r.key]
        /\ l \in r.retired \/ l = [version |-> r.version, key |-> r.key]
    BY <1>1
  <2> QED
    BY <1>4, <2>1, <2>2, <2>3 DEF Usable
<1> QED
  BY <1>1, <1>3, <1>4 DEF Usable

\* The write of a rotation: the lock made sure the record is still the one read.
LEMMA RotateWrite ==
  ASSUME TypeInv, RotateInv, NEW p \in Procs, WriteRecord(p)
  PROVE  RotateInv'
<1>s. Step(p)
  BY DEF Step
<1>o. \A q \in Procs : q # p => proc'[q] = proc[q]
  BY <1>s, OthersStand
<1>1. proc'[p].pc = "idle"
  BY Moves
<1>2. proc[p].pc = "write" /\ Rotating(p) /\ proc[p].record = record
  BY DEF WriteRecord, At, RotateInv, Rotating
<1>3. \A q \in Procs : q # p => ~ Rotating(q)
  BY <1>2 DEF RotateInv, Alone
<1>4. \A q \in Procs : ~ Rotating(q)'
  BY <1>o, <1>1, <1>3 DEF Rotating
<1>5. /\ proc[p].secret \in Secrets /\ proc[p].record \in Records /\ record.file = "ok"
      /\ rotations \in Nat
  BY <1>2, WriteHeld DEF Records, TypeInv, TypeOK
<1>6. \A q \in Procs : proc[q].pc # "fill record"
  <2>1. record # Torn
    BY <1>5 DEF Torn
  <2> QED
    BY <2>1 DEF RotateInv
<1>7. Usable(record) /\ rotations < record.version
  BY <1>5 DEF RotateInv
<1>8. /\ Usable(Rotated(record, proc[p].secret))
      /\ Rotated(record, proc[p].secret).version = record.version + 1
      /\ Rotated(record, proc[p].secret).file = "ok"
      /\ record.version \in Nat
  BY <1>2, <1>5, <1>7, RotatedUsable, RotatedTyped DEF Records
<1>9. /\ record'.file = "ok" /\ Usable(record')
      /\ rotations' < record'.version
  BY <1>2, <1>5, <1>7, <1>8 DEF WriteRecord
<1> QED
  BY <1>o, <1>1, <1>4, <1>6, <1>9 DEF RotateInv, Rotating

\* The first record is written while no rotation can be running.
LEMMA RotateFill ==
  ASSUME TypeInv, RotateInv, NEW p \in Procs, FillRecord(p)
  PROVE  RotateInv'
<1>s. Step(p)
  BY DEF Step
<1>o. \A q \in Procs : q # p => proc'[q] = proc[q]
  BY <1>s, OthersStand
<1>1. proc'[p].pc \in {"idle", "drop guard"}
  BY Moves
<1>2. proc[p].pc = "fill record" /\ record = Torn
  BY DEF FillRecord, At, RotateInv
<1>3. \A q \in Procs : proc'[q].pc # "fill record"
  BY <1>o, <1>1, <1>2 DEF RotateInv
<1>4. Torn.file # "ok" /\ Absent.file # "ok"
  BY DEF Torn, Absent
<1>5. \A q \in Procs : proc[q].pc # "write"
  <2> SUFFICES ASSUME NEW q \in Procs, proc[q].pc = "write" PROVE FALSE
    OBVIOUS
  <2>1. proc[q].record = record /\ proc[q].record \in Records
    BY WriteHeld DEF RotateInv
  <2> QED
    BY <1>2, <1>4, <2>1 DEF Records
<1>6. rotations = 0 /\ rotations' = 0 /\ lock' = lock
  BY <1>2, <1>4 DEF RotateInv, FillRecord, answers
<1>7. \A q \in Procs : Rotating(q)' => Alone(q)'
  <2>1. \A q \in Procs : Rotating(q)' => Rotating(q)
    BY <1>o, <1>1 DEF Rotating
  <2> QED
    BY <1>6, <2>1 DEF RotateInv, Alone
<1>8. CASE record' = [file |-> "ok", version |-> 1, key |-> proc[p].secret, retired |-> {}]
  <2>1. record'.file = "ok" /\ record'.version = 1 /\ record'.retired = {}
    BY <1>8
  <2>2. Usable(record') /\ rotations' < record'.version
    BY <1>6, <2>1 DEF Usable
  <2> QED
    BY <1>o, <1>1, <1>3, <1>5, <1>7, <2>1, <2>2 DEF RotateInv
<1>9. CASE record' = Absent
  BY <1>o, <1>1, <1>3, <1>4, <1>5, <1>6, <1>7, <1>9 DEF RotateInv
<1> QED
  BY <1>8, <1>9 DEF FillRecord

\* The exclusive create of the first record.
LEMMA RotateCreate ==
  ASSUME TypeInv, RotateInv, NEW p \in Procs, CreateRecord(p)
  PROVE  RotateInv'
<1>s. Step(p)
  BY DEF Step
<1>o. \A q \in Procs : q # p => proc'[q] = proc[q]
  BY <1>s, OthersStand
<1>1. proc'[p].pc \in {"idle", "fill record"}
  BY Moves
<1>2. lock' = lock /\ rotations' = rotations
  BY DEF CreateRecord, answers
<1>3. CASE record # Absent
  <2>1. record' = record /\ Done(p)
    BY <1>3 DEF CreateRecord
  <2>2. proc'[p].pc = "idle"
    BY <2>1 DEF Done, Go, Idle, TypeInv
  <2> QED
    BY <1>o, <1>2, <2>1, <2>2, RotateCalm DEF Rotating
<1>4. CASE record = Absent
  <2>1. record' = Torn
    BY <1>4 DEF CreateRecord
  <2>2. Torn.file # "ok" /\ Absent.file # "ok" /\ Absent # Torn
    BY DEF Torn, Absent
  <2>3. rotations' = 0
    BY <1>2, <1>4, <2>2 DEF RotateInv
  <2>4. \A q \in Procs : proc[q].pc # "fill record"
    BY <1>4, <2>2 DEF RotateInv
  <2>5. \A q \in Procs : proc'[q].pc = "fill record" => q = p
    BY <1>o, <2>4
  <2>6. \A q \in Procs : proc'[q].pc # "write"
    <3> SUFFICES ASSUME NEW q \in Procs, proc'[q].pc = "write" PROVE FALSE
      OBVIOUS
    <3>1. proc[q].pc = "write"
      BY <1>o, <1>1
    <3>2. proc[q].record = record /\ proc[q].record \in Records
      BY <3>1, WriteHeld DEF RotateInv
    <3> QED
      BY <1>4, <2>2, <3>2 DEF Records
  <2>7. \A q \in Procs : Rotating(q)' => Alone(q)'
    <3>1. \A q \in Procs : Rotating(q)' => Rotating(q)
      BY <1>o, <1>1 DEF Rotating
    <3> QED
      BY <1>2, <3>1 DEF RotateInv, Alone
  <2> QED
    BY <2>1, <2>2, <2>3, <2>5, <2>6, <2>7 DEF RotateInv
<1> QED
  BY <1>3, <1>4

\* The lock file is not there: no rotation is running.
LEMMA RotateBegin ==
  ASSUME TypeInv, RotateInv, NEW p \in Procs, BeginRotate(p)
  PROVE  RotateInv'
<1>s. Step(p)
  BY DEF Step
<1>o. \A q \in Procs : q # p => proc'[q] = proc[q]
  BY <1>s, OthersStand
<1>1. proc'[p].pc = "mark"
  BY Moves
<1>2. proc[p].pc = "idle" /\ LockFree /\ lock' # {} /\ UNCHANGED <<record, rotations>>
  BY DEF BeginRotate, At, answers
<1>3. \A q \in Procs : ~ Rotating(q)
  BY <1>2 DEF RotateInv, LockFree, Alone
<1>4. \A q \in Procs : Rotating(q)' => Alone(q)'
  <2>1. \A q \in Procs : Rotating(q)' => q = p
    BY <1>o, <1>3 DEF Rotating
  <2> QED
    BY <1>2, <2>1 DEF Alone
<1>5. \A q \in Procs : proc'[q].pc # "write" /\ (proc'[q].pc = "fill record" => proc[q].pc = "fill record")
  BY <1>o, <1>1, <1>3 DEF Rotating
<1> QED
  BY <1>o, <1>1, <1>2, <1>4, <1>5 DEF RotateInv

\* The compare-and-swap reads the record it will replace.
LEMMA RotateCompare ==
  ASSUME TypeInv, RotateInv, NEW p \in Procs, CompareVersion(p)
  PROVE  RotateInv'
<1>s. Step(p)
  BY DEF Step
<1>o. \A q \in Procs : q # p => proc'[q] = proc[q]
  BY <1>s, OthersStand
<1>1. UNCHANGED <<record, rotations>> /\ proc[p].pc = "swap"
  BY DEF CompareVersion, At
<1>2. CASE Done(p) /\ Unlocked(p)
  <2>1. proc'[p].pc = "idle"
    BY <1>2 DEF Done, Go, Idle, TypeInv
  <2> QED
    BY <1>o, <1>1, <1>2, <2>1, RotateCalm DEF Rotating
<1>3. CASE /\ Go(p, [pc |-> "write", secret |-> proc[p].secret, record |-> record])
           /\ Usable(record) /\ lock' = lock
  <2>1. proc'[p].pc = "write" /\ proc'[p].record = record
    BY <1>3 DEF Go, TypeInv
  <2>2. \A q \in Procs : Rotating(q)' => Alone(q)'
    <3>1. \A q \in Procs : Rotating(q)' => Rotating(q)
      BY <1>o, <1>1 DEF Rotating
    <3> QED
      BY <1>3, <3>1 DEF RotateInv, Alone
  <2> QED
    BY <1>o, <1>1, <2>1, <2>2 DEF RotateInv
<1> QED
  BY <1>2, <1>3 DEF CompareVersion

\* A rotation consumes its token under its lock.
LEMMA RotateMark ==
  ASSUME TypeInv, RotateInv, NEW p \in Procs, Mark(p) \/ FillMarker(p)
  PROVE  RotateInv'
<1>s. Step(p)
  BY DEF Step
<1>o. \A q \in Procs : q # p => proc'[q] = proc[q]
  BY <1>s, OthersStand
<1>1. UNCHANGED <<record, rotations>> /\ proc[p].pc \in {"mark", "fill marker"}
  BY DEF Mark, FillMarker, At, answers
<1>2. CASE Done(p) /\ Unlocked(p)
  <2>1. proc'[p].pc = "idle"
    BY <1>2 DEF Done, Go, Idle, TypeInv
  <2> QED
    BY <1>o, <1>1, <1>2, <2>1, RotateCalm DEF Rotating
<1>3. ASSUME NEW c \in {"fill marker", proc[p].to}, Go(p, [proc[p] EXCEPT !.pc = c]), lock' = lock
      PROVE  RotateInv'
  <2>1. /\ [proc[p] EXCEPT !.pc = c] \in States
        /\ [proc[p] EXCEPT !.pc = c].pc = c
        /\ [proc[p] EXCEPT !.pc = c].to = proc[p].to
    BY <1>1, ReceiptKept
  <2>2. proc'[p].pc = c /\ proc'[p].to = proc[p].to
    BY <1>3, <2>1, GoTyped
  <2>3. c \in {"fill marker", "answer", "swap"} /\ (c = "swap" => proc[p].to = "swap")
    BY <1>1, ReceiptHeld
  <2>4. Rotating(p)' => Rotating(p) /\ lock' = lock
    BY <1>1, <1>3, <2>2, <2>3 DEF Rotating
  <2>5. proc'[p].pc \notin {"write", "fill record"}
    BY <2>2, <2>3
  <2> QED
    BY <1>o, <1>1, <1>3, <2>4, <2>5, RotateCalm
<1>4. CASE Mark(p)
  BY <1>2, <1>3, <1>4 DEF Mark
<1>5. CASE FillMarker(p)
  BY <1>2, <1>3, <1>5 DEF FillMarker
<1> QED
  BY <1>4, <1>5

\* Every operation preserves RotateInv.
LEMMA RotateStep ==
  ASSUME TypeInv, RotateInv, NEW p \in Procs, Step(p)
  PROVE  RotateInv'
<1>o. \A q \in Procs : q # p => proc'[q] = proc[q]
  BY OthersStand
<1>1. CASE Mark(p) \/ FillMarker(p)
  BY <1>1, RotateMark
<1>2. CASE BeginRotate(p)
  BY <1>2, RotateBegin
<1>3. CASE CompareVersion(p)
  BY <1>3, RotateCompare
<1>4. CASE WriteRecord(p)
  BY <1>4, RotateWrite
<1>5. CASE CreateRecord(p)
  BY <1>5, RotateCreate
<1>6. CASE FillRecord(p)
  BY <1>6, RotateFill
<1>7. CASE Mint(p)
  <2>1. UNCHANGED <<record, rotations, lock>> /\ proc'[p] = proc[p]
    BY <1>7 DEF Mint, files, answers
  <2>2. Rotating(p)' => Rotating(p) /\ lock' = lock
    BY <2>1 DEF Rotating
  <2> QED
    BY <1>o, <2>1, <2>2, RotateCalm
<1>8. CASE Present(p)
  <2>1. PICK n \in DOMAIN tokens : Go(p, [pc |-> "mark", receipt |-> ReceiptFor(n), to |-> "answer"])
    BY <1>8 DEF Present
  <2>2. proc'[p].pc = "mark" /\ proc'[p].to = "answer"
    BY <2>1 DEF Go, TypeInv
  <2>3. ~ Rotating(p)'
    BY <2>2 DEF Rotating
  <2> QED
    BY <1>8, <1>o, <2>2, <2>3, RotateCalm DEF Present, files, answers
<1>9. CASE \/ ProvisionGuard(p) \/ CreateGuard(p) \/ FillGuard(p) \/ Bootstrap(p) \/ DropGuard(p)
           \/ Answer(p) \/ FindStale(p) \/ Crash(p)
  <2>1. proc'[p].pc \in {"idle", "provision", "fill guard", "bootstrap", "unlink"}
    BY <1>9, Moves
  <2>2. ~ Rotating(p)'
    BY <2>1 DEF Rotating
  <2>3. UNCHANGED <<record, rotations, lock>>
    BY <1>9 DEF ProvisionGuard, CreateGuard, FillGuard, Bootstrap, DropGuard, Answer, FindStale, Crash,
       files, answers
  <2> QED
    BY <1>o, <2>1, <2>2, <2>3, RotateCalm
<1> QED
  BY <1>1, <1>2, <1>3, <1>4, <1>5, <1>6, <1>7, <1>8, <1>9 DEF Step

\* Unlinking a stale lock file with nobody inside rotate preserves RotateInv.
LEMMA RotateUnlink ==
  ASSUME TypeInv, RotateInv, NEW p \in Procs, UnlinkStale(p), ~ robbed'
  PROVE  RotateInv'
<1>1. /\ proc'[p].pc = "idle"
      /\ \A q \in Procs : q # p => proc'[q] = proc[q]
      /\ UNCHANGED <<record, rotations>>
  BY UnlinkMoves
<1>2. lock # {} => \A q \in Procs : ~ Rotating(q)
  BY UnlinkMoves
<1>3. \A q \in Procs : ~ Rotating(q)
  BY <1>2 DEF RotateInv, Alone
<1>4. \A q \in Procs : ~ Rotating(q)'
  BY <1>1, <1>3 DEF Rotating
<1> QED
  BY <1>1, <1>4 DEF RotateInv

\* The argument of RotationsStay, as an invariant of every behaviour.
LEMMA RotateAlways == Spec => [](~ robbed => RotateInv)
<1>1. Init => RotateInv
  <2> SUFFICES ASSUME Init PROVE RotateInv
    OBVIOUS
  <2>1. \A p \in Procs : proc[p].pc = "idle"
    BY DEF Init, Idle
  <2>2. record.file # "ok" /\ rotations = 0
    BY DEF Init, Absent
  <2> QED
    BY <2>1, <2>2 DEF RotateInv, Rotating
<1>2. TypeInv /\ (~ robbed => RotateInv) /\ [Next]_vars => (~ robbed => RotateInv)'
  <2> SUFFICES ASSUME TypeInv, ~ robbed => RotateInv, [Next]_vars, ~ robbed' PROVE RotateInv'
    OBVIOUS
  <2>1. ASSUME NEW p \in Procs, Step(p), UNCHANGED robbed PROVE RotateInv'
    <3>1. RotateInv
      BY <2>1
    <3> QED
      BY <2>1, <3>1, RotateStep
  <2>2. CASE ((Tick \/ SetBack) /\ UNCHANGED robbed) \/ UNCHANGED vars
    <3>1. UNCHANGED <<record, lock, rotations, proc>>
      BY <2>2, ClockSteps DEF files, answers
    <3>2. UNCHANGED robbed
      BY <2>2 DEF vars
    <3>3. RotateInv
      BY <3>2
    <3> QED
      BY <3>1, <3>3 DEF RotateInv, Alone, Rotating
  <2>3. ASSUME NEW p \in Procs, UnlinkStale(p) PROVE RotateInv'
    <3>1. ~ robbed
      BY <2>3, UnlinkMoves
    <3> QED
      BY <2>3, <3>1, RotateUnlink
  <2> QED
    BY <2>1, <2>2, <2>3 DEF Next
<1> QED
  BY <1>1, <1>2, TypeAlways, PTL DEF Spec

\* Each rotation reported done has its own key version (rotate's lock and its
\* compare-and-swap), for any number of processes, crashes and failed writes and
\* any take-over of a dead process's lock, until the lock file of a running
\* rotation is unlinked as stale.
THEOREM RotationsStay == Spec => []RotationsKept
<1>1. (~ robbed => RotateInv) => RotationsKept
  BY DEF RotateInv, RotationsKept
<1> QED
  BY <1>1, RotateAlways, PTL

-----------------------------------------------------------------------------
(* Receipts stay valid *)

\* Once written, the key record is only ever rotated.
LEMMA RecordKept ==
  ASSUME TypeInv, RotateInv, NEW p \in Procs, Step(p), record.file = "ok"
  PROVE  record' = record \/ \E s \in Secrets : record' = Rotated(record, s)
<1>1. record # Absent /\ record # Torn
  BY DEF Absent, Torn
<1>2. CASE WriteRecord(p)
  <2>1. proc[p].pc = "write" /\ proc[p].record = record /\ proc[p].secret \in Secrets
    BY <1>2, WriteHeld DEF WriteRecord, At, RotateInv
  <2> QED
    BY <1>2, <2>1 DEF WriteRecord
<1>3. CASE CreateRecord(p)
  BY <1>1, <1>3 DEF CreateRecord
<1>4. CASE FillRecord(p)
  <2>1. record = Torn
    BY <1>4 DEF FillRecord, At, RotateInv
  <2> QED
    BY <1>1, <2>1
<1>5. CASE \/ ProvisionGuard(p) \/ CreateGuard(p) \/ FillGuard(p) \/ Bootstrap(p) \/ DropGuard(p)
           \/ Mint(p) \/ Present(p) \/ Mark(p) \/ FillMarker(p) \/ Answer(p) \/ FindStale(p)
           \/ BeginRotate(p) \/ CompareVersion(p) \/ Crash(p)
  BY <1>5 DEF ProvisionGuard, CreateGuard, FillGuard, Bootstrap, DropGuard, Mint, Present, Mark,
     FillMarker, Answer, FindStale, BeginRotate, CompareVersion, Crash, files
<1> QED
  BY <1>2, <1>3, <1>4, <1>5 DEF Step

\* Rotation retires a key and forgets none.
LEMMA SignedStays ==
  ASSUME TypeInv, RotateInv, NEW p \in Procs, Step(p), NEW r, Signed(r)
  PROVE  Signed(r)'
<1>1. record.file = "ok" /\ ReceiptKey(r.version, r.key) /\ r.consumed < r.expires
  BY DEF Signed
<1>2. CASE record' = record
  BY <1>1, <1>2 DEF Signed, ReceiptKey
<1>3. ASSUME NEW s \in Secrets, record' = Rotated(record, s) PROVE Signed(r)'
  <2>1. record \in Records
    BY <1>1 DEF TypeInv, TypeOK, Absent, Torn
  <2>2. /\ record'.file = "ok"
        /\ record'.retired = record.retired \union {[version |-> record.version, key |-> record.key]}
    BY <1>3, <2>1, RotatedTyped
  <2>3. [version |-> r.version, key |-> r.key] \in record'.retired
    BY <1>1, <2>2 DEF ReceiptKey
  <2> QED
    BY <1>1, <2>2, <2>3 DEF Signed, ReceiptKey
<1> QED
  BY <1>1, <1>2, <1>3, RecordKept

\* A receipt is signed when it is made out.
LEMMA SignedFor ==
  ASSUME TypeInv, NEW n \in DOMAIN tokens, NEW scope, Verified(n, scope)
  PROVE  Signed(ReceiptFor(n))
  BY ReceiptForTyped DEF Signed, ReceiptKey

\* The receipt a process carries stays signed until it is answered.
LEMMA ReceiptsInHand ==
  ASSUME TypeInv, RotateInv, ReceiptInv, NEW p \in Procs, Step(p), NEW q \in Procs,
         proc'[q].pc \in {"mark", "fill marker", "answer"}
  PROVE  \E r : r = proc'[q].receipt /\ Signed(r)'
<1>1. \A r : Signed(r) => Signed(r)'
  BY SignedStays
<1>2. CASE /\ proc[q].pc \in {"mark", "fill marker", "answer"}
           /\ proc'[q].receipt = proc[q].receipt
  <2>1. Signed(proc[q].receipt)
    BY <1>2 DEF ReceiptInv
  <2>2. PICK r : r = proc[q].receipt
    OBVIOUS
  <2>3. Signed(r)
    BY <2>1, <2>2
  <2>4. Signed(r)'
    BY <1>1, <2>3
  <2> QED
    BY <1>2, <2>2, <2>4
<1>3. CASE q # p
  BY <1>2, <1>3, OthersStand
<1>4. CASE q = p
  <2>1. ASSUME NEW n \in DOMAIN tokens, NEW scope, Verified(n, scope), proc'[p].receipt = ReceiptFor(n)
        PROVE  \E r : r = proc'[q].receipt /\ Signed(r)'
    <3>1. Signed(ReceiptFor(n))
      BY <2>1, SignedFor
    <3>2. PICK r : r = ReceiptFor(n)
      OBVIOUS
    <3>3. Signed(r)
      BY <3>1, <3>2
    <3>4. Signed(r)'
      BY <1>1, <3>3
    <3> QED
      BY <1>4, <2>1, <3>2, <3>4
  <2>2. CASE Present(p)
    <3>1. PICK n \in DOMAIN tokens, scope \in Scopes \ {Rotate} :
            /\ Verified(n, scope)
            /\ Go(p, [pc |-> "mark", receipt |-> ReceiptFor(n), to |-> "answer"])
      BY <2>2 DEF Present
    <3>2. proc'[p].receipt = ReceiptFor(n)
      BY <3>1 DEF Go, TypeInv
    <3> QED
      BY <2>1, <3>1, <3>2
  <2>3. CASE BeginRotate(p)
    <3>1. PICK n \in DOMAIN tokens, s \in Secrets :
            /\ Verified(n, Rotate)
            /\ Go(p, [pc |-> "mark", receipt |-> ReceiptFor(n), to |-> "swap", secret |-> s])
      BY <2>3 DEF BeginRotate
    <3>2. proc'[p].receipt = ReceiptFor(n)
      BY <3>1 DEF Go, TypeInv
    <3> QED
      BY <2>1, <3>1, <3>2
  <2>4. CASE Mint(p)
    BY <1>2, <1>4, <2>4 DEF Mint
  <2>5. CASE Mark(p) \/ FillMarker(p)
    <3>1. proc[p].pc \in {"mark", "fill marker"}
      BY <2>5 DEF Mark, FillMarker, At
    <3>2. ASSUME NEW c \in {"fill marker", proc[p].to}, Go(p, [proc[p] EXCEPT !.pc = c])
          PROVE  proc'[p].receipt = proc[p].receipt
      <4>1. /\ [proc[p] EXCEPT !.pc = c] \in States
            /\ [proc[p] EXCEPT !.pc = c].receipt = proc[p].receipt
        BY <3>1, ReceiptKept
      <4> QED
        BY <3>2, <4>1, GoTyped
    <3>3. Done(p) => proc'[p].pc = "idle"
      <4>1. Idle.pc = "idle" /\ Idle \in States
        BY DEF Idle, States
      <4> QED
        BY <4>1, GoTyped DEF Done
    <3>4. Mark(p) => Done(p) \/ Go(p, [proc[p] EXCEPT !.pc = "fill marker"])
      BY DEF Mark
    <3>5. FillMarker(p) => Done(p) \/ Go(p, [proc[p] EXCEPT !.pc = proc[p].to])
      BY DEF FillMarker
    <3>6. proc'[p].receipt = proc[p].receipt
      BY <1>4, <2>5, <3>2, <3>3, <3>4, <3>5
    <3> QED
      BY <1>2, <1>4, <3>1, <3>6
  <2> QED
    BY <1>4, <2>2, <2>3, <2>4, <2>5, Moves DEF Step
<1> QED
  BY <1>3, <1>4

\* The marker of an accepted token is never touched again.
LEMMA MarkersStand ==
  ASSUME TypeInv, SpendInv, NEW p \in Procs, Step(p), NEW n \in Nonces, grants[n] = 1
  PROVE  grants'[n] = 1 /\ used'[n] = used[n]
<1>0. /\ used \in [Nonces -> {Absent, Torn} \union [file : {"ok"}, receipt : Receipts]]
      /\ grants \in [Nonces -> Nat]
  BY DEF TypeInv, TypeOK
<1>1. Spending(n)
  BY DEF SpendInv
<1>2. used[n] # Absent /\ \A q \in Procs : ~ Spends(q, n)
  BY <1>1, ZeroOne DEF Spending, Absent
<1>3. CASE Mark(p)
  <2>1. proc[p].receipt.nonce = n => used' = used
    BY <1>2, <1>3 DEF Mark
  <2>2. grants' = grants /\ (used' = used \/ used' = [used EXCEPT ![proc[p].receipt.nonce] = Torn])
    BY <1>3 DEF Mark, answers
  <2> QED
    BY <1>0, <2>1, <2>2
<1>4. CASE FillMarker(p)
  <2>1. proc[p].receipt.nonce # n
    BY <1>2, <1>4 DEF FillMarker, At, Spends
  <2>2. /\ grants' = grants
        /\ \/ used' = [used EXCEPT ![proc[p].receipt.nonce] = [file |-> "ok", receipt |-> proc[p].receipt]]
           \/ used' = [used EXCEPT ![proc[p].receipt.nonce] = Absent]
    BY <1>4 DEF FillMarker, answers
  <2> QED
    BY <1>0, <2>1, <2>2
<1>5. CASE Answer(p) \/ CompareVersion(p)
  <2>1. proc[p].receipt.nonce # n
    BY <1>2, <1>5 DEF Answer, CompareVersion, At, Spends
  <2>2. used' = used /\ grants' = [grants EXCEPT ![proc[p].receipt.nonce] = @ + 1]
    BY <1>5 DEF Answer, CompareVersion, Granted, files
  <2> QED
    BY <1>0, <2>1, <2>2
<1>6. CASE \/ ProvisionGuard(p) \/ CreateGuard(p) \/ FillGuard(p) \/ Bootstrap(p) \/ CreateRecord(p)
           \/ FillRecord(p) \/ DropGuard(p) \/ Mint(p) \/ Present(p) \/ FindStale(p)
           \/ BeginRotate(p) \/ WriteRecord(p) \/ Crash(p)
  <2>1. used' = used /\ grants' = grants
    BY <1>6 DEF ProvisionGuard, CreateGuard, FillGuard, Bootstrap, CreateRecord, FillRecord,
       DropGuard, Mint, Present, FindStale, BeginRotate, WriteRecord, Crash, files, answers
  <2> QED
    BY <2>1
<1> QED
  BY <1>3, <1>4, <1>5, <1>6 DEF Step

\* Every operation preserves ReceiptInv.
LEMMA ReceiptStep ==
  ASSUME TypeInv, SpendInv, RotateInv, ReceiptInv, NEW p \in Procs, Step(p)
  PROVE  ReceiptInv'
<1>1. \A r : Signed(r) => Signed(r)'
  BY SignedStays
<1>2. ASSUME NEW q \in Procs, proc'[q].pc \in {"mark", "fill marker", "answer"}
      PROVE  Signed(proc[q].receipt)'
  <2>1. PICK r : r = proc'[q].receipt /\ Signed(r)'
    BY <1>2, ReceiptsInHand
  <2> QED
    BY <2>1 DEF Signed, ReceiptKey
<1>3. ASSUME NEW r \in receipts
      PROVE  Signed(r)' /\ grants'[r.nonce] = 1 /\ used'[r.nonce] = [file |-> "ok", receipt |-> r]
  <2>1. Signed(r) /\ grants[r.nonce] = 1 /\ used[r.nonce] = [file |-> "ok", receipt |-> r]
    BY <1>3 DEF ReceiptInv
  <2>2. r.nonce \in Nonces
    BY <1>3 DEF TypeInv, TypeOK, Receipts
  <2> QED
    BY <1>1, <2>1, <2>2, MarkersStand
<1>4. CASE Answer(p)
  <2>1. PICK r : r = proc[p].receipt
    OBVIOUS
  <2>2. proc[p].pc = "answer" /\ r.nonce \in Nonces
    BY <1>4, <2>1, ReceiptHeld DEF Answer, At
  <2>3. Signed(r)
    BY <2>1, <2>2 DEF ReceiptInv
  <2>4. Spending(r.nonce) /\ Spends(p, r.nonce)
    BY <2>1, <2>2 DEF SpendInv, Spends
  <2>5. grants[r.nonce] = 0 /\ used[r.nonce] = [file |-> "ok", receipt |-> r]
    BY <2>1, <2>2, <2>4 DEF Spending
  <2>6. used' = used /\ grants' = [grants EXCEPT ![r.nonce] = @ + 1] /\ receipts' = receipts \union {r}
    BY <1>4, <2>1 DEF Answer, Granted, files
  <2>7. grants'[r.nonce] = 1
    BY <2>2, <2>5, <2>6, ZeroOne DEF TypeInv, TypeOK
  <2>8. Signed(r)'
    BY <1>1, <2>3
  <2> QED
    BY <1>2, <1>3, <2>5, <2>6, <2>7, <2>8 DEF ReceiptInv
<1>5. CASE ~ Answer(p)
  <2>1. receipts' = receipts
    BY <1>5 DEF Step, ProvisionGuard, CreateGuard, FillGuard, Bootstrap, CreateRecord, FillRecord,
       DropGuard, Mint, Present, Mark, FillMarker, FindStale, BeginRotate, CompareVersion, WriteRecord,
       Crash, answers
  <2> QED
    BY <1>2, <1>3, <2>1 DEF ReceiptInv
<1> QED
  BY <1>4, <1>5

\* A receipt that was handed out passes validate_receipt for ever after, through
\* any rotations of any number of processes, failed and interrupted ones and
\* take-overs of a dead process's lock included, until the lock file of a running
\* rotation is unlinked as stale.
THEOREM ReceiptsKeepValid == Spec => []ReceiptsStayValid
<1>1. Init => ReceiptInv
  <2> SUFFICES ASSUME Init PROVE ReceiptInv
    OBVIOUS
  <2>1. receipts = {} /\ \A p \in Procs : proc[p].pc = "idle"
    BY DEF Init, Idle
  <2> QED
    BY <2>1 DEF ReceiptInv
<1>2. TypeInv /\ SpendInv /\ (~ robbed => RotateInv) /\ (~ robbed => ReceiptInv) /\ [Next]_vars
        => (~ robbed => ReceiptInv)'
  <2> SUFFICES ASSUME TypeInv, SpendInv, ~ robbed => RotateInv, ~ robbed => ReceiptInv,
                      [Next]_vars, ~ robbed'
               PROVE  ReceiptInv'
    OBVIOUS
  <2>1. ASSUME NEW p \in Procs, Step(p), UNCHANGED robbed PROVE ReceiptInv'
    <3>1. RotateInv /\ ReceiptInv
      BY <2>1
    <3> QED
      BY <2>1, <3>1, ReceiptStep
  <2>2. CASE ((Tick \/ SetBack) /\ UNCHANGED robbed) \/ UNCHANGED vars
    <3>1. UNCHANGED <<record, used, grants, receipts, proc>>
      BY <2>2, ClockSteps DEF files, answers
    <3>2. UNCHANGED robbed
      BY <2>2 DEF vars
    <3>3. ReceiptInv
      BY <3>2
    <3> QED
      BY <3>1, <3>3 DEF ReceiptInv, Signed, ReceiptKey
  <2>3. ASSUME NEW p \in Procs, UnlinkStale(p) PROVE ReceiptInv'
    <3>1. /\ UNCHANGED <<record, used, grants, receipts>> /\ proc'[p].pc = "idle"
          /\ \A q \in Procs : q # p => proc'[q] = proc[q]
      BY <2>3, UnlinkMoves
    <3>2. ~ robbed
      BY <2>3, UnlinkMoves
    <3>3. ReceiptInv
      BY <3>2
    <3> QED
      BY <3>1, <3>3 DEF ReceiptInv, Signed, ReceiptKey
  <2> QED
    BY <2>1, <2>2, <2>3 DEF Next
<1>3. (~ robbed => RotateInv) /\ (~ robbed => ReceiptInv) => ReceiptsStayValid
  BY DEF RotateInv, ReceiptInv, ReceiptsStayValid, Valid, Signed
<1> QED
  BY <1>1, <1>2, <1>3, TypeAlways, SpendAlways, RotateAlways, PTL DEF Spec

=============================================================================
