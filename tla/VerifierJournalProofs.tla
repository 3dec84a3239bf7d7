----------------------- MODULE VerifierJournalProofs -----------------------
(***************************************************************************)
(* Theorems about VerifierJournal for every set of threads, processes and  *)
(* dispatches, and any number of crashes and I/O errors.  Those about the  *)
(* history of the records are about the threads of one process, which      *)
(* share the journal's lock.                                               *)
(***************************************************************************)
EXTENDS VerifierJournal, FiniteSetTheorems, TLAPS

-----------------------------------------------------------------------------
(* Types of the values the operations build *)

LEMMA RequestedType ==
    ASSUME NEW i \in Identities
    PROVE  Requested(i) \in Record
BY DEF Requested, Record, ALL_STATES

LEMMA NextRecordType ==
    ASSUME NEW r \in Record, NEW state \in ALL_STATES, NEW code \in BOOLEAN
    PROVE  NextRecord(r, state, code) \in Record
<1>1. r.revision + 1 \in Nat /\ (r.failed \/ code) \in BOOLEAN
  BY DEF Record
<1>2. \A n \in Nat, b \in BOOLEAN :
        [r EXCEPT !.state = state, !.revision = n, !.failed = b] \in Record
  BY DEF Record
<1>. QED BY <1>1, <1>2 DEF NextRecord

LEMMA JobUpdateType ==
    ASSUME NEW j \in Job, NEW kind \in Kinds, NEW r \in Record,
           NEW d \in Dispatches, NEW todo \in SUBSET Dispatches
    PROVE  /\ [j EXCEPT !.kind = kind] \in Job
           /\ [j EXCEPT !.next = r] \in Job
           /\ [j EXCEPT !.todo = todo] \in Job
           /\ [j EXCEPT !.d = d, !.todo = todo, !.next = r] \in Job
BY DEF Job

\* The part of TypeOK about the threads.
ThreadsOK ==
    /\ pc \in [Threads -> Steps \union {"idle"}]
    /\ job \in [Threads -> Job \union {NoJob}]
    /\ \A th \in Threads : pc[th] # "idle" => job[th] \in Job

LEMMA ThreadMoves ==
    ASSUME ThreadsOK, NEW th \in Threads, NEW step \in Steps, NEW j \in Job,
           Become(th, step), job' = [job EXCEPT ![th] = j]
    PROVE  ThreadsOK'
BY DEF ThreadsOK, Become

LEMMA ThreadFinishes ==
    ASSUME ThreadsOK, NEW th \in Threads, Finish(th)
    PROVE  ThreadsOK'
BY DEF ThreadsOK, Become, Finish

LEMMA ThreadBegins ==
    ASSUME ThreadsOK, NEW th \in Threads, NEW step \in Steps, NEW d \in Dispatches,
           NEW kind \in Kinds, NEW body \in Receipts \union {NoReceipt},
           NEW next \in Record, NEW seen \in Record, NEW todo \in SUBSET Dispatches,
           Begin(th, step, d, kind, body, next, seen, todo)
    PROVE  ThreadsOK'
<1>. DEFINE j == [d |-> d, kind |-> kind, body |-> body, next |-> next,
                  seen |-> seen, todo |-> todo]
<1>1. j \in Job
  BY DEF Job
<1>2. Become(th, step) /\ job' = [job EXCEPT ![th] = j]
  BY DEF Begin
<1>. HIDE DEF j
<1>. QED BY <1>1, <1>2, ThreadMoves

LEMMA CallType ==
    ASSUME TypeOK, NEW th \in Threads, Call(th)
    PROVE  TypeOK'
<1>. USE DEF Steps, FileSteps, Kinds
<1>1. ThreadsOK
  BY DEF TypeOK, ThreadsOK
<1>2. ASSUME NEW d \in Dispatches, NEW i \in Identities, claim_dispatch(th, d, i)
      PROVE  ThreadsOK' /\ UNCHANGED <<file, rec, mark, rcp, path, acquisitions, crashes, errors>>
  <2>1. PICK kind \in {"record", "marker"} :
          Begin(th, "create", d, kind, NoReceipt, Requested(i), Requested(i), {})
    BY <1>2 DEF claim_dispatch
  <2>2. ThreadsOK'
    BY <1>1, <2>1, RequestedType, ThreadBegins
  <2>. QED BY <2>1, <2>2 DEF Begin
<1>3. ASSUME NEW d \in Dispatches, NEW state \in Driven, NEW code \in BOOLEAN,
             transition(th, d, state, code)
      PROVE  ThreadsOK' /\ UNCHANGED <<file, rec, mark, rcp, path, acquisitions, crashes, errors>>
  <2>1. NextRecord(rec[d], state, code) \in Record
    BY NextRecordType DEF TypeOK, Driven
  <2>. DEFINE next == NextRecord(rec[d], state, code)
  <2>2. Begin(th, "replace", d, "record", NoReceipt, next, next, {})
    BY <1>3 DEF transition
  <2>3. ThreadsOK'
    BY <1>1, <2>1, <2>2, ThreadBegins
  <2>. QED BY <2>2, <2>3 DEF Begin
<1>4. ASSUME NEW ds \in SUBSET Dispatches, recover(th, ds)
      PROVE  ThreadsOK' /\ UNCHANGED <<file, rec, mark, rcp, path, acquisitions, crashes, errors>>
  <2>1. PICK d \in ds : Begin(th, "recovering", d, "record", NoReceipt, rec[d], rec[d], ds)
    BY <1>4 DEF recover
  <2>2. rec[d] \in Record
    BY DEF TypeOK
  <2>3. ThreadsOK'
    BY <1>1, <2>1, <2>2, ThreadBegins
  <2>. QED BY <2>1, <2>3 DEF Begin
<1>5. ASSUME NEW d \in Dispatches, NEW i \in Identities, NEW body \in Receipts,
             persist_receipt(th, d, i, body)
      PROVE  ThreadsOK' /\ UNCHANGED <<file, rec, mark, rcp, path, acquisitions, crashes, errors>>
  <2>1. rec[d] \in Record
    BY DEF TypeOK
  <2>2. Begin(th, "create", d, "receipt", body, rec[d], rec[d], {})
    BY <1>5 DEF persist_receipt
  <2>3. ThreadsOK'
    BY <1>1, <2>1, <2>2, ThreadBegins
  <2>. QED BY <2>2, <2>3 DEF Begin
<1>6. ThreadsOK' /\ UNCHANGED <<file, rec, mark, rcp, path, acquisitions, crashes, errors>>
  BY <1>2, <1>3, <1>4, <1>5 DEF Call
<1>. QED BY <1>6 DEF TypeOK, ThreadsOK

LEMMA ProceedType ==
    ASSUME ThreadsOK, NEW th \in Threads, pc[th] # "idle", Proceed(th)
    PROVE  ThreadsOK'
<1>1. job[th] \in Job /\ job[th].kind \in Kinds
  BY DEF ThreadsOK, Job
<1>. DEFINE kind == IF job[th].kind = "record" THEN "marker" ELSE job[th].kind
            step == CASE job[th].kind = "record"  -> "create"
                      [] job[th].kind = "marker"  -> "reload"
                      [] job[th].kind = "receipt" -> "advance"
<1>2. kind \in Kinds /\ step \in Steps
  BY <1>1 DEF Kinds, Steps, FileSteps
<1>3. [job[th] EXCEPT !.kind = kind] \in Job
  BY <1>1, <1>2 DEF Job
<1>4. job' = [job EXCEPT ![th] = [job[th] EXCEPT !.kind = kind]]
  BY DEF Proceed
<1>5. Become(th, step)
  BY DEF Proceed
<1>. HIDE DEF kind, step
<1>. QED BY <1>2, <1>3, <1>4, <1>5, ThreadMoves

-----------------------------------------------------------------------------
(* Type correctness *)

LEMMA TypeStep ==
    ASSUME TypeOK, [Next]_vars
    PROVE  TypeOK'
<1>0. ThreadsOK
  BY DEF TypeOK, ThreadsOK
<1>1. ASSUME NEW th \in Threads, Call(th) PROVE TypeOK'
  BY <1>1, CallType
<1>2. ASSUME NEW th \in Threads, CreateFile(th) PROVE TypeOK'
  <2>1. pc[th] = "create" /\ job[th] \in Job
    BY <1>0, <1>2 DEF CreateFile, ThreadsOK
  <2>2. file' \in [Names -> {"absent", "torn", "whole"}]
    BY <1>2, <2>1 DEF CreateFile, TypeOK
  <2>3. ThreadsOK'
    <3>1. CASE Become(th, "fill") /\ UNCHANGED job
      BY <1>0, <2>1, <3>1 DEF ThreadsOK, Become, Steps, FileSteps
    <3>. QED BY <1>0, <1>2, <2>1, <3>1, ProceedType, ThreadFinishes DEF CreateFile
  <2>. QED BY <1>2, <2>2, <2>3 DEF CreateFile, TypeOK, ThreadsOK
<1>3. ASSUME NEW th \in Threads, FillFile(th) PROVE TypeOK'
  <2>1. pc[th] = "fill" /\ job[th] \in Job
    BY <1>0, <1>3 DEF FillFile, ThreadsOK
  <2>2. /\ job[th].d \in Dispatches /\ job[th].next \in Record
        /\ job[th].next.ident \in Identities /\ job[th].body \in Receipts \union {NoReceipt}
    BY <2>1 DEF Job, Record
  <2>3. file' \in [Names -> {"absent", "torn", "whole"}]
    BY <1>3 DEF FillFile, TypeOK
  <2>4. /\ rec' \in [Dispatches -> Record] /\ mark' \in [Dispatches -> Identities]
        /\ rcp' \in [Dispatches -> Receipts \union {NoReceipt}]
    BY <1>3, <2>2 DEF FillFile, TypeOK
  <2>5. ThreadsOK'
    BY <1>0, <1>3, <2>1 DEF FillFile, ThreadsOK, Become, Steps, FileSteps
  <2>. QED BY <1>3, <2>3, <2>4, <2>5 DEF FillFile, TypeOK, ThreadsOK
<1>4. ASSUME NEW th \in Threads, SyncFile(th) PROVE TypeOK'
  <2>1. pc[th] = "sync" /\ job[th] \in Job
    BY <1>0, <1>4 DEF SyncFile, ThreadsOK
  <2>2. ThreadsOK'
    BY <1>0, <1>4, <2>1, ProceedType DEF SyncFile
  <2>3. acquisitions' \in [Dispatches -> Nat]
    <3>. DEFINE more == IF job[th].kind = "marker" THEN 1 ELSE 0
    <3>1. job[th].d \in Dispatches /\ more \in Nat
      BY <2>1 DEF Job
    <3>2. acquisitions[job[th].d] + more \in Nat
      BY <3>1 DEF TypeOK
    <3>3. acquisitions' = [acquisitions EXCEPT ![job[th].d] = acquisitions[job[th].d] + more]
      BY <1>4 DEF SyncFile
    <3>. HIDE DEF more
    <3>. QED BY <3>1, <3>2, <3>3 DEF TypeOK
  <2>. QED BY <1>4, <2>2, <2>3 DEF SyncFile, TypeOK, ThreadsOK
<1>5. ASSUME NEW th \in Threads, WriteFails(th) PROVE TypeOK'
  <2>1. pc[th] \in {"fill", "sync"} /\ job[th] \in Job
    BY <1>0, <1>5 DEF WriteFails, ThreadsOK
  <2>2. <<job[th].kind, job[th].d>> \in Names
    BY <2>1 DEF Job, Names
  <2>3. file' \in [Names -> {"absent", "torn", "whole"}]
    BY <1>5, <2>2 DEF WriteFails, TypeOK
  <2>4. ThreadsOK'
    BY <1>0, <1>5, ThreadFinishes DEF WriteFails
  <2>. QED BY <1>5, <2>3, <2>4 DEF WriteFails, TypeOK, ThreadsOK
<1>6. ASSUME NEW th \in Threads, Reload(th) PROVE TypeOK'
  <2>1. pc[th] = "reload" /\ job[th] \in Job /\ rec[job[th].d] \in Record
    BY <1>0, <1>6 DEF Reload, ThreadsOK, TypeOK, Job
  <2>. DEFINE next == NextRecord(rec[job[th].d], "CLAIMED", FALSE)
  <2>2. next \in Record
    BY <2>1, NextRecordType DEF ALL_STATES
  <2>3. [job[th] EXCEPT !.next = next] \in Job
    BY <2>1, <2>2 DEF Job
  <2>4. ThreadsOK'
    <3>1. CASE Finish(th)
      BY <1>0, <3>1, ThreadFinishes
    <3>2. CASE /\ job' = [job EXCEPT ![th] = [job[th] EXCEPT !.next = next]]
               /\ Become(th, "replace")
      BY <1>0, <2>3, <3>2, ThreadMoves DEF Steps
    <3>. QED BY <1>6, <3>1, <3>2 DEF Reload
  <2>. QED BY <1>6, <2>4 DEF Reload, TypeOK, ThreadsOK
<1>7. ASSUME NEW th \in Threads, RecoverOne(th) PROVE TypeOK'
  <2>1. pc[th] = "recovering" /\ job[th] \in Job /\ job[th].todo \in SUBSET Dispatches
    BY <1>0, <1>7 DEF RecoverOne, ThreadsOK, Job
  <2>2. PICK d \in job[th].todo :
          LET todo == job[th].todo \ {d}
          IN IF rec[d].state \in Recoverable
             THEN /\ job' = [job EXCEPT ![th].d = d, ![th].todo = todo,
                         ![th].next = NextRecord(rec[d], RecoveryState(rec[d].state), TRUE)]
                  /\ Become(th, "replace")
             ELSE IF todo = {} THEN Finish(th)
             ELSE Become(th, "recovering") /\ job' = [job EXCEPT ![th].todo = todo]
    BY <1>7 DEF RecoverOne
  <2>. DEFINE todo == job[th].todo \ {d}
              next == NextRecord(rec[d], RecoveryState(rec[d].state), TRUE)
  <2>3. d \in Dispatches /\ todo \in SUBSET Dispatches
    BY <2>1
  <2>4. next \in Record
    BY <2>3, NextRecordType DEF TypeOK, RecoveryState, ALL_STATES
  <2>5. /\ [job[th] EXCEPT !.d = d, !.todo = todo, !.next = next] \in Job
        /\ [job[th] EXCEPT !.todo = todo] \in Job
    BY <2>1, <2>3, <2>4, JobUpdateType DEF Kinds
  <2>6. \/ /\ job' = [job EXCEPT ![th] = [job[th] EXCEPT !.d = d, !.todo = todo, !.next = next]]
           /\ Become(th, "replace")
        \/ Finish(th)
        \/ Become(th, "recovering") /\ job' = [job EXCEPT ![th] = [job[th] EXCEPT !.todo = todo]]
    BY <1>0, <2>2 DEF ThreadsOK
  <2>. HIDE DEF todo, next
  <2>7. ThreadsOK'
    BY <1>0, <2>5, <2>6, ThreadMoves, ThreadFinishes DEF Steps
  <2>. QED BY <1>7, <2>7 DEF RecoverOne, TypeOK, ThreadsOK
<1>8. ASSUME NEW th \in Threads, Advance(th) PROVE TypeOK'
  <2>1. pc[th] = "advance" /\ job[th] \in Job /\ rec[job[th].d] \in Record
    BY <1>0, <1>8 DEF Advance, ThreadsOK, TypeOK, Job
  <2>. DEFINE next == NextRecord(rec[job[th].d], "RECEIPT_PERSISTED", FALSE)
  <2>2. next \in Record
    BY <2>1, NextRecordType DEF ALL_STATES
  <2>3. [job[th] EXCEPT !.next = next] \in Job
    BY <2>1, <2>2 DEF Job
  <2>4. ThreadsOK'
    <3>1. CASE Finish(th)
      BY <1>0, <3>1, ThreadFinishes
    <3>2. CASE /\ job' = [job EXCEPT ![th] = [job[th] EXCEPT !.next = next]]
               /\ Become(th, "replace")
      BY <1>0, <2>3, <3>2, ThreadMoves DEF Steps
    <3>. QED BY <1>8, <3>1, <3>2 DEF Advance
  <2>. QED BY <1>8, <2>4 DEF Advance, TypeOK, ThreadsOK
<1>9. ASSUME NEW th \in Threads, pc[th] = "replace", WriteRecord(th)
      PROVE  /\ file' \in [Names -> {"absent", "torn", "whole"}]
             /\ rec' \in [Dispatches -> Record]
             /\ path' \in [Dispatches -> Seq(ALL_STATES)]
  <2>1. job[th] \in Job
    BY <1>0, <1>9 DEF ThreadsOK
  <2>2. job[th].d \in Dispatches /\ job[th].next \in Record /\ job[th].next.state \in ALL_STATES
    BY <2>1 DEF Job, Record
  <2>3. Append(path[job[th].d], job[th].next.state) \in Seq(ALL_STATES)
    BY <2>2 DEF TypeOK
  <2>. QED BY <1>9, <2>2, <2>3 DEF WriteRecord, TypeOK
<1>10. ASSUME NEW th \in Threads, Replace(th) PROVE TypeOK'
  <2>1. ThreadsOK'
    <3>1. CASE Finish(th)
      BY <1>0, <3>1, ThreadFinishes
    <3>2. CASE Become(th, "recovering") /\ UNCHANGED job
      BY <1>0, <1>10, <3>2 DEF Replace, ThreadsOK, Become, Steps
    <3>. QED BY <1>10, <3>1, <3>2 DEF Replace
  <2>. QED BY <1>9, <1>10, <2>1 DEF Replace, TypeOK, ThreadsOK
<1>11. ASSUME NEW th \in Threads, ReplaceFails(th) PROVE TypeOK'
  <2>1. ThreadsOK'
    BY <1>0, <1>11, ThreadFinishes DEF ReplaceFails
  <2>. QED BY <1>9, <1>11, <2>1 DEF ReplaceFails, TypeOK, ThreadsOK
<1>12. ASSUME NEW proc \in Processes, Crash(proc) PROVE TypeOK'
  <2>1. ThreadsOK'
    BY <1>0, <1>12 DEF Crash, ThreadsOK
  <2>. QED BY <1>12, <2>1 DEF Crash, TypeOK, ThreadsOK
<1>13. CASE UNCHANGED vars
  BY <1>13 DEF vars, TypeOK
<1>. QED
  BY <1>1, <1>2, <1>3, <1>4, <1>5, <1>6, <1>7, <1>8, <1>10, <1>11, <1>12, <1>13
  DEF Next, Progress

\* Every variable keeps its type: in particular a thread inside an operation
\* always has that operation's local variables, across crashes and errors.
THEOREM TypeCorrect == Spec => []TypeOK
<1>1. Init => TypeOK
  <2>1. (CHOOSE i \in Identities : TRUE) \in Identities
    BY ConstantsAssumption
  <2>. QED BY <2>1, RequestedType DEF Init, TypeOK, Job, NoJob
<1>2. TypeOK /\ [Next]_vars => TypeOK'
  BY TypeStep
<1>. QED BY <1>1, <1>2, PTL DEF Spec

-----------------------------------------------------------------------------
(* One claim per dispatch *)

\* The thread has created the claim marker of d and not returned from that.
Marks(th, d) == pc[th] \in {"fill", "sync"} /\ job[th].kind = "marker" /\ job[th].d = d

\* OneOwner is not inductive: what keeps a second call from acquiring the
\* dispatch is that the marker file is there from its creation on, whatever
\* happens to the call that created it once the dispatch is acquired.
ClaimOK(d) ==
    /\ acquisitions[d] \in {0, 1}
    /\ acquisitions[d] = 1 => file[<<"marker", d>>] # "absent"
    /\ \A th \in Threads : Marks(th, d) =>
         /\ file[<<"marker", d>>] # "absent" /\ acquisitions[d] = 0
         /\ \A u \in Threads : Marks(u, d) => u = th

ClaimInv == \A d \in Dispatches : ClaimOK(d)

\* Steps that neither touch a marker file nor make a thread its creator.
LEMMA ClaimFrame ==
    ASSUME ClaimInv, acquisitions' = acquisitions,
           \A d \in Dispatches : file'[<<"marker", d>>] = file[<<"marker", d>>],
           \A d \in Dispatches, th \in Threads : Marks(th, d)' => Marks(th, d)
    PROVE  ClaimInv'
BY DEF ClaimInv, ClaimOK

\* A thread whose next step does not fill or sync creates no marker.
LEMMA QuietThread ==
    ASSUME ThreadsOK, ThreadsOK', NEW th \in Threads,
           pc'[th] \notin {"fill", "sync"},
           \A u \in Threads \ {th} : pc'[u] = pc[u] /\ job'[u] = job[u]
    PROVE  \A d \in Dispatches, u \in Threads : Marks(u, d)' => Marks(u, d)
BY DEF Marks

LEMMA ClaimStep ==
    ASSUME TypeOK, TypeOK', ClaimInv, [Next]_vars
    PROVE  ClaimInv'
<1>0. ThreadsOK /\ ThreadsOK'
  BY DEF TypeOK, ThreadsOK
<1>1. ASSUME NEW th \in Threads, Call(th) PROVE ClaimInv'
  <2>1. \E step \in {"create", "replace", "recovering"} : Become(th, step)
    BY <1>1 DEF Call, claim_dispatch, transition, recover, persist_receipt, Begin
  <2>2. \A u \in Threads \ {th} : pc'[u] = pc[u] /\ job'[u] = job[u]
    BY <1>0, <1>1 DEF Call, claim_dispatch, transition, recover, persist_receipt, Begin, Become, ThreadsOK
  <2>3. UNCHANGED <<file, acquisitions>>
    BY <1>1 DEF Call, claim_dispatch, transition, recover, persist_receipt, Begin
  <2>4. pc'[th] \notin {"fill", "sync"}
    BY <1>0, <2>1 DEF Become, ThreadsOK
  <2>. QED BY <1>0, <2>2, <2>3, <2>4, QuietThread, ClaimFrame
<1>2. ASSUME NEW th \in Threads, CreateFile(th) PROVE ClaimInv'
  <2>. DEFINE f == <<job[th].kind, job[th].d>>
  <2>1. pc[th] = "create" /\ job[th] \in Job /\ f \in Names
    BY <1>0, <1>2 DEF CreateFile, ThreadsOK, Job, Names
  <2>2. CASE Creates(f)
    <3>1. /\ file' = [file EXCEPT ![f] = "torn"] /\ file[f] = "absent"
          /\ Become(th, "fill") /\ UNCHANGED <<job, acquisitions>>
      BY <1>2, <2>2 DEF CreateFile, Creates
    <3>2. \A d \in Dispatches : f # <<"marker", d>> =>
            file'[<<"marker", d>>] = file[<<"marker", d>>]
      BY <3>1 DEF TypeOK, Names, Kinds
    <3>3. \A d \in Dispatches, u \in Threads : u # th => (Marks(u, d)' <=> Marks(u, d))
      BY <1>0, <3>1 DEF Marks, Become, ThreadsOK
    <3>4. \A d \in Dispatches : Marks(th, d)' => f = <<"marker", d>>
      BY <3>1 DEF Marks
    <3>5. ASSUME NEW d \in Dispatches, f = <<"marker", d>>
          PROVE  /\ acquisitions[d] = 0 /\ file'[<<"marker", d>>] # "absent"
                 /\ \A u \in Threads : ~Marks(u, d)
      BY <2>1, <3>1, <3>5 DEF ClaimInv, ClaimOK, TypeOK
    <3>. QED BY <3>1, <3>2, <3>3, <3>4, <3>5 DEF ClaimInv, ClaimOK
  <2>3. CASE ~Creates(f)
    <3>1. /\ Proceed(th) \/ Finish(th)
          /\ UNCHANGED <<file, acquisitions>>
      BY <1>2, <2>3 DEF CreateFile
    <3>2. /\ pc'[th] \notin {"fill", "sync"}
          /\ \A u \in Threads \ {th} : pc'[u] = pc[u] /\ job'[u] = job[u]
      BY <1>0, <2>1, <3>1 DEF Proceed, Finish, Become, ThreadsOK, Job, Kinds
    <3>. QED BY <1>0, <3>1, <3>2, QuietThread, ClaimFrame
  <2>. QED BY <2>2, <2>3
<1>3. ASSUME NEW th \in Threads, FillFile(th) PROVE ClaimInv'
  <2>. DEFINE f == <<job[th].kind, job[th].d>>
  <2>1. /\ pc[th] = "fill" /\ Become(th, "sync") /\ UNCHANGED <<job, acquisitions>>
        /\ file' = [file EXCEPT ![f] = "whole"]
    BY <1>3 DEF FillFile
  <2>2. \A d \in Dispatches, u \in Threads : Marks(u, d)' <=> Marks(u, d)
    BY <1>0, <2>1 DEF Marks, Become, ThreadsOK
  <2>3. \A d \in Dispatches :
          \/ file'[<<"marker", d>>] = file[<<"marker", d>>]
          \/ file'[<<"marker", d>>] = "whole"
    BY <2>1 DEF TypeOK, Names, Kinds
  <2>. QED BY <2>1, <2>2, <2>3 DEF ClaimInv, ClaimOK
<1>4. ASSUME NEW th \in Threads, SyncFile(th) PROVE ClaimInv'
  <2>1. pc[th] = "sync" /\ job[th] \in Job /\ job[th].d \in Dispatches /\ UNCHANGED file
    BY <1>0, <1>4 DEF SyncFile, ThreadsOK, Job
  <2>2. /\ pc'[th] \notin {"fill", "sync"}
        /\ \A u \in Threads \ {th} : pc'[u] = pc[u] /\ job'[u] = job[u]
    BY <1>0, <1>4, <2>1 DEF SyncFile, Proceed, Become, ThreadsOK, Job, Kinds
  <2>3. \A d \in Dispatches, u \in Threads : Marks(u, d)' => Marks(u, d) /\ u # th
    BY <2>2 DEF Marks
  <2>4. CASE job[th].kind = "marker"
    <3>0. PICK e \in Dispatches : e = job[th].d
      BY <2>1
    <3>1. Marks(th, e)
      BY <2>1, <2>4, <3>0 DEF Marks
    <3>2. acquisitions[e] = 0 /\ file[<<"marker", e>>] # "absent"
          /\ \A u \in Threads : Marks(u, e) => u = th
      BY <2>1, <3>1 DEF ClaimInv, ClaimOK
    <3>3. acquisitions' = [acquisitions EXCEPT ![e] = 1]
      BY <1>4, <2>1, <2>4, <3>0, <3>2 DEF SyncFile, TypeOK
    <3>4. e \in Dispatches /\ acquisitions \in [Dispatches -> Nat]
      BY DEF TypeOK
    <3>5. ClaimOK(e)'
      <4>1. acquisitions'[e] = 1 /\ file'[<<"marker", e>>] # "absent"
        BY <2>1, <3>2, <3>3, <3>4
      <4>2. \A u \in Threads : ~Marks(u, e)'
        BY <2>3, <3>2, <3>4
      <4>. QED BY <4>1, <4>2 DEF ClaimOK
    <3>6. ASSUME NEW d \in Dispatches, d # e PROVE ClaimOK(d)'
      <4>1. acquisitions'[d] = acquisitions[d] /\ file'[<<"marker", d>>] = file[<<"marker", d>>]
        BY <2>1, <3>3, <3>4, <3>6
      <4>. QED BY <2>3, <4>1 DEF ClaimInv, ClaimOK
    <3>. QED BY <3>5, <3>6 DEF ClaimInv
  <2>5. CASE job[th].kind # "marker"
    <3>1. acquisitions' = acquisitions
      <4>1. acquisitions[job[th].d] + 0 = acquisitions[job[th].d]
        BY <2>1 DEF TypeOK
      <4>. QED BY <1>4, <2>1, <2>5, <4>1 DEF SyncFile, TypeOK
    <3>. QED BY <2>1, <2>3, <3>1, ClaimFrame
  <2>. QED BY <2>4, <2>5
<1>5. ASSUME NEW th \in Threads, WriteFails(th) PROVE ClaimInv'
  <2>. DEFINE f == <<job[th].kind, job[th].d>>
  <2>1. /\ pc[th] \in {"fill", "sync"} /\ job[th] \in Job /\ f \in Names
        /\ Finish(th) /\ UNCHANGED acquisitions
    BY <1>0, <1>5 DEF WriteFails, ThreadsOK, Job, Names
  <2>2. /\ pc'[th] = "idle"
        /\ \A u \in Threads \ {th} : pc'[u] = pc[u] /\ job'[u] = job[u]
    BY <1>0, <2>1 DEF Finish, Become, ThreadsOK
  <2>3. \A d \in Dispatches, u \in Threads : Marks(u, d)' => Marks(u, d) /\ u # th
    BY <2>2 DEF Marks
  <2>4. \A d \in Dispatches :
          \/ file'[<<"marker", d>>] = file[<<"marker", d>>]
          \/ Marks(th, d)
    <3>1. PICK left \in {"absent", file[f]} : file' = [file EXCEPT ![f] = left]
      BY <1>5 DEF WriteFails
    <3>. QED BY <2>1, <3>1 DEF Marks, TypeOK, Names, Kinds
  <2>5. ASSUME NEW d \in Dispatches, Marks(th, d) PROVE ClaimOK(d)'
    <3>1. acquisitions[d] = 0 /\ \A u \in Threads : Marks(u, d) => u = th
      BY <2>5 DEF ClaimInv, ClaimOK
    <3>2. \A u \in Threads : ~Marks(u, d)'
      BY <2>3, <3>1
    <3>. QED BY <2>1, <3>1, <3>2 DEF ClaimOK
  <2>6. ASSUME NEW d \in Dispatches, ~Marks(th, d) PROVE ClaimOK(d)'
    BY <2>1, <2>3, <2>4, <2>6 DEF ClaimInv, ClaimOK
  <2>. QED BY <2>5, <2>6 DEF ClaimInv
<1>6. ASSUME NEW th \in Threads, Reload(th) \/ RecoverOne(th) \/ Advance(th) PROVE ClaimInv'
  <2>1. /\ \E step \in {"idle", "replace", "recovering"} : Become(th, step)
        /\ UNCHANGED <<file, acquisitions>>
    BY <1>6 DEF Reload, RecoverOne, Advance, Finish
  <2>2. \A u \in Threads \ {th} : pc'[u] = pc[u] /\ job'[u] = job[u]
    BY <1>0, <1>6 DEF Reload, RecoverOne, Advance, Finish, Become, ThreadsOK
  <2>3. pc'[th] \notin {"fill", "sync"}
    BY <1>0, <2>1 DEF Become, ThreadsOK
  <2>. QED BY <1>0, <2>1, <2>2, <2>3, QuietThread, ClaimFrame
<1>7. ASSUME NEW th \in Threads, Replace(th) \/ ReplaceFails(th) PROVE ClaimInv'
  <2>1. /\ \E step \in {"idle", "recovering"} : Become(th, step)
        /\ UNCHANGED acquisitions
        /\ WriteRecord(th) \/ UNCHANGED file
    BY <1>7 DEF Replace, ReplaceFails, Finish
  <2>2. \A u \in Threads \ {th} : pc'[u] = pc[u] /\ job'[u] = job[u]
    BY <1>0, <1>7 DEF Replace, ReplaceFails, Finish, Become, ThreadsOK
  <2>3. pc'[th] \notin {"fill", "sync"}
    BY <1>0, <2>1 DEF Become, ThreadsOK
  <2>4. \A d \in Dispatches : file'[<<"marker", d>>] = file[<<"marker", d>>]
    BY <2>1 DEF WriteRecord, TypeOK, Names, Kinds
  <2>. QED BY <1>0, <2>1, <2>2, <2>3, <2>4, QuietThread, ClaimFrame
<1>8. ASSUME NEW proc \in Processes, Crash(proc) PROVE ClaimInv'
  <2>1. \A d \in Dispatches, th \in Threads : Marks(th, d)' => Marks(th, d)
    BY <1>8 DEF Crash, Marks
  <2>. QED BY <1>8, <2>1, ClaimFrame DEF Crash
<1>9. CASE UNCHANGED vars
  BY <1>9 DEF vars, ClaimInv, ClaimOK, Marks
<1>. QED
  BY <1>1, <1>2, <1>3, <1>4, <1>5, <1>6, <1>7, <1>8, <1>9 DEF Next, Progress

\* At most one claim_dispatch call acquires a dispatch, for any number of
\* threads and processes, which need share no lock: O_EXCL on the claim marker
\* is enough, whatever crashes and fails.
THEOREM ClaimedOnce == Spec => []OneOwner
<1>1. Init => ClaimInv
  BY DEF Init, ClaimInv, ClaimOK, Marks
<1>2. TypeOK /\ TypeOK' /\ ClaimInv /\ [Next]_vars => ClaimInv'
  BY ClaimStep
<1>3. ClaimInv => OneOwner
  <2>1. ASSUME ClaimInv, NEW d \in Dispatches PROVE acquisitions[d] \in {0, 1}
    BY <2>1 DEF ClaimInv, ClaimOK
  <2>2. \A n \in {0, 1} : n <= 1
    OBVIOUS
  <2>. QED BY <2>1, <2>2 DEF OneOwner
<1>. QED BY <1>1, <1>2, <1>3, TypeCorrect, PTL DEF Spec

-----------------------------------------------------------------------------
(* The history of a record.  Under the lock a thread replaces a record by a *)
(* successor of what the file holds, so what the state of a record says of  *)
(* the states before it stays true.                                         *)

\* At most one thread is inside the journal's lock.
Alone == \A th, u \in Threads : Locked(th) /\ Locked(u) => th = u

\* What may be written over a record: a move of the table or of recover, which
\* keeps the failure code and sets it when it aborts.
Successor(r, next) ==
    /\ r.failed => next.failed
    /\ \/ CanMove(r, next.state)
       \/ r.state \in Recoverable /\ next.state = RecoveryState(r.state) /\ next.failed

\* What a thread holds in memory is right whenever it goes on.
Work(th) ==
    LET j == job[th]
    IN /\ pc[th] \in FileSteps \union {"reload", "advance"} => j.todo = {}
       /\ pc[th] \in {"create", "fill"} /\ j.kind = "record" => j.next.state = "REQUESTED"
       /\ pc[th] = "create" /\ j.kind = "record" =>
            CapacityLeft \/ file[<<"record", j.d>>] # "absent"
       /\ pc[th] \in {"fill", "sync"} /\ j.kind = "record" =>
            path[j.d] = <<>> /\ file[<<"record", j.d>>] # "absent"
       /\ pc[th] \in FileSteps /\ j.kind = "receipt" => Went(j.d, "CLEANUP_ACKED")
       /\ pc[th] = "replace" =>
            Successor(rec[j.d], j.next) /\ file[<<"record", j.d>>] = "whole"
       /\ pc[th] \in {"recovering", "replace"} =>
            \A d \in j.todo : file[<<"record", d>>] = "whole"

\* States after the execution began, and states in which a snapshot is held.
Executed == {"EXECUTING", "EXECUTION_SEALED", "CRASH_ABORTED", "RELEASE_PENDING", "CLEANUP_ACKED",
             "RECEIPT_PERSISTED", "TERMINAL_APPENDED", "DONE", "QUARANTINED"}
Holding == {"SNAPSHOT_ACQUIRED", "EXECUTING", "EXECUTION_SEALED", "CRASH_ABORTED",
            "FAILED_CLEANUP_REQUIRED", "RELEASE_PENDING"}

\* What the state of a record says about the states it went through.
History(d) ==
    LET state == rec[d].state
    IN /\ file[<<"record", d>>] # "whole" => path[d] = <<>>
       /\ Went(d, "EXECUTING") => state \in Executed
       /\ \A j, k \in 1..Len(path[d]) :
            path[d][j] = "EXECUTING" /\ path[d][k] = "EXECUTING" => j = k
       /\ Went(d, "SNAPSHOT_ACQUIRED") => state \in Holding \/ Went(d, "CLEANUP_ACKED")
       /\ Went(d, "CRASH_ABORTED") \/ Went(d, "FAILED_CLEANUP_REQUIRED") => rec[d].failed
       /\ state \in ReceiptStates => Went(d, "CLEANUP_ACKED")
       /\ file[<<"receipt", d>>] # "absent" => Went(d, "CLEANUP_ACKED")

\* The journal keeps its limit.
RecordsBounded == IsFiniteSet(Stored("record")) /\ Cardinality(Stored("record")) <= MaxRecords

\* The invariant behind the theorems that follow: each of their properties
\* needs the lock, what the threads hold in memory, and the others.
JournalInv ==
    /\ Alone
    /\ \A th \in Threads : Work(th)
    /\ \A d \in Dispatches : History(d)
    /\ RecordsBounded

\* All threads are threads of one process, so the lock is one lock.
OneProcess == \A th, u \in Threads : ProcessOf[th] = ProcessOf[u]

\* The step changes nothing in the record files and their history.
SameRecords ==
    /\ rec' = rec /\ path' = path
    /\ \A d \in Dispatches : file'[<<"record", d>>] = file[<<"record", d>>]

\* Only this thread moves.
OnlyMoves(th) == \A u \in Threads \ {th} : pc'[u] = pc[u] /\ job'[u] = job[u]

LEMMA NextRecordFields ==
    ASSUME NEW r \in Record, NEW state \in ALL_STATES, NEW code \in BOOLEAN
    PROVE  /\ NextRecord(r, state, code).state = state
           /\ NextRecord(r, state, code).failed <=> r.failed \/ code
<1>1. r.revision + 1 \in Nat /\ (r.failed \/ code) \in BOOLEAN
  BY DEF Record
<1>2. \A n \in Nat, b \in BOOLEAN :
        LET s == [r EXCEPT !.state = state, !.revision = n, !.failed = b]
        IN s.state = state /\ s.failed = b
  BY DEF Record
<1>. QED BY <1>1, <1>2 DEF NextRecord

LEMMA BeginFacts ==
    ASSUME ThreadsOK, NEW th \in Threads, NEW step, NEW d, NEW kind, NEW body, NEW next, NEW seen,
           NEW todo, Begin(th, step, d, kind, body, next, seen, todo)
    PROVE  /\ pc'[th] = step /\ job'[th].d = d /\ job'[th].kind = kind
           /\ job'[th].next = next /\ job'[th].todo = todo
           /\ OnlyMoves(th) /\ SameRecords /\ UNCHANGED file
<1>. DEFINE j == [d |-> d, kind |-> kind, body |-> body, next |-> next,
                  seen |-> seen, todo |-> todo]
<1>1. /\ pc' = [pc EXCEPT ![th] = step] /\ job' = [job EXCEPT ![th] = j]
      /\ UNCHANGED <<file, rec, path>>
  BY DEF Begin, Become
<1>2. j.d = d /\ j.kind = kind /\ j.next = next /\ j.todo = todo
  OBVIOUS
<1>. HIDE DEF j
<1>. QED BY <1>1, <1>2 DEF ThreadsOK, OnlyMoves, SameRecords

LEMMA SameStored ==
    ASSUME SameRecords
    PROVE  Stored("record")' = Stored("record") /\ (CapacityLeft' <=> CapacityLeft)
<1>1. Stored("record")' = Stored("record")
  BY DEF SameRecords, Stored
<1>. QED BY <1>1 DEF CapacityLeft

\* A step that leaves the record files alone.
LEMMA QuietStep ==
    ASSUME OneProcess, TypeOK, TypeOK', JournalInv, NEW th \in Threads, SameRecords,
           OnlyMoves(th), Locked(th)' => Locked(th) \/ LockFree(th), Work(th)',
           \A d \in Dispatches : file'[<<"receipt", d>>] # "absent" =>
               file[<<"receipt", d>>] # "absent" \/ Went(d, "CLEANUP_ACKED")
    PROVE  JournalInv'
<1>1. ASSUME NEW u \in Threads PROVE Work(u)'
  <2>1. CASE u # th
    <3>1. Work(u) /\ pc'[u] = pc[u] /\ job'[u] = job[u]
      BY <2>1 DEF JournalInv, OnlyMoves
    <3>2. CapacityLeft' <=> CapacityLeft
      BY SameStored
    <3>3. pc[u] # "idle" => job[u].d \in Dispatches /\ job[u].todo \subseteq Dispatches
      <4>1. pc[u] # "idle" => job[u] \in Job
        BY DEF TypeOK
      <4>. QED BY <4>1 DEF Job
    <3>. QED BY <3>1, <3>2, <3>3 DEF Work, SameRecords, Went, FileSteps
  <2>. QED BY <2>1
<1>2. ASSUME NEW d \in Dispatches PROVE History(d)'
  <2>1. History(d)
    BY DEF JournalInv
  <2>. QED BY <2>1 DEF History, SameRecords, Went
<1>3. Alone'
  <2>1. \A u \in Threads \ {th} : Locked(u)' <=> Locked(u)
    BY DEF OnlyMoves, Locked
  <2>2. LockFree(th) => \A u \in Threads : ~Locked(u)
    BY DEF LockFree, OneProcess
  <2>. QED BY <2>1, <2>2 DEF JournalInv, Alone
<1>4. RecordsBounded'
  BY SameStored DEF JournalInv, RecordsBounded
<1>. QED BY <1>1, <1>2, <1>3, <1>4 DEF JournalInv

\* A step that changes a record file under the lock: the threads that are not
\* in the lock only need the states the records went through.
LEMMA LoudOthers ==
    ASSUME TypeOK, JournalInv, NEW th \in Threads, Locked(th), OnlyMoves(th),
           \A d \in Dispatches : Went(d, "CLEANUP_ACKED") => Went(d, "CLEANUP_ACKED")',
           Locked(th)' => Locked(th)
    PROVE  /\ \A u \in Threads \ {th} : Work(u)'
           /\ Alone'
<1>1. ASSUME NEW u \in Threads \ {th} PROVE Work(u)' /\ ~Locked(u) /\ ~Locked(u)'
  <2>1. Work(u) /\ pc'[u] = pc[u] /\ job'[u] = job[u] /\ ~Locked(u)
    BY DEF JournalInv, OnlyMoves, Alone
  <2>2. ~Locked(u)'
    BY <2>1 DEF Locked
  <2>3. pc[u] # "idle" => job[u].d \in Dispatches
    <3>1. pc[u] # "idle" => job[u] \in Job
      BY DEF TypeOK
    <3>. QED BY <3>1 DEF Job
  <2>4. pc[u] \in {"idle", "advance"} \/ (pc[u] \in FileSteps /\ job[u].kind = "receipt")
    BY <2>1 DEF Locked, TypeOK
  <2>5. CASE pc[u] \in FileSteps /\ job[u].kind = "receipt"
    <3>1. \A d : d = job[u].d => Went(d, "CLEANUP_ACKED")'
      BY <2>1, <2>3, <2>5 DEF Work, FileSteps
    <3>. QED BY <2>1, <2>2, <2>5, <3>1 DEF Work, FileSteps
  <2>6. CASE pc[u] \in {"idle", "advance"}
    BY <2>1, <2>2, <2>6 DEF Work, FileSteps
  <2>. QED BY <2>1, <2>2, <2>4, <2>5, <2>6
<1>. QED BY <1>1 DEF Alone

LEMMA JournalCall ==
    ASSUME OneProcess, TypeOK, TypeOK', JournalInv, NEW th \in Threads, Call(th)
    PROVE  JournalInv'
<1>0. ThreadsOK
  BY DEF TypeOK, ThreadsOK
<1>1. ASSUME NEW d \in Dispatches, NEW i \in Identities, claim_dispatch(th, d, i)
      PROVE  JournalInv'
  <2>1. PICK kind \in {"record", "marker"} :
          /\ Begin(th, "create", d, kind, NoReceipt, Requested(i), Requested(i), {})
          /\ LockFree(th)
          /\ kind = "record" => CapacityLeft
    BY <1>1 DEF claim_dispatch
  <2>2. /\ pc'[th] = "create" /\ job'[th].kind = kind /\ job'[th].d = d
        /\ job'[th].next = Requested(i) /\ job'[th].todo = {}
        /\ OnlyMoves(th) /\ SameRecords /\ UNCHANGED file
    BY <1>0, <2>1, BeginFacts
  <2>3. Work(th)'
    BY <2>1, <2>2, SameStored DEF Work, Requested, FileSteps
  <2>. QED BY <2>1, <2>2, <2>3, QuietStep
<1>2. ASSUME NEW d \in Dispatches, NEW state \in Driven, NEW code \in BOOLEAN,
             transition(th, d, state, code)
      PROVE  JournalInv'
  <2>. DEFINE next == NextRecord(rec[d], state, code)
  <2>1. /\ Begin(th, "replace", d, "record", NoReceipt, next, next, {})
        /\ LockFree(th) /\ CanMove(rec[d], state) /\ file[<<"record", d>>] = "whole"
    BY <1>2 DEF transition
  <2>2. next.state = state /\ (rec[d].failed => next.failed)
    BY NextRecordFields DEF TypeOK, Driven
  <2>. HIDE DEF next
  <2>3. /\ pc'[th] = "replace" /\ job'[th].d = d
        /\ job'[th].next = next /\ job'[th].todo = {}
        /\ OnlyMoves(th) /\ SameRecords /\ UNCHANGED file
    BY <1>0, <2>1, BeginFacts
  <2>4. Work(th)'
    BY <2>1, <2>2, <2>3 DEF Work, Successor, CanMove, SameRecords, FileSteps
  <2>. QED BY <2>1, <2>3, <2>4, QuietStep
<1>3. ASSUME NEW ds \in SUBSET Dispatches, recover(th, ds) PROVE JournalInv'
  <2>1. PICK d \in ds : Begin(th, "recovering", d, "record", NoReceipt, rec[d], rec[d], ds)
    BY <1>3 DEF recover
  <2>2. LockFree(th) /\ \A e \in ds : file[<<"record", e>>] = "whole"
    BY <1>3 DEF recover
  <2>3. /\ pc'[th] = "recovering" /\ job'[th].todo = ds
        /\ OnlyMoves(th) /\ SameRecords /\ UNCHANGED file
    BY <1>0, <2>1, BeginFacts
  <2>4. Work(th)'
    BY <2>2, <2>3 DEF Work, FileSteps
  <2>. QED BY <2>2, <2>3, <2>4, QuietStep
<1>4. ASSUME NEW d \in Dispatches, NEW i \in Identities, NEW body \in Receipts,
             persist_receipt(th, d, i, body)
      PROVE  JournalInv'
  <2>1. /\ Begin(th, "create", d, "receipt", body, rec[d], rec[d], {})
        /\ rec[d].state \in ReceiptStates
    BY <1>4 DEF persist_receipt
  <2>2. /\ pc'[th] = "create" /\ job'[th].kind = "receipt" /\ job'[th].d = d
        /\ job'[th].todo = {}
        /\ OnlyMoves(th) /\ SameRecords /\ UNCHANGED file
    BY <1>0, <2>1, BeginFacts
  <2>3. Went(d, "CLEANUP_ACKED")
    BY <2>1 DEF JournalInv, History
  <2>4. Went(d, "CLEANUP_ACKED")'
    BY <2>2, <2>3 DEF Went, SameRecords
  <2>5. Work(th)' /\ ~Locked(th)'
    BY <2>2, <2>4 DEF Work, Locked, FileSteps, Went
  <2>. QED BY <2>2, <2>5, QuietStep
<1>. QED BY <1>1, <1>2, <1>3, <1>4 DEF Call

LEMMA ProceedFacts ==
    ASSUME TypeOK, NEW th \in Threads, pc[th] # "idle", Proceed(th)
    PROVE  LET j == job[th]
           IN /\ job'[th].d = j.d /\ job'[th].next = j.next /\ job'[th].todo = j.todo
              /\ OnlyMoves(th)
              /\ \/ j.kind = "record" /\ pc'[th] = "create" /\ job'[th].kind = "marker"
                 \/ j.kind = "marker" /\ pc'[th] = "reload" /\ job'[th].kind = "marker"
                 \/ j.kind = "receipt" /\ pc'[th] = "advance" /\ job'[th].kind = "receipt"
<1>. DEFINE j == job[th]
            kind == IF j.kind = "record" THEN "marker" ELSE j.kind
<1>1. j \in Job
  BY DEF TypeOK
<1>2. j.kind \in Kinds
  BY <1>1 DEF Job
<1>3. job' = [job EXCEPT ![th] = [j EXCEPT !.kind = kind]]
  BY DEF Proceed
<1>4. /\ j.kind = "record" => pc'[th] = "create"
      /\ j.kind = "marker" => pc'[th] = "reload"
      /\ j.kind = "receipt" => pc'[th] = "advance"
  BY DEF Proceed, Become, TypeOK
<1>5. OnlyMoves(th)
  BY DEF OnlyMoves, Proceed, Become, TypeOK
<1>. HIDE DEF j
<1>6. LET k == [j EXCEPT !.kind = kind]
      IN k.d = j.d /\ k.next = j.next /\ k.todo = j.todo /\ k.kind = kind
  <2>. HIDE DEF kind
  <2>. QED BY <1>1 DEF Job
<1>7. job'[th] = [j EXCEPT !.kind = kind]
  BY <1>3 DEF TypeOK
<1>. QED BY <1>2, <1>4, <1>5, <1>6, <1>7 DEF Kinds, j

LEMMA FinishFacts ==
    ASSUME TypeOK, NEW th \in Threads, Finish(th)
    PROVE  pc'[th] = "idle" /\ OnlyMoves(th) /\ Work(th)' /\ ~Locked(th)'
<1>1. pc'[th] = "idle" /\ OnlyMoves(th)
  BY DEF Finish, Become, OnlyMoves, TypeOK
<1>. QED BY <1>1 DEF Work, Locked, FileSteps, Steps

LEMMA JournalCreate ==
    ASSUME OneProcess, TypeOK, TypeOK', JournalInv, NEW th \in Threads, CreateFile(th)
    PROVE  JournalInv'
<1>. DEFINE j == job[th]
            f == <<j.kind, j.d>>
<1>1. pc[th] = "create" /\ j \in Job /\ Work(th)
  BY DEF CreateFile, TypeOK, JournalInv
<1>2. j.kind \in Kinds /\ j.d \in Dispatches /\ f \in Names
  BY <1>1 DEF Job, Names
<1>3. CASE ~Creates(f)
  <2>1. (Proceed(th) \/ Finish(th)) /\ UNCHANGED <<file, rec, path>>
    BY <1>3 DEF CreateFile
  <2>2. SameRecords
    BY <2>1 DEF SameRecords
  <2>3. CASE Finish(th)
    BY <2>1, <2>2, <2>3, FinishFacts, QuietStep
  <2>4. CASE Proceed(th)
    <3>1. /\ OnlyMoves(th) /\ job'[th].todo = j.todo
          /\ \/ j.kind = "record" /\ pc'[th] = "create" /\ job'[th].kind = "marker"
             \/ j.kind = "marker" /\ pc'[th] = "reload" /\ job'[th].kind = "marker"
             \/ j.kind = "receipt" /\ pc'[th] = "advance" /\ job'[th].kind = "receipt"
      BY <1>1, <2>4, ProceedFacts
    <3>2. Work(th)'
      BY <1>1, <3>1 DEF Work, FileSteps
    <3>3. Locked(th)' => Locked(th)
      BY <1>1, <3>1 DEF Locked, FileSteps, Steps
    <3>. QED BY <2>1, <2>2, <3>1, <3>2, <3>3, QuietStep
  <2>. QED BY <2>1, <2>3, <2>4
<1>4. CASE Creates(f)
  <2>1. /\ file' = [file EXCEPT ![f] = "torn"] /\ pc' = [pc EXCEPT ![th] = "fill"]
        /\ UNCHANGED <<job, rec, path>> /\ file[f] = "absent"
    BY <1>4 DEF CreateFile, Creates, Become
  <2>2. pc'[th] = "fill" /\ OnlyMoves(th) /\ job'[th] = j
    BY <2>1 DEF TypeOK, OnlyMoves
  <2>3. Locked(th)' <=> Locked(th)
    BY <1>1, <2>2 DEF Locked, FileSteps, Steps
  <2>4. \A k \in Kinds, d \in Dispatches :
          file'[<<k, d>>] = IF k = j.kind /\ d = j.d THEN "torn" ELSE file[<<k, d>>]
    BY <1>2, <2>1 DEF TypeOK, Names
  <2>5. CASE j.kind # "record"
    <3>1. SameRecords
      BY <2>1, <2>4, <2>5 DEF SameRecords, Kinds
    <3>2. Work(th)'
      BY <1>1, <2>1, <2>2, <2>5 DEF Work, FileSteps, Went
    <3>3. ASSUME NEW d \in Dispatches, file'[<<"receipt", d>>] # "absent"
          PROVE  file[<<"receipt", d>>] # "absent" \/ Went(d, "CLEANUP_ACKED")
      BY <1>1, <2>4, <3>3 DEF Work, FileSteps, Kinds
    <3>. QED BY <2>2, <2>3, <3>1, <3>2, <3>3, QuietStep
  <2>6. CASE j.kind = "record"
    <3>1. Locked(th)
      BY <1>1, <2>6 DEF Locked, FileSteps, Steps
    <3>2. \A u \in Threads \ {th} : Work(u)'
      BY <2>1, <2>2, <2>3, <3>1, LoudOthers DEF Went
    <3>3. Alone'
      BY <2>1, <2>2, <2>3, <3>1, LoudOthers DEF Went
    <3>4. path[j.d] = <<>> /\ file'[<<"record", j.d>>] = "torn"
      BY <1>2, <2>1, <2>4, <2>6 DEF JournalInv, History, Kinds
    <3>5. Work(th)'
      BY <1>1, <2>1, <2>2, <2>6, <3>4 DEF Work, FileSteps
    <3>6. ASSUME NEW d \in Dispatches PROVE History(d)'
      <4>1. /\ History(d) /\ file'[<<"receipt", d>>] = file[<<"receipt", d>>]
            /\ file'[<<"record", d>>] = IF d = j.d THEN "torn" ELSE file[<<"record", d>>]
        BY <2>4, <2>6 DEF JournalInv, Kinds
      <4>2. file'[<<"record", d>>] # "whole" => path[d] = <<>>
        BY <3>4, <4>1 DEF History
      <4>. QED BY <2>1, <4>1, <4>2 DEF History, Went
    <3>7. RecordsBounded'
      <4>1. Stored("record")' = Stored("record") \union {j.d} /\ j.d \notin Stored("record")
        BY <1>2, <2>1, <2>4, <2>6 DEF Stored, Kinds
      <4>2. CapacityLeft
        BY <1>1, <2>1, <2>6 DEF Work
      <4>3. /\ IsFiniteSet(Stored("record") \union {j.d})
            /\ Cardinality(Stored("record") \union {j.d}) = Cardinality(Stored("record")) + 1
            /\ Cardinality(Stored("record")) \in Nat
        BY <4>1, FS_AddElement, FS_CardinalityType DEF JournalInv, RecordsBounded
      <4>4. Cardinality(Stored("record")) + 1 <= MaxRecords
        BY <4>2, <4>3, ConstantsAssumption DEF CapacityLeft
      <4>. QED BY <4>1, <4>3, <4>4 DEF RecordsBounded
    <3>. QED BY <3>2, <3>3, <3>5, <3>6, <3>7 DEF JournalInv
  <2>. QED BY <2>5, <2>6
<1>. QED BY <1>3, <1>4

LEMMA JournalFill ==
    ASSUME OneProcess, TypeOK, TypeOK', JournalInv, NEW th \in Threads, FillFile(th)
    PROVE  JournalInv'
<1>. DEFINE j == job[th]
            f == <<j.kind, j.d>>
<1>1. pc[th] = "fill" /\ j \in Job /\ Work(th)
  BY DEF FillFile, TypeOK, JournalInv
<1>2. j.kind \in Kinds /\ j.d \in Dispatches /\ f \in Names
  BY <1>1 DEF Job, Names
<1>3. /\ file' = [file EXCEPT ![f] = "whole"] /\ pc' = [pc EXCEPT ![th] = "sync"]
      /\ UNCHANGED <<job, path>>
      /\ rec' = IF j.kind = "record" THEN [rec EXCEPT ![j.d] = j.next] ELSE rec
  BY DEF FillFile, Become
<1>4. pc'[th] = "sync" /\ OnlyMoves(th) /\ job'[th] = j
  BY <1>3 DEF TypeOK, OnlyMoves
<1>5. Locked(th)' <=> Locked(th)
  BY <1>1, <1>4 DEF Locked, FileSteps, Steps
<1>6. \A k \in Kinds, d \in Dispatches :
        file'[<<k, d>>] = IF k = j.kind /\ d = j.d THEN "whole" ELSE file[<<k, d>>]
  BY <1>2, <1>3 DEF TypeOK, Names
<1>7. CASE j.kind # "record"
  <2>1. SameRecords
    BY <1>3, <1>6, <1>7 DEF SameRecords, Kinds
  <2>2. Work(th)'
    BY <1>1, <1>3, <1>4, <1>7 DEF Work, FileSteps, Went
  <2>3. ASSUME NEW d \in Dispatches, file'[<<"receipt", d>>] # "absent"
        PROVE  file[<<"receipt", d>>] # "absent" \/ Went(d, "CLEANUP_ACKED")
    BY <1>1, <1>6, <2>3 DEF Work, FileSteps, Kinds
  <2>. QED BY <1>4, <1>5, <2>1, <2>2, <2>3, QuietStep
<1>8. CASE j.kind = "record"
  <2>1. Locked(th)
    BY <1>1, <1>8 DEF Locked, FileSteps, Steps
  <2>2. (\A u \in Threads \ {th} : Work(u)') /\ Alone'
    BY <1>3, <1>4, <1>5, <2>1, LoudOthers DEF Went
  <2>3. /\ path[j.d] = <<>> /\ j.next.state = "REQUESTED" /\ j.todo = {}
        /\ file[<<"record", j.d>>] # "absent" /\ file'[<<"record", j.d>>] = "whole"
    BY <1>1, <1>2, <1>6, <1>8 DEF Work, FileSteps, Kinds
  <2>4. Work(th)'
    BY <1>3, <1>4, <1>8, <2>3 DEF Work, FileSteps
  <2>5. ASSUME NEW d \in Dispatches PROVE History(d)'
    <3>1. History(d) /\ file'[<<"receipt", d>>] = file[<<"receipt", d>>]
      BY <1>6, <1>8 DEF JournalInv, Kinds
    <3>2. CASE d # j.d
      <4>1. file'[<<"record", d>>] = file[<<"record", d>>] /\ rec'[d] = rec[d]
        BY <1>2, <1>3, <1>6, <1>8, <3>2 DEF Kinds, TypeOK
      <4>. QED BY <1>3, <3>1, <4>1 DEF History, Went
    <3>3. CASE d = j.d
      <4>1. rec'[d] = j.next /\ path'[d] = <<>>
        BY <1>2, <1>3, <1>8, <2>3, <3>3 DEF TypeOK
      <4>2. \A s : ~Went(d, s)' /\ ~Went(d, s)
        BY <1>3, <4>1 DEF Went
      <4>3. Len(path'[d]) = 0
        BY <4>1
      <4>4. file'[<<"receipt", d>>] = "absent"
        BY <3>1, <4>2 DEF History
      <4>. QED BY <2>3, <4>1, <4>2, <4>3, <4>4 DEF History, ReceiptStates
    <3>. QED BY <3>2, <3>3
  <2>6. RecordsBounded'
    <3>1. Stored("record")' = Stored("record")
      BY <1>6, <1>8, <2>3 DEF Stored, Kinds
    <3>. QED BY <3>1 DEF JournalInv, RecordsBounded
  <2>. QED BY <2>2, <2>4, <2>5, <2>6 DEF JournalInv
<1>. QED BY <1>7, <1>8

LEMMA JournalSync ==
    ASSUME OneProcess, TypeOK, TypeOK', JournalInv, NEW th \in Threads, SyncFile(th)
    PROVE  JournalInv'
<1>. DEFINE j == job[th]
<1>1. pc[th] = "sync" /\ Work(th) /\ Proceed(th) /\ UNCHANGED <<file, rec, path>>
  BY DEF SyncFile, JournalInv
<1>2. /\ OnlyMoves(th) /\ job'[th].todo = j.todo
      /\ \/ j.kind = "record" /\ pc'[th] = "create" /\ job'[th].kind = "marker"
         \/ j.kind = "marker" /\ pc'[th] = "reload" /\ job'[th].kind = "marker"
         \/ j.kind = "receipt" /\ pc'[th] = "advance" /\ job'[th].kind = "receipt"
  BY <1>1, ProceedFacts
<1>3. Work(th)'
  BY <1>1, <1>2 DEF Work, FileSteps
<1>4. Locked(th)' => Locked(th)
  BY <1>1, <1>2 DEF Locked, FileSteps, Steps
<1>. QED BY <1>1, <1>2, <1>3, <1>4, QuietStep DEF SameRecords

LEMMA JournalWriteFails ==
    ASSUME OneProcess, TypeOK, TypeOK', JournalInv, NEW th \in Threads, WriteFails(th)
    PROVE  JournalInv'
<1>. DEFINE j == job[th]
            f == <<j.kind, j.d>>
<1>1. pc[th] \in {"fill", "sync"} /\ j \in Job /\ Work(th) /\ UNCHANGED <<rec, path>>
  BY DEF WriteFails, TypeOK, JournalInv
<1>2. j.kind \in Kinds /\ j.d \in Dispatches /\ f \in Names
  BY <1>1 DEF Job, Names
<1>3. pc'[th] = "idle" /\ OnlyMoves(th) /\ Work(th)' /\ ~Locked(th)'
  BY FinishFacts DEF WriteFails
<1>4. PICK left \in {"absent", file[f]} : file' = [file EXCEPT ![f] = left]
  BY DEF WriteFails
<1>5. \A k \in Kinds, d \in Dispatches :
        file'[<<k, d>>] = IF k = j.kind /\ d = j.d THEN left ELSE file[<<k, d>>]
  BY <1>2, <1>4 DEF TypeOK, Names
<1>6. CASE j.kind # "record"
  <2>1. SameRecords
    BY <1>1, <1>5, <1>6 DEF SameRecords, Kinds
  <2>2. \A d \in Dispatches : file'[<<"receipt", d>>] # "absent" => file[<<"receipt", d>>] # "absent"
    BY <1>4, <1>5 DEF Kinds
  <2>. QED BY <1>3, <2>1, <2>2, QuietStep
<1>7. CASE j.kind = "record"
  <2>1. Locked(th)
    BY <1>1, <1>7 DEF Locked, FileSteps, Steps
  <2>2. (\A u \in Threads \ {th} : Work(u)') /\ Alone'
    BY <1>1, <1>3, <2>1, LoudOthers DEF Went
  <2>3. path[j.d] = <<>> /\ file[<<"record", j.d>>] # "absent"
    BY <1>1, <1>7 DEF Work
  <2>4. ASSUME NEW d \in Dispatches PROVE History(d)'
    <3>1. History(d) /\ file'[<<"receipt", d>>] = file[<<"receipt", d>>]
          /\ (d # j.d => file'[<<"record", d>>] = file[<<"record", d>>])
      BY <1>5, <1>7 DEF JournalInv, Kinds
    <3>2. file'[<<"record", d>>] # "whole" => path[d] = <<>>
      BY <2>3, <3>1 DEF History
    <3>. QED BY <1>1, <3>1, <3>2 DEF History, Went
  <2>5. RecordsBounded'
    <3>1. Stored("record")' \in SUBSET Stored("record")
      BY <1>4, <1>5, <1>7, <2>3 DEF Stored, Kinds
    <3>2. /\ IsFiniteSet(Stored("record")') /\ Cardinality(Stored("record")') <= Cardinality(Stored("record"))
          /\ Cardinality(Stored("record")') \in Nat /\ Cardinality(Stored("record")) \in Nat
      BY <3>1, FS_Subset, FS_CardinalityType DEF JournalInv, RecordsBounded
    <3>. QED BY <3>2, ConstantsAssumption DEF JournalInv, RecordsBounded
  <2>. QED BY <1>3, <2>2, <2>4, <2>5 DEF JournalInv
<1>. QED BY <1>6, <1>7

LEMMA JournalDecides ==
    ASSUME OneProcess, TypeOK, TypeOK', JournalInv, NEW th \in Threads,
           Reload(th) \/ RecoverOne(th) \/ Advance(th)
    PROVE  JournalInv'
<1>. DEFINE j == job[th]
<1>1. /\ UNCHANGED <<file, rec, path>> /\ SameRecords
      /\ pc[th] \in {"reload", "recovering", "advance"} /\ j \in Job /\ Work(th)
  BY DEF Reload, RecoverOne, Advance, TypeOK, JournalInv, SameRecords
<1>2. j.d \in Dispatches /\ j.todo \subseteq Dispatches /\ rec \in [Dispatches -> Record]
  BY <1>1 DEF Job, TypeOK
<1>3. CASE Finish(th)
  BY <1>1, <1>3, FinishFacts, QuietStep
<1>4. ASSUME NEW next \in Record, Become(th, "replace"),
             job' = [job EXCEPT ![th] = [j EXCEPT !.next = next]],
             j.todo = {}, Successor(rec[j.d], next), file[<<"record", j.d>>] = "whole",
             Locked(th) \/ LockFree(th)
      PROVE  JournalInv'
  <2>1. pc'[th] = "replace" /\ OnlyMoves(th) /\ job'[th] = [j EXCEPT !.next = next]
    BY <1>4 DEF Become, OnlyMoves, TypeOK
  <2>2. job'[th].next = next /\ job'[th].d = j.d /\ job'[th].todo = {}
    BY <1>1, <1>4, <2>1 DEF Job
  <2>3. Work(th)'
    BY <1>1, <1>4, <2>1, <2>2 DEF Work, FileSteps, Successor, CanMove
  <2>. QED BY <1>1, <1>4, <2>1, <2>3, QuietStep
<1>5. CASE Reload(th)
  <2>. DEFINE next == NextRecord(rec[j.d], "CLAIMED", FALSE)
  <2>0. rec[j.d] \in Record /\ "CLAIMED" \in ALL_STATES /\ FALSE \in BOOLEAN
    BY <1>2 DEF ALL_STATES
  <2>1. next \in Record /\ next.state = "CLAIMED" /\ (rec[j.d].failed => next.failed)
    BY <2>0, NextRecordType, NextRecordFields
  <2>2. \/ Finish(th)
        \/ /\ job' = [job EXCEPT ![th] = [j EXCEPT !.next = next]] /\ Become(th, "replace")
           /\ file[<<"record", j.d>>] = "whole" /\ rec[j.d].state = "REQUESTED"
    BY <1>5 DEF Reload
  <2>3. pc[th] = "reload" /\ j.todo = {} /\ Locked(th)
    BY <1>1, <1>5 DEF Reload, Work, Locked, Steps, FileSteps
  <2>. HIDE DEF next
  <2>4. rec[j.d].state = "REQUESTED" => Successor(rec[j.d], next)
    BY <2>1 DEF Successor, CanMove, ALLOWED_TRANSITIONS
  <2>. QED BY <1>3, <1>4, <2>1, <2>2, <2>3, <2>4
<1>6. CASE Advance(th)
  <2>. DEFINE next == NextRecord(rec[j.d], "RECEIPT_PERSISTED", FALSE)
  <2>0. rec[j.d] \in Record /\ "RECEIPT_PERSISTED" \in ALL_STATES /\ FALSE \in BOOLEAN
    BY <1>2 DEF ALL_STATES
  <2>1. next \in Record /\ next.state = "RECEIPT_PERSISTED" /\ (rec[j.d].failed => next.failed)
    BY <2>0, NextRecordType, NextRecordFields
  <2>2. \/ Finish(th)
        \/ /\ job' = [job EXCEPT ![th] = [j EXCEPT !.next = next]] /\ Become(th, "replace")
           /\ file[<<"record", j.d>>] = "whole" /\ CanMove(rec[j.d], "RECEIPT_PERSISTED")
           /\ LockFree(th)
    BY <1>6 DEF Advance
  <2>3. j.todo = {}
    BY <1>1, <1>6 DEF Advance, Work
  <2>. HIDE DEF next
  <2>4. CanMove(rec[j.d], "RECEIPT_PERSISTED") => Successor(rec[j.d], next)
    BY <2>1 DEF Successor, CanMove
  <2>. QED BY <1>3, <1>4, <2>1, <2>2, <2>3, <2>4
<1>7. CASE RecoverOne(th)
  <2>1. PICK d \in j.todo :
          LET todo == j.todo \ {d}
          IN IF rec[d].state \in Recoverable
             THEN /\ job' = [job EXCEPT ![th].d = d, ![th].todo = todo,
                         ![th].next = NextRecord(rec[d], RecoveryState(rec[d].state), TRUE)]
                  /\ Become(th, "replace")
             ELSE IF todo = {} THEN Finish(th)
             ELSE Become(th, "recovering") /\ job' = [job EXCEPT ![th].todo = todo]
    BY <1>7 DEF RecoverOne
  <2>. DEFINE todo == j.todo \ {d}
              next == NextRecord(rec[d], RecoveryState(rec[d].state), TRUE)
  <2>2. d \in Dispatches /\ todo \subseteq Dispatches /\ RecoveryState(rec[d].state) \in ALL_STATES
    BY <1>2 DEF RecoveryState, ALL_STATES
  <2>3. next \in Record /\ next.state = RecoveryState(rec[d].state) /\ next.failed
    BY <1>2, <2>2, NextRecordType, NextRecordFields
  <2>4. pc[th] = "recovering" /\ Locked(th) /\ \A e \in j.todo : file[<<"record", e>>] = "whole"
    BY <1>1, <1>7 DEF RecoverOne, Work, Locked, Steps, FileSteps
  <2>5. \/ /\ job' = [job EXCEPT ![th] = [j EXCEPT !.d = d, !.todo = todo, !.next = next]]
           /\ Become(th, "replace") /\ rec[d].state \in Recoverable
        \/ Finish(th)
        \/ Become(th, "recovering") /\ job' = [job EXCEPT ![th] = [j EXCEPT !.todo = todo]]
    BY <2>1 DEF TypeOK
  <2>. HIDE DEF next, todo
  <2>6. ASSUME job' = [job EXCEPT ![th] = [j EXCEPT !.d = d, !.todo = todo, !.next = next]],
               Become(th, "replace"), rec[d].state \in Recoverable
        PROVE  JournalInv'
    <3>1. /\ pc'[th] = "replace" /\ OnlyMoves(th)
          /\ job'[th] = [j EXCEPT !.d = d, !.todo = todo, !.next = next]
      BY <2>6 DEF Become, OnlyMoves, TypeOK
    <3>2. job'[th].next = next /\ job'[th].d = d /\ job'[th].todo = todo
      BY <1>1, <3>1 DEF Job
    <3>3. Successor(rec[d], next)
      BY <2>3, <2>6 DEF Successor
    <3>4. Work(th)'
      BY <1>1, <2>4, <3>1, <3>2, <3>3 DEF Work, FileSteps, Successor, CanMove, todo
    <3>. QED BY <1>1, <2>4, <3>1, <3>4, QuietStep
  <2>7. ASSUME Become(th, "recovering"), job' = [job EXCEPT ![th] = [j EXCEPT !.todo = todo]]
        PROVE  JournalInv'
    <3>1. /\ pc'[th] = "recovering" /\ OnlyMoves(th) /\ job'[th] = [j EXCEPT !.todo = todo]
      BY <2>7 DEF Become, OnlyMoves, TypeOK
    <3>2. job'[th].todo = todo
      BY <1>1, <3>1 DEF Job
    <3>3. Work(th)'
      BY <1>1, <2>4, <3>1, <3>2 DEF Work, FileSteps, todo
    <3>. QED BY <1>1, <2>4, <3>1, <3>3, QuietStep
  <2>. QED BY <1>3, <2>5, <2>6, <2>7
<1>. QED BY <1>5, <1>6, <1>7

\* What one write over a record does to what its state says of its history.
LEMMA SuccessorStates ==
    ASSUME NEW r \in Record, NEW next \in Record, Successor(r, next)
    PROVE  /\ r.failed => next.failed
           /\ next.state = "EXECUTING" => r.state = "SNAPSHOT_ACQUIRED"
           /\ r.state \in Executed => next.state \in Executed
           /\ r.state \in Holding => next.state \in Holding \union {"CLEANUP_ACKED"}
           /\ next.state \in ReceiptStates => "CLEANUP_ACKED" \in {r.state, next.state}
           /\ next.state \in {"CRASH_ABORTED", "FAILED_CLEANUP_REQUIRED"} => next.failed
<1>1. r.state \in ALL_STATES
  BY DEF Record
<1>2. CASE CanMove(r, next.state)
  <2>1. next.state \in ALLOWED_TRANSITIONS[r.state]
    BY <1>2 DEF CanMove
  <2>2. /\ next.state = "EXECUTING" => r.state = "SNAPSHOT_ACQUIRED"
        /\ r.state \in Executed => next.state \in Executed
        /\ r.state \in Holding => next.state \in Holding \union {"CLEANUP_ACKED"}
        /\ next.state \in ReceiptStates => "CLEANUP_ACKED" \in {r.state, next.state}
        /\ next.state \notin {"CRASH_ABORTED", "FAILED_CLEANUP_REQUIRED"}
    BY <1>1, <2>1 DEF ALL_STATES, ALLOWED_TRANSITIONS, Executed, Holding, ReceiptStates
  <2>. QED BY <2>2 DEF Successor
<1>3. CASE r.state \in Recoverable /\ next.state = RecoveryState(r.state) /\ next.failed
  BY <1>3 DEF Recoverable, RecoveryState, Executed, Holding, ReceiptStates
<1>. QED BY <1>2, <1>3 DEF Successor

LEMMA JournalWrite ==
    ASSUME TypeOK, TypeOK', JournalInv, NEW th \in Threads, pc[th] = "replace", WriteRecord(th),
           OnlyMoves(th), Work(th)'
    PROVE  JournalInv'
<1>. DEFINE next == job[th].next
<1>1. job[th] \in Job /\ Work(th) /\ Locked(th)
  BY DEF TypeOK, JournalInv, Locked, Steps, FileSteps
<1>2. PICK x \in Dispatches : x = job[th].d
  BY <1>1 DEF Job
<1>3. /\ next \in Record /\ rec[x] \in Record /\ path[x] \in Seq(ALL_STATES)
      /\ next.state \in ALL_STATES
  BY <1>1 DEF Job, TypeOK, Record
<1>4. Successor(rec[x], next) /\ file[<<"record", x>>] = "whole"
  BY <1>1, <1>2 DEF Work
<1>5. /\ rec'[x] = next /\ \A d \in Dispatches : d # x => rec'[d] = rec[d] /\ path'[d] = path[d]
      /\ path'[x] = Append(path[x], next.state)
      /\ \A d \in Dispatches, k \in Kinds : file'[<<k, d>>] = file[<<k, d>>]
  BY <1>2, <1>4 DEF WriteRecord, TypeOK, Names, Kinds
<1>. DEFINE n == Len(path[x]) + 1
<1>6. /\ Len(path[x]) \in Nat /\ Len(path'[x]) = n /\ 1..n = 1..Len(path[x]) \union {n}
      /\ path'[x][n] = next.state /\ \A k \in 1..Len(path[x]) : path'[x][k] = path[x][k] /\ k # n
  BY <1>3, <1>5
<1>. HIDE DEF n
<1>7. \A s : Went(x, s)' <=> Went(x, s) \/ s = next.state
  BY <1>6 DEF Went
<1>. HIDE DEF next
<1>8. \A d \in Dispatches : d # x => \A s : Went(d, s)' <=> Went(d, s)
  BY <1>5 DEF Went
<1>9. /\ rec[x].failed => next.failed
      /\ next.state = "EXECUTING" => rec[x].state = "SNAPSHOT_ACQUIRED"
      /\ rec[x].state \in Executed => next.state \in Executed
      /\ rec[x].state \in Holding => next.state \in Holding \union {"CLEANUP_ACKED"}
      /\ next.state \in ReceiptStates => "CLEANUP_ACKED" \in {rec[x].state, next.state}
      /\ next.state \in {"CRASH_ABORTED", "FAILED_CLEANUP_REQUIRED"} => next.failed
  BY <1>3, <1>4, SuccessorStates
<1>10. History(x)'
  <2>1. History(x)
    BY DEF JournalInv
  <2>2. Went(x, "EXECUTING")' => rec'[x].state \in Executed
    BY <1>5, <1>7, <1>9, <2>1 DEF History, Executed
  <2>3. \A k, m \in 1..Len(path'[x]) :
           path'[x][k] = "EXECUTING" /\ path'[x][m] = "EXECUTING" => k = m
    <3>1. next.state = "EXECUTING" => ~Went(x, "EXECUTING")
      BY <1>9, <2>1 DEF History, Executed
    <3>2. \A k, m \in 1..Len(path[x]) :
             path[x][k] = "EXECUTING" /\ path[x][m] = "EXECUTING" => k = m
      BY <2>1 DEF History
    <3>3. \A k \in 1..Len(path[x]) : path[x][k] = "EXECUTING" => Went(x, "EXECUTING")
      BY DEF Went
    <3>. QED BY <1>6, <3>1, <3>2, <3>3
  <2>4. Went(x, "SNAPSHOT_ACQUIRED")' => rec'[x].state \in Holding \/ Went(x, "CLEANUP_ACKED")'
    BY <1>5, <1>7, <1>9, <2>1 DEF History, Holding
  <2>5. Went(x, "CRASH_ABORTED")' \/ Went(x, "FAILED_CLEANUP_REQUIRED")' => rec'[x].failed
    BY <1>5, <1>7, <1>9, <2>1 DEF History
  <2>6. rec'[x].state \in ReceiptStates => Went(x, "CLEANUP_ACKED")'
    BY <1>5, <1>7, <1>9, <2>1 DEF History, ReceiptStates
  <2>7. /\ file'[<<"record", x>>] = "whole"
        /\ file'[<<"receipt", x>>] # "absent" => Went(x, "CLEANUP_ACKED")'
    BY <1>4, <1>5, <1>7, <2>1 DEF History, Kinds
  <2>. QED BY <2>2, <2>3, <2>4, <2>5, <2>6, <2>7 DEF History
<1>11. ASSUME NEW d \in Dispatches, d # x PROVE History(d)'
  <2>1. History(d) /\ \A k \in Kinds : file'[<<k, d>>] = file[<<k, d>>]
    BY <1>5 DEF JournalInv
  <2>. QED BY <1>5, <1>8, <1>11, <2>1 DEF History, Kinds
<1>12. (\A u \in Threads \ {th} : Work(u)') /\ Alone'
  BY <1>1, <1>7, <1>8, LoudOthers
<1>13. RecordsBounded'
  <2>1. Stored("record")' = Stored("record")
    BY <1>5 DEF Stored, Kinds
  <2>. QED BY <2>1 DEF JournalInv, RecordsBounded
<1>. QED BY <1>10, <1>11, <1>12, <1>13 DEF JournalInv

LEMMA JournalStep ==
    ASSUME OneProcess, TypeOK, TypeOK', JournalInv, [Next]_vars
    PROVE  JournalInv'
<1>1. ASSUME NEW th \in Threads, Replace(th) \/ ReplaceFails(th) PROVE JournalInv'
  <2>1. pc[th] = "replace" /\ job[th] \in Job /\ Work(th)
    BY <1>1 DEF Replace, ReplaceFails, TypeOK, JournalInv
  <2>2. CASE UNCHANGED <<file, rec, path>> /\ Finish(th)
    BY <2>2, FinishFacts, QuietStep DEF SameRecords
  <2>3. CASE WriteRecord(th) /\ Finish(th)
    BY <2>1, <2>3, FinishFacts, JournalWrite
  <2>4. CASE WriteRecord(th) /\ Become(th, "recovering") /\ UNCHANGED job
    <3>1. pc'[th] = "recovering" /\ job'[th] = job[th] /\ OnlyMoves(th)
      BY <2>4 DEF Become, OnlyMoves, TypeOK
    <3>2. \A d \in job[th].todo : file'[<<"record", d>>] = "whole"
      <4>1. job[th].todo \subseteq Dispatches
        BY <2>1 DEF Job
      <4>2. \A d \in job[th].todo : file[<<"record", d>>] = "whole"
        BY <2>1 DEF Work
      <4>. QED BY <2>4, <4>1, <4>2 DEF WriteRecord, TypeOK, Names, Kinds
    <3>3. Work(th)'
      BY <3>1, <3>2 DEF Work, FileSteps
    <3>. QED BY <2>1, <2>4, <3>1, <3>3, JournalWrite
  <2>. QED BY <1>1, <2>2, <2>3, <2>4 DEF Replace, ReplaceFails
<1>2. ASSUME NEW proc \in Processes, Crash(proc) PROVE JournalInv'
  <2>1. UNCHANGED <<file, rec, path>>
    BY <1>2 DEF Crash
  <2>2. \A u \in Threads : pc'[u] = "idle" \/ (pc'[u] = pc[u] /\ job'[u] = job[u])
    BY <1>2 DEF Crash
  <2>3. ASSUME NEW u \in Threads PROVE Work(u)' /\ (Locked(u)' => Locked(u))
    <3>1. CASE pc'[u] = "idle"
      BY <3>1 DEF Work, Locked, FileSteps, Steps
    <3>2. CASE pc'[u] = pc[u] /\ job'[u] = job[u]
      <4>1. Work(u) /\ (CapacityLeft' <=> CapacityLeft)
        BY <2>1 DEF JournalInv, CapacityLeft, Stored
      <4>. QED BY <2>1, <3>2, <4>1 DEF Work, Locked, Went
    <3>. QED BY <2>2, <3>1, <3>2
  <2>4. ASSUME NEW d \in Dispatches PROVE History(d)'
    <3>1. History(d)
      BY DEF JournalInv
    <3>. QED BY <2>1, <3>1 DEF History, Went
  <2>5. Alone'
    BY <2>3 DEF JournalInv, Alone
  <2>6. RecordsBounded'
    BY <2>1 DEF JournalInv, RecordsBounded, Stored
  <2>. QED BY <2>3, <2>4, <2>5, <2>6 DEF JournalInv
<1>3. CASE UNCHANGED vars
  <2>1. \A u \in Threads : Work(u)'
    <3>1. CapacityLeft' <=> CapacityLeft
      BY <1>3 DEF vars, CapacityLeft, Stored
    <3>. QED BY <1>3, <3>1 DEF vars, JournalInv, Work, Went
  <2>2. ASSUME NEW d \in Dispatches PROVE History(d)'
    <3>1. History(d)
      BY DEF JournalInv
    <3>. QED BY <1>3, <3>1 DEF vars, History, Went
  <2>3. Alone' /\ RecordsBounded'
    BY <1>3 DEF vars, JournalInv, Alone, Locked, RecordsBounded, Stored
  <2>. QED BY <2>1, <2>2, <2>3 DEF JournalInv
<1>. QED
  BY <1>1, <1>2, <1>3, JournalCall, JournalCreate, JournalFill, JournalSync, JournalWriteFails,
     JournalDecides
  DEF Next, Progress

LEMMA JournalInvariant ==
    ASSUME OneProcess
    PROVE  Spec => []JournalInv
<1>1. Init => JournalInv
  <2>. SUFFICES ASSUME Init PROVE JournalInv
    OBVIOUS
  <2>1. Stored("record") = {}
    BY DEF Init, Stored, Names, Kinds
  <2>2. RecordsBounded
    BY <2>1, FS_EmptySet, ConstantsAssumption DEF RecordsBounded
  <2>3. \A th \in Threads : Work(th) /\ ~Locked(th)
    BY DEF Init, Work, Locked, Steps, FileSteps
  <2>4. ASSUME NEW d \in Dispatches PROVE History(d)
    <3>1. path[d] = <<>> /\ rec[d].state = "REQUESTED" /\ file[<<"receipt", d>>] = "absent"
      BY DEF Init, Requested, Names, Kinds
    <3>2. \A s : ~Went(d, s)
      BY <3>1 DEF Went
    <3>3. Len(path[d]) = 0
      BY <3>1
    <3>. QED BY <3>1, <3>2, <3>3 DEF History, ReceiptStates
  <2>. QED BY <2>2, <2>3, <2>4 DEF JournalInv, Alone
<1>2. TypeOK /\ TypeOK' /\ JournalInv /\ [Next]_vars => JournalInv'
  BY JournalStep
<1>. QED BY <1>1, <1>2, TypeCorrect, PTL DEF Spec

\* A dispatch is executed at most once, whatever is delivered twice, dies,
\* fails or is recovered: under the journal's lock a record is only ever
\* replaced by a successor of what it holds, and no state after EXECUTING
\* leads back to it.
THEOREM ExecutedOnce ==
    ASSUME OneProcess
    PROVE  Spec => []OneExecution
<1>1. JournalInv => OneExecution
  BY DEF JournalInv, History, OneExecution
<1>. QED BY <1>1, JournalInvariant, PTL

\* A record that held a snapshot reaches a terminal state only after the
\* release of the snapshot was acknowledged (CLEANUP_ACKED), by every way
\* through transition, mark_failed, quarantine and recover_all.
THEOREM SnapshotsReleased ==
    ASSUME OneProcess
    PROVE  Spec => []SnapshotReleased
<1>1. JournalInv => SnapshotReleased
  BY DEF JournalInv, History, SnapshotReleased, Holding, TERMINAL_STATES
<1>. QED BY <1>1, JournalInvariant, PTL

\* A run that recover aborted keeps its failure code to the end, because
\* _next_record keeps it over every later move and nothing recreates a record
\* that has been replaced once.
THEOREM FailuresRemembered ==
    ASSUME OneProcess
    PROVE  Spec => []FailureRemembered
<1>1. JournalInv => FailureRemembered
  BY DEF JournalInv, History, FailureRemembered
<1>. QED BY <1>1, JournalInvariant, PTL

\* A receipt file exists only for a dispatch whose cleanup was acknowledged,
\* although persist_receipt loads the record before it opens the file and
\* takes no lock in between: the acknowledgement is never taken back.
THEOREM ReceiptsAfterCleanup ==
    ASSUME OneProcess
    PROVE  Spec => []ReceiptAfterCleanup
<1>1. JournalInv => ReceiptAfterCleanup
  BY DEF JournalInv, History, ReceiptAfterCleanup, Stored
<1>. QED BY <1>1, JournalInvariant, PTL

\* The journal never holds more records than MAX_JOURNAL_RECORDS, and the
\* receipt store never more files than the journal: _ensure_capacity and the
\* creation of the record are under one lock, and a receipt belongs to a
\* record that stays.
THEOREM StoresStayBounded ==
    ASSUME OneProcess
    PROVE  Spec => []StoresBounded
<1>1. JournalInv => StoresBounded
  <2>. SUFFICES ASSUME JournalInv PROVE StoresBounded
    OBVIOUS
  <2>1. ASSUME NEW d \in Dispatches, file[<<"receipt", d>>] # "absent"
        PROVE  file[<<"record", d>>] # "absent"
    <3>1. Went(d, "CLEANUP_ACKED") /\ (file[<<"record", d>>] # "whole" => path[d] = <<>>)
      BY <2>1 DEF JournalInv, History
    <3>2. path[d] # <<>>
      BY <3>1 DEF Went
    <3>. QED BY <3>1, <3>2
  <2>2. Stored("receipt") \in SUBSET Stored("record")
    BY <2>1 DEF Stored
  <2>. QED BY <2>2, FS_Subset DEF JournalInv, RecordsBounded, StoresBounded
<1>. QED BY <1>1, JournalInvariant, PTL
=============================================================================
