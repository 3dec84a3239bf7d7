--------------------------- MODULE LedgerAppend ---------------------------
(***************************************************************************)
(* Ledger.append under FileLock, one file-system call per step: O_EXCL     *)
(* creation of the lock file, the stat and the unlink of a lock file that  *)
(* looks abandoned, the deadline, reading and verifying the chain, writing *)
(* the line, unlinking the lock file.  A process may die between any two   *)
(* of these calls, and in the middle of writing its line.                  *)
(***************************************************************************)
EXTENDS Naturals, Sequences

CONSTANTS Procs,           \* processes; each appends one event
          Genesis,         \* GENESIS_HASH
          StaleSeconds,    \* FileLock(stale_seconds)
          TimeoutSeconds,  \* FileLock(timeout_seconds)
          MaxHold,         \* longest time a live process spends between
                           \* creating the lock file and unlinking it
          MaxStart,        \* bound: no append starts after this time
          MaxCrashes       \* bound: processes that may die

ASSUME ConstantsAssumption ==
    /\ StaleSeconds \in Nat
    /\ TimeoutSeconds \in Nat
    /\ MaxHold \in Nat
    /\ MaxStart \in Nat \ {0}
    /\ MaxCrashes \in Nat
    /\ Genesis \notin Procs

VARIABLES clock,     \* seconds, from 1
          lockMtime, \* st_mtime of the lock file, 0 when there is no file
          file,      \* the lines of the ledger file
          pc,        \* where each process is inside append
          since,     \* when the process called acquire, then when it created
                     \* the lock file
          built,     \* the event a process has built from what it read
          crashes,   \* processes that have died
          robbed,    \* history: a take-over has unlinked the lock file of a
                     \* live process
          torn       \* history: a process that died has left a line without
                     \* its newline

vars == <<clock, lockMtime, file, pc, since, built, crashes, robbed, torn>>

Event == [sequence : Nat, actor : Procs, previous_hash : Procs \union {Genesis}]

\* A line parses when exactly one whole event was written to it; eol is its
\* newline, written after the JSON text.
Line == [parses : BOOLEAN, event : Event, eol : BOOLEAN]

Waiting == {"create", "stat", "unlink", "deadline"}
Inside  == {"locked", "write", "release", "abort"}
Ended   == {"done", "failed", "timeout", "dead"}

\* Mutant of Successor: the sequence starts at zero.
Successor_FromZero(events, p) ==
    [sequence |-> Len(events), actor |-> p,
     previous_hash |-> IF events = <<>> THEN Genesis ELSE events[Len(events)].actor]

\* The event append builds after reading `events`.  A hash stands for the
\* caller whose event it is the hash of.
Successor(events, p) ==
    [sequence |-> Len(events) + 1,
     actor |-> p,
     previous_hash |-> IF events = <<>> THEN Genesis ELSE events[Len(events)].actor]

\* Ledger.read: one malformed line makes the whole read fail.
Readable == \A i \in DOMAIN file : file[i].parses

Events == [i \in DOMAIN file |-> file[i].event]

\* Ledger._verify_events: contiguous sequence numbers and hash links.
VerifyEvents(events) ==
    \A i \in DOMAIN events :
        /\ events[i].sequence = i
        /\ events[i].previous_hash =
             IF i = 1 THEN Genesis ELSE events[i - 1].actor

\* Mutant: the file is opened with mode "w".
Written_Truncates(line) == <<line>>

\* The file opened with mode "a": text written after an unterminated line
\* continues that line, which then no longer parses.
Written(line) ==
    IF file # <<>> /\ ~file[Len(file)].eol
    THEN [file EXCEPT ![Len(file)] = [line EXCEPT !.parses = FALSE]]
    ELSE Append(file, line)

Init ==
    /\ clock = 1
    /\ lockMtime = 0
    /\ file = <<>>
    /\ pc = [p \in Procs |-> "idle"]
    /\ since = [p \in Procs |-> 0]
    /\ built = [p \in Procs |-> Successor(<<>>, p)]
    /\ crashes = 0
    /\ robbed = FALSE
    /\ torn = FALSE

\* FileLock.acquire is called: deadline = monotonic() + timeout_seconds.
Call(p) ==
    /\ pc[p] = "idle"
    /\ clock <= MaxStart
    /\ pc' = [pc EXCEPT ![p] = "create"]
    /\ since' = [since EXCEPT ![p] = clock]
    /\ UNCHANGED <<clock, lockMtime, file, built, crashes, robbed, torn>>

\* Mutant: the lock file is opened without O_EXCL.
MayCreate_NoExcl == TRUE
MayCreate == lockMtime = 0

\* os.open(O_CREAT | O_EXCL) succeeds.
CreateLock(p) ==
    /\ pc[p] = "create"
    /\ MayCreate
    /\ lockMtime' = clock
    /\ pc' = [pc EXCEPT ![p] = "locked"]
    /\ since' = [since EXCEPT ![p] = clock]
    /\ UNCHANGED <<clock, file, built, crashes, robbed, torn>>

\* os.open raises FileExistsError.
LockExists(p) ==
    /\ pc[p] = "create"
    /\ lockMtime # 0
    /\ pc' = [pc EXCEPT ![p] = "stat"]
    /\ UNCHANGED <<clock, lockMtime, file, since, built, crashes, robbed, torn>>

\* Mutant: a file as old as the limit is stale.
IsStale_OffByOne(mtime) == clock - mtime >= StaleSeconds
IsStale(mtime) == clock - mtime > StaleSeconds

\* _remove_if_stale, first half: stat.  Only the verdict is kept.
StatLock(p) ==
    /\ pc[p] = "stat"
    /\ pc' = [pc EXCEPT ![p] =
                IF lockMtime # 0 /\ IsStale(lockMtime)
                THEN "unlink" ELSE "deadline"]
    /\ UNCHANGED <<clock, lockMtime, file, since, built, crashes, robbed, torn>>

\* _remove_if_stale, second half: unlink whatever file is there now.
UnlinkStale(p) ==
    /\ pc[p] = "unlink"
    /\ lockMtime' = 0
    /\ robbed' = (robbed \/ \E q \in Procs : pc[q] \in Inside)
    /\ pc' = [pc EXCEPT ![p] = "deadline"]
    /\ UNCHANGED <<clock, file, since, built, crashes, torn>>

\* Mutant: poll for ever.
Overdue_Never(p) == FALSE
Overdue(p) == clock >= since[p] + TimeoutSeconds

\* The deadline test after a failed attempt: LockTimeout, or poll again.
CheckDeadline(p) ==
    /\ pc[p] = "deadline"
    /\ pc' = [pc EXCEPT ![p] =
                IF Overdue(p) THEN "timeout" ELSE "create"]
    /\ UNCHANGED <<clock, lockMtime, file, since, built, crashes, robbed, torn>>

\* Mutant: malformed lines are not noticed.
ChainAccepted_SkipsMalformed == VerifyEvents(Events)
ChainAccepted == Readable /\ VerifyEvents(Events)

\* read and _verify_events, then the event is built from what was read.
ReadChain(p) ==
    /\ pc[p] = "locked"
    /\ IF ChainAccepted
       THEN /\ built' = [built EXCEPT ![p] = Successor(Events, p)]
            /\ pc' = [pc EXCEPT ![p] = "write"]
       ELSE /\ pc' = [pc EXCEPT ![p] = "abort"]
            /\ UNCHANGED built
    /\ UNCHANGED <<clock, lockMtime, file, since, crashes, robbed, torn>>

\* Write the JSON text and the newline, flush and fsync.
WriteLine(p) ==
    /\ pc[p] = "write"
    /\ file' = Written([parses |-> TRUE, event |-> built[p], eol |-> TRUE])
    /\ pc' = [pc EXCEPT ![p] = "release"]
    /\ UNCHANGED <<clock, lockMtime, since, built, crashes, robbed, torn>>

\* FileLock.release: unlink the path, whoever's file is there now.
Release(p) ==
    /\ pc[p] \in {"release", "abort"}
    /\ lockMtime' = 0
    /\ pc' = [pc EXCEPT ![p] = IF pc[p] = "release" THEN "done" ELSE "failed"]
    /\ UNCHANGED <<clock, file, since, built, crashes, robbed, torn>>

\* What a process that dies while writing may leave behind: nothing, part of
\* the JSON text, the text without its newline, or the whole line.
PartialWrites(p) ==
    LET Left(parses, eol) == Written([parses |-> parses, event |-> built[p], eol |-> eol])
    IN {file, Left(FALSE, FALSE), Left(TRUE, FALSE), Left(TRUE, TRUE)}

\* A process dies; a lock file it has created stays.
Crash(p) ==
    /\ crashes < MaxCrashes
    /\ pc[p] \in Waiting \union Inside
    /\ crashes' = crashes + 1
    /\ file' \in IF pc[p] = "write" THEN PartialWrites(p) ELSE {file}
    /\ torn' = (torn \/ (file' # <<>> /\ ~file'[Len(file')].eol))
    /\ pc' = [pc EXCEPT ![p] = "dead"]
    /\ UNCHANGED <<clock, lockMtime, since, built, robbed>>

\* Time passes until the last deadline, but no live process stays inside its
\* transaction for longer than MaxHold.
Tick ==
    /\ clock < MaxStart + TimeoutSeconds
    /\ \A p \in Procs : pc[p] \in Inside => clock + 1 - since[p] <= MaxHold
    /\ clock' = clock + 1
    /\ UNCHANGED <<lockMtime, file, pc, since, built, crashes, robbed, torn>>

Acquire(p) ==
    Call(p) \/ CreateLock(p) \/ LockExists(p) \/ StatLock(p) \/ UnlinkStale(p)
            \/ CheckDeadline(p)

Transact(p) == ReadChain(p) \/ WriteLine(p) \/ Release(p)

Next == Tick \/ \E p \in Procs : Acquire(p) \/ Transact(p) \/ Crash(p)

\* Time advances, a process inside its transaction keeps running, and so does
\* the polling loop of one that waits.  Nothing forces a call or a crash.
Fairness ==
    /\ WF_vars(Tick)
    /\ \A p \in Procs :
         /\ WF_vars(CreateLock(p) \/ LockExists(p))
         /\ WF_vars(StatLock(p) \/ UnlinkStale(p) \/ CheckDeadline(p))
         /\ WF_vars(Transact(p))

Spec == Init /\ [][Next]_vars

FairSpec == Spec /\ Fairness

-----------------------------------------------------------------------------
TypeOK ==
    /\ clock \in Nat \ {0}
    /\ lockMtime \in Nat
    /\ file \in Seq(Line)
    /\ pc \in [Procs -> {"idle"} \union Waiting \union Inside \union Ended]
    /\ since \in [Procs -> Nat]
    /\ built \in [Procs -> Event]
    /\ crashes \in Nat
    /\ robbed \in BOOLEAN /\ torn \in BOOLEAN

\* No two processes are inside the locked part of append: false after one death
\* and a double take-over (LedgerAppendSteal.cfg).
Exclusive == \A p, q \in Procs : pc[p] \in Inside /\ pc[q] \in Inside => p = q

\* "Append one signed event while holding the ledger lock" (ledger.py, append):
\* no two processes are inside the locked part of append at once, whatever dies
\* and however often an abandoned lock is taken over, until a take-over unlinks
\* the lock file of a live process.
OneWriter == ~robbed => Exclusive

\* A lock file is only taken from a live process after another one has died: by
\* itself no holder that keeps to the stale limit is ever found stale.
RobberyNeedsDeath == robbed => crashes > 0

\* Every event whose append has returned can still be read back: all lines are
\* whole and form one chain.  A death in the middle of a line damages the last
\* line only, at worst together with the one event appended to it.
ReturnedEventsVerify ==
    ~robbed =>
        /\ \A i \in DOMAIN file : i < Len(file) \/ ~torn =>
             /\ file[i].parses
             /\ file[i].event.sequence = i
             /\ file[i].event.previous_hash = IF i = 1 THEN Genesis ELSE file[i - 1].event.actor
        /\ \A p \in Procs : pc[p] = "done" => \E i \in DOMAIN file : file[i].event.actor = p

\* A ledger that no longer reads is never extended or rewritten: append refuses
\* before it writes (read and _verify_events raise IntegrityError).  With a
\* robbed lock a second process may write what it decided before the damage.
UnreadableIsFrozen == [][~robbed /\ ~Readable => file' = file]_vars

\* An append never waits for ever: the polling loop of acquire ends in the
\* transaction or in LockTimeout, and the transaction ends.
AppendEnds ==
    \A p \in Procs : pc[p] = "create" ~> pc[p] \in Ended

\* The lines before the one a death has left without its newline, if any.
Whole == [i \in 1..(IF torn THEN Len(file) - 1 ELSE Len(file)) |-> file[i].event]

\* append implements the abstract ledger: the whole lines are its log, and the
\* callers that returned normally its acknowledged callers.
Abs == INSTANCE AppendOnlyLedger
           WITH log <- Whole, returned <- {p \in Procs : pc[p] = "done"},
                sealed <- torn, void <- robbed

ImplementsLedger == Abs!AbsSpec
=============================================================================
