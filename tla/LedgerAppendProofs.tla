------------------------ MODULE LedgerAppendProofs ------------------------
(***************************************************************************)
(* Theorems about LedgerAppend, for every number of processes, of deaths    *)
(* and of take-overs, and every stale limit, deadline and clock bound.      *)
(* What a robbed lock or a torn line takes away is said in the properties   *)
(* themselves.  Only RobberiesNeedDeath assumes something of the constants: *)
(* a live process does not hold the lock for longer than the stale limit.   *)
(***************************************************************************)
EXTENDS LedgerAppend, SequenceTheorems, TLAPS

LEMMA WrittenType ==
    ASSUME file \in Seq(Line), NEW line \in Line
    PROVE  Written(line) \in Seq(Line)
<1>1. [line EXCEPT !.parses = FALSE] \in Line
  BY DEF Line
<1>2. CASE file # <<>> /\ ~file[Len(file)].eol
  <2>1. Len(file) \in 1..Len(file)
    BY <1>2
  <2>. QED BY <1>1, <1>2, <2>1 DEF Written
<1>3. CASE ~(file # <<>> /\ ~file[Len(file)].eol)
  BY <1>3 DEF Written
<1>. QED BY <1>2, <1>3

LEMMA SuccessorType ==
    ASSUME NEW events \in Seq(Event), NEW p \in Procs
    PROVE  Successor(events, p) \in Event
<1>1. CASE events = <<>>
  BY <1>1 DEF Successor, Event
<1>2. CASE events # <<>>
  <2>1. events[Len(events)] \in Event
    BY <1>2
  <2>2. events[Len(events)].actor \in Procs
    BY <2>1 DEF Event
  <2>3. Len(events) + 1 \in Nat
    OBVIOUS
  <2>. QED BY <1>2, <2>2, <2>3 DEF Successor, Event
<1>. QED BY <1>1, <1>2

LEMMA EventsType ==
    ASSUME file \in Seq(Line)
    PROVE  Events \in Seq(Event) /\ Len(Events) = Len(file) /\ DOMAIN Events = DOMAIN file
<1>1. DOMAIN file = 1..Len(file) /\ Len(file) \in Nat
  OBVIOUS
<1>2. \A i \in 1..Len(file) : file[i].event \in Event
  <2>1. \A i \in 1..Len(file) : file[i] \in Line
    OBVIOUS
  <2>. QED BY <2>1 DEF Line
<1>3. Events = [i \in 1..Len(file) |-> file[i].event]
  BY <1>1 DEF Events
<1>4. Events \in [1..Len(file) -> Event]
  BY <1>1, <1>2, <1>3
<1>5. Events \in Seq(Event)
  <2>1. Events \in UNION {[1..n -> Event] : n \in Nat}
    BY <1>1, <1>4
  <2>. QED BY <2>1, SeqDef
<1>. QED BY <1>1, <1>3, <1>5, LenProperties

LEMMA TypeStep ==
    ASSUME TypeOK, [Next]_vars
    PROVE  TypeOK'
<1>. USE DEF TypeOK, Waiting, Inside, Ended
<1>1. CASE Tick
  BY <1>1 DEF Tick
<1>2. ASSUME NEW p \in Procs, Acquire(p) PROVE TypeOK'
  <2>1. CASE Call(p) BY <2>1 DEF Call
  <2>2. CASE CreateLock(p) BY <2>2 DEF CreateLock, MayCreate
  <2>3. CASE LockExists(p) BY <2>3 DEF LockExists
  <2>4. CASE StatLock(p) BY <2>4 DEF StatLock
  <2>5. CASE UnlinkStale(p) BY <2>5 DEF UnlinkStale
  <2>6. CASE CheckDeadline(p) BY <2>6 DEF CheckDeadline
  <2>. QED BY <1>2, <2>1, <2>2, <2>3, <2>4, <2>5, <2>6 DEF Acquire
<1>3. ASSUME NEW p \in Procs, Transact(p) PROVE TypeOK'
  <2>1. CASE ReadChain(p)
    <3>1. Successor(Events, p) \in Event
      BY EventsType, SuccessorType
    <3>. QED BY <2>1, <3>1 DEF ReadChain
  <2>2. CASE WriteLine(p)
    <3>1. [parses |-> TRUE, event |-> built[p], eol |-> TRUE] \in Line
      BY DEF Line
    <3>2. file' \in Seq(Line)
      BY <2>2, <3>1, WrittenType DEF WriteLine
    <3>. QED BY <2>2, <3>2 DEF WriteLine
  <2>3. CASE Release(p) BY <2>3 DEF Release
  <2>. QED BY <1>3, <2>1, <2>2, <2>3 DEF Transact
<1>4. ASSUME NEW p \in Procs, Crash(p) PROVE TypeOK'
  <2>1. \A ok, nl \in BOOLEAN : [parses |-> ok, event |-> built[p], eol |-> nl] \in Line
    BY DEF Line
  <2>2. \A ok, nl \in BOOLEAN :
          Written([parses |-> ok, event |-> built[p], eol |-> nl]) \in Seq(Line)
    BY <2>1, WrittenType
  <2>3. \A f \in PartialWrites(p) : f \in Seq(Line)
    BY <2>2 DEF PartialWrites
  <2>4. file' \in Seq(Line)
    BY <1>4, <2>3 DEF Crash
  <2>. QED BY <1>4, <2>4 DEF Crash
<1>5. CASE UNCHANGED vars
  BY <1>5 DEF vars
<1>. QED BY <1>1, <1>2, <1>3, <1>4, <1>5 DEF Next

\* The types of all variables are preserved, also when processes die and
\* leave half a line behind.
THEOREM TypeCorrect == Spec => []TypeOK
<1>1. Init => TypeOK
  <2>. SUFFICES ASSUME Init PROVE TypeOK
    OBVIOUS
  <2>1. \A p \in Procs : Successor(<<>>, p) \in Event
    BY DEF Successor, Event
  <2>2. robbed \in BOOLEAN /\ torn \in BOOLEAN
    BY Zenon DEF Init
  <2>. QED BY <2>1, <2>2 DEF Init, TypeOK
<1>2. TypeOK /\ [Next]_vars => TypeOK'
  BY TypeStep
<1>. QED BY <1>1, <1>2, PTL DEF Spec

-----------------------------------------------------------------------------
\* Why there is one writer: while no live process has lost its lock file, a
\* process inside has one, and O_EXCL keeps the others out.
LockInv ==
    ~robbed =>
        /\ \A p, q \in Procs : pc[p] \in Inside /\ pc[q] \in Inside => p = q
        /\ \A p \in Procs : pc[p] \in Inside => lockMtime # 0

LEMMA LockInvInductive ==
    ASSUME TypeOK, LockInv, [Next]_vars
    PROVE  LockInv'
<1>. USE ConstantsAssumption DEF TypeOK, LockInv, Inside, Waiting, Ended
<1>1. CASE Tick
  BY <1>1 DEF Tick
<1>2. ASSUME NEW p \in Procs, Acquire(p) PROVE LockInv'
  <2>1. CASE Call(p) BY <2>1 DEF Call
  <2>2. CASE CreateLock(p) BY <2>2 DEF CreateLock, MayCreate
  <2>3. CASE LockExists(p) BY <2>3 DEF LockExists
  <2>4. CASE StatLock(p) BY <2>4 DEF StatLock
  <2>5. CASE UnlinkStale(p) BY <2>5 DEF UnlinkStale
  <2>6. CASE CheckDeadline(p) BY <2>6 DEF CheckDeadline
  <2>. QED BY <1>2, <2>1, <2>2, <2>3, <2>4, <2>5, <2>6 DEF Acquire
<1>3. ASSUME NEW p \in Procs, Transact(p) PROVE LockInv'
  <2>1. CASE ReadChain(p) BY <2>1 DEF ReadChain
  <2>2. CASE WriteLine(p) BY <2>2 DEF WriteLine
  <2>3. CASE Release(p) BY <2>3 DEF Release
  <2>. QED BY <1>3, <2>1, <2>2, <2>3 DEF Transact
<1>4. ASSUME NEW p \in Procs, Crash(p) PROVE LockInv'
  BY <1>4 DEF Crash
<1>5. CASE UNCHANGED vars
  BY <1>5 DEF vars
<1>. QED BY <1>1, <1>2, <1>3, <1>4, <1>5 DEF Next

\* The lock file of FileLock excludes: whatever dies and whoever takes over, two
\* processes are never inside the locked part of Ledger.append together unless a
\* take-over has hit a live holder.
THEOREM AppendExcludes == Spec => []OneWriter
<1>1. Init => LockInv
  BY DEF Init, LockInv, Inside
<1>2. TypeOK /\ LockInv /\ [Next]_vars => LockInv'
  BY LockInvInductive
<1>3. LockInv => OneWriter
  BY DEF LockInv, OneWriter, Exclusive
<1>. QED BY <1>1, <1>2, <1>3, TypeCorrect, PTL DEF Spec

-----------------------------------------------------------------------------
\* As long as nobody has died, a lock file belongs to the one process inside, it
\* is never older than MaxHold, and so no waiter gets the verdict that it is stale.
NoDeathInv ==
    crashes = 0 =>
        /\ ~robbed
        /\ \A p \in Procs : pc[p] \in Inside =>
             lockMtime = since[p] /\ lockMtime # 0 /\ clock <= since[p] + MaxHold
        /\ lockMtime # 0 => \E p \in Procs : pc[p] \in Inside
        /\ \A p \in Procs : pc[p] \notin {"unlink", "dead"}

LEMMA NoDeathInvInductive ==
    ASSUME MaxHold <= StaleSeconds, TypeOK, LockInv, NoDeathInv, [Next]_vars
    PROVE  NoDeathInv'
<1>. USE ConstantsAssumption DEF TypeOK, LockInv, NoDeathInv, Inside, Waiting, Ended
<1>1. CASE Tick
  BY <1>1 DEF Tick
<1>2. ASSUME NEW p \in Procs, Acquire(p) PROVE NoDeathInv'
  <2>1. CASE Call(p) BY <2>1 DEF Call
  <2>2. CASE CreateLock(p) BY <2>2 DEF CreateLock, MayCreate
  <2>3. CASE LockExists(p) BY <2>3 DEF LockExists
  <2>4. CASE StatLock(p)
    <3>1. crashes = 0 => ~(lockMtime # 0 /\ IsStale(lockMtime))
      BY DEF IsStale
    <3>. QED BY <2>4, <3>1 DEF StatLock
  <2>5. CASE UnlinkStale(p) BY <2>5 DEF UnlinkStale
  <2>6. CASE CheckDeadline(p) BY <2>6 DEF CheckDeadline
  <2>. QED BY <1>2, <2>1, <2>2, <2>3, <2>4, <2>5, <2>6 DEF Acquire
<1>3. ASSUME NEW p \in Procs, Transact(p) PROVE NoDeathInv'
  <2>1. CASE ReadChain(p) BY <2>1 DEF ReadChain
  <2>2. CASE WriteLine(p) BY <2>2 DEF WriteLine
  <2>3. CASE Release(p) BY <2>3 DEF Release
  <2>. QED BY <1>3, <2>1, <2>2, <2>3 DEF Transact
<1>4. ASSUME NEW p \in Procs, Crash(p) PROVE NoDeathInv'
  BY <1>4 DEF Crash
<1>5. CASE UNCHANGED vars
  BY <1>5 DEF vars
<1>. QED BY <1>1, <1>2, <1>3, <1>4, <1>5 DEF Next

\* A lock file is only taken from a live process once some process has died,
\* when holders keep to the stale limit.
THEOREM RobberiesNeedDeath ==
    ASSUME MaxHold <= StaleSeconds
    PROVE  Spec => []RobberyNeedsDeath
<1>1. Init => LockInv /\ NoDeathInv
  BY DEF Init, LockInv, NoDeathInv, Inside
<1>2. TypeOK /\ LockInv /\ NoDeathInv /\ [Next]_vars => LockInv' /\ NoDeathInv'
  BY LockInvInductive, NoDeathInvInductive
<1>3. TypeOK /\ NoDeathInv => RobberyNeedsDeath
  BY DEF TypeOK, NoDeathInv, RobberyNeedsDeath
<1>. QED BY <1>1, <1>2, <1>3, TypeCorrect, PTL DEF Spec

-----------------------------------------------------------------------------
\* What the one writer relies on: the lines are whole and form a chain, but for
\* the last one when a death has torn it; a writer goes on with the file it has
\* read; the events are those of callers past their write; and a line left open is
\* a dead caller's.
LineInv(i) ==
    /\ file[i].parses /\ file[i].eol
    /\ file[i].event.sequence = i
    /\ file[i].event.previous_hash = IF i = 1 THEN Genesis ELSE file[i - 1].event.actor

Past == {"release", "done", "dead"}

FileInv ==
    /\ \A i \in DOMAIN file : i < Len(file) \/ ~torn => LineInv(i)
    /\ torn => /\ file # <<>>
               /\ file[Len(file)].parses =>
                    ~file[Len(file)].eol /\ pc[file[Len(file)].event.actor] = "dead"
    /\ \A p \in Procs : pc[p] = "write" => Readable /\ built[p] = Successor(Events, p)
    /\ \A i \in DOMAIN file : pc[file[i].event.actor] \in Past
    /\ \A p \in Procs : pc[p] \in {"release", "done"} =>
         \E i \in DOMAIN file : file[i].event.actor = p

LEMMA LineFacts ==
    ASSUME TypeOK
    PROVE  /\ file \in Seq(Line) /\ Len(file) \in Nat /\ DOMAIN file = 1..Len(file)
           /\ file # <<>> => Len(file) \in DOMAIN file
           /\ \A i \in DOMAIN file : file[i] \in Line /\ file[i].event \in Event
                                     /\ file[i].event.actor \in Procs
<1>1. file \in Seq(Line)
  BY DEF TypeOK
<1>2. \A i \in DOMAIN file : file[i] \in Line
  BY <1>1
<1>3. \A i \in DOMAIN file : file[i].event \in Event /\ file[i].event.actor \in Procs
  BY <1>2 DEF Line, Event
<1>. QED BY <1>1, <1>2, <1>3

\* A line that another text is written into.
Spoilt(line) == [line EXCEPT !.parses = FALSE]

LEMMA SpoiltFields ==
    ASSUME NEW line \in Line
    PROVE  /\ Spoilt(line) \in Line /\ ~Spoilt(line).parses
           /\ Spoilt(line).event = line.event /\ Spoilt(line).eol = line.eol
BY DEF Spoilt, Line

\* What appending to a sequence and replacing one of its elements do.
LEMMA SeqAppended ==
    ASSUME NEW S, NEW q \in Seq(S), NEW e \in S
    PROVE  /\ Append(q, e) \in Seq(S) /\ Len(Append(q, e)) = Len(q) + 1
           /\ DOMAIN Append(q, e) = DOMAIN q \union {Len(q) + 1}
           /\ \A i \in DOMAIN q : Append(q, e)[i] = q[i]
           /\ Append(q, e)[Len(q) + 1] = e
OBVIOUS

LEMMA SeqReplaced ==
    ASSUME NEW S, NEW q \in Seq(S), NEW e \in S, NEW n \in DOMAIN q
    PROVE  /\ [q EXCEPT ![n] = e] \in Seq(S) /\ Len([q EXCEPT ![n] = e]) = Len(q)
           /\ DOMAIN [q EXCEPT ![n] = e] = DOMAIN q
           /\ \A i \in DOMAIN q : i # n => [q EXCEPT ![n] = e][i] = q[i]
           /\ [q EXCEPT ![n] = e][n] = e
OBVIOUS

\* A write of the writer p after whole lines adds a line, and after a line left
\* open spoils it.
LEMMA WrittenLines ==
    ASSUME TypeOK, FileInv, NEW p \in Procs, pc[p] = "write",
           NEW line \in Line, file' = Written(line)
    PROVE  /\ ~torn => /\ DOMAIN file' = DOMAIN file \union {Len(file) + 1}
                       /\ Len(file') = Len(file) + 1
                       /\ \A i \in DOMAIN file : file'[i] = file[i]
                       /\ file'[Len(file) + 1] = line
           /\ torn => /\ DOMAIN file' = DOMAIN file /\ Len(file') = Len(file)
                      /\ Len(file) \in DOMAIN file
                      /\ \A i \in DOMAIN file : i # Len(file) => file'[i] = file[i]
                      /\ file'[Len(file)].event = line.event
                      /\ ~file'[Len(file)].parses
<1>2. ASSUME ~torn
      PROVE  /\ DOMAIN file' = DOMAIN file \union {Len(file) + 1}
             /\ Len(file') = Len(file) + 1
             /\ \A i \in DOMAIN file : file'[i] = file[i]
             /\ file'[Len(file) + 1] = line
  <2>1. file = <<>> \/ file[Len(file)].eol
    BY <1>2, LineFacts DEF FileInv, LineInv
  <2>2. file' = Append(file, line)
    BY <2>1 DEF Written
  <2>3. file \in Seq(Line)
    BY LineFacts
  <2>. QED BY <2>2, <2>3, SeqAppended
<1>3. ASSUME torn
      PROVE  /\ DOMAIN file' = DOMAIN file /\ Len(file') = Len(file)
             /\ Len(file) \in DOMAIN file
             /\ \A i \in DOMAIN file : i # Len(file) => file'[i] = file[i]
             /\ file'[Len(file)].event = line.event
             /\ ~file'[Len(file)].parses
  <2>1. file # <<>> /\ Len(file) \in DOMAIN file
    BY <1>3, LineFacts DEF FileInv
  <2>2. file[Len(file)].parses
    BY <2>1 DEF FileInv, Readable
  <2>3. ~file[Len(file)].eol
    BY <1>3, <2>2 DEF FileInv
  <2>4. file' = [file EXCEPT ![Len(file)] = Spoilt(line)]
    BY <2>1, <2>3 DEF Written, Spoilt
  <2>5. file \in Seq(Line) /\ Spoilt(line) \in Line
    BY LineFacts, SpoiltFields
  <2>6. /\ DOMAIN file' = DOMAIN file /\ Len(file') = Len(file)
        /\ \A i \in DOMAIN file : i # Len(file) => file'[i] = file[i]
        /\ file'[Len(file)] = Spoilt(line)
    BY <2>1, <2>4, <2>5, SeqReplaced
  <2>. QED BY <2>1, <2>6, SpoiltFields
<1>. QED BY <1>2, <1>3

\* The event a writer has built extends the chain it has read.
LEMMA BuiltExtends ==
    ASSUME TypeOK, FileInv, NEW p \in Procs, pc[p] = "write"
    PROVE  /\ built[p].sequence = Len(file) + 1 /\ built[p].actor = p
           /\ built[p].previous_hash = IF Len(file) + 1 = 1 THEN Genesis
                                                            ELSE file[Len(file)].event.actor
<1>1. built[p] = Successor(Events, p)
  BY DEF FileInv
<1>2. Events \in Seq(Event) /\ Len(Events) = Len(file) /\ DOMAIN Events = DOMAIN file
  BY EventsType DEF TypeOK
<1>3. Events = <<>> <=> Len(file) + 1 = 1
  BY <1>2, LineFacts
<1>4. Events # <<>> => Events[Len(Events)] = file[Len(file)].event
  BY <1>2, <1>3, LineFacts DEF Events
<1>. QED BY <1>1, <1>2, <1>3, <1>4 DEF Successor

\* Everything but a write keeps FileInv.
LEMMA FileKept ==
    ASSUME TypeOK, FileInv, file' = file, torn' = torn,
           \A p \in Procs : pc'[p] = "write" =>
               Readable /\ built'[p] = Successor(Events, p),
           \A p \in Procs : pc[p] \in Past => pc'[p] \in Past,
           \A p \in Procs : pc[p] = "dead" => pc'[p] = "dead",
           \A p \in Procs : pc'[p] \in {"release", "done"} => pc[p] \in {"release", "done"}
    PROVE  FileInv'
<1>1. Events' = Events /\ Readable' = Readable
  BY DEF Events, Readable
<1>2. \A i : LineInv(i)' = LineInv(i)
  BY DEF LineInv
<1>3. (\A i \in DOMAIN file : i < Len(file) \/ ~torn => LineInv(i))'
  BY <1>2 DEF FileInv
<1>4. (torn => /\ file # <<>>
               /\ file[Len(file)].parses =>
                    ~file[Len(file)].eol /\ pc[file[Len(file)].event.actor] = "dead")'
  BY LineFacts DEF FileInv
<1>5. (\A p \in Procs : pc[p] = "write" => Readable /\ built[p] = Successor(Events, p))'
  <2>1. \A p \in Procs : Successor(Events, p)' = Successor(Events, p)
    BY <1>1 DEF Successor
  <2>. QED BY <1>1, <2>1
<1>6. (\A i \in DOMAIN file : pc[file[i].event.actor] \in Past)'
  BY LineFacts DEF FileInv, Past
<1>7. (\A p \in Procs : pc[p] \in {"release", "done"} =>
         \E i \in DOMAIN file : file[i].event.actor = p)'
  BY DEF FileInv
<1>. QED BY <1>3, <1>4, <1>5, <1>6, <1>7 DEF FileInv

\* The one writer writes its line, whole or not, and leaves; a line without its
\* newline is a dead writer's.
LEMMA WriteKept ==
    ASSUME TypeOK, LockInv, ~robbed, FileInv,
           NEW p \in Procs, pc[p] = "write", NEW line \in Line,
           line.event = built[p], file' = Written(line), built' = built,
           pc'[p] \in Past, \A q \in Procs : q # p => pc'[q] = pc[q],
           line.eol => line.parses, line.eol \/ pc'[p] = "dead",
           torn' = (torn \/ ~line.eol)
    PROVE  FileInv'
<1>0. \A q \in Procs : q # p => pc[q] \notin Inside
  BY DEF LockInv, Inside
<1>1. \A q \in Procs : pc'[q] # "write"
  BY <1>0 DEF Past, Inside
<1>2. \A q \in Procs : pc[q] \in Past => pc'[q] \in Past
  BY DEF Past
<1>3. /\ Len(file) \in Nat /\ DOMAIN file = 1..Len(file)
      /\ \A i \in DOMAIN file : file[i].event.actor \in Procs
  BY LineFacts
<1>5. built[p].actor = p
  BY BuiltExtends
<1>6. CASE ~torn
  <2>1. /\ DOMAIN file' = DOMAIN file \union {Len(file) + 1}
        /\ Len(file') = Len(file) + 1
        /\ \A i \in DOMAIN file : file'[i] = file[i]
        /\ file'[Len(file) + 1] = line
    BY <1>6, WrittenLines
  <2>2. \A i \in DOMAIN file : LineInv(i)'
    <3>. SUFFICES ASSUME NEW i \in DOMAIN file PROVE LineInv(i)'
      OBVIOUS
    <3>1. LineInv(i)
      BY <1>6 DEF FileInv
    <3>2. i # 1 => i - 1 \in DOMAIN file
      BY <1>3
    <3>. QED BY <2>1, <3>1, <3>2 DEF LineInv
  <2>3. ASSUME NEW i, i = Len(file) + 1, line.eol PROVE LineInv(i)'
    <3>1. i # 1 => i - 1 \in DOMAIN file /\ i - 1 = Len(file)
      BY <1>3, <2>3
    <3>2. file'[i] = line /\ line.parses
      BY <2>1, <2>3
    <3>3. i # 1 => file'[i - 1].event.actor = file[Len(file)].event.actor
      BY <2>1, <3>1
    <3>. QED BY <2>3, <3>1, <3>2, <3>3, BuiltExtends DEF LineInv
  <2>4. (\A i \in DOMAIN file : i < Len(file) \/ ~torn => LineInv(i))'
    <3>. SUFFICES ASSUME NEW i \in DOMAIN file', i < Len(file') \/ ~torn' PROVE LineInv(i)'
      OBVIOUS
    <3>0. i \in DOMAIN file \/ (i = Len(file) + 1 /\ ~(i < Len(file')))
      BY <1>3, <2>1
    <3>1. i \in DOMAIN file \/ (i = Len(file) + 1 /\ line.eol)
      BY <3>0
    <3>. QED BY <2>2, <2>3, <3>1
  <2>5. file' # <<>> /\ (torn' => ~file'[Len(file')].eol /\ pc'[file'[Len(file')].event.actor] = "dead")
    <3>1. file'[Len(file')] = line /\ Len(file') > 0
      BY <1>3, <2>1
    <3>2. file' # <<>>
      BY <3>1
    <3>3. torn' => ~line.eol /\ pc'[p] = "dead"
      BY <1>6
    <3>. QED BY <1>5, <3>1, <3>2, <3>3
  <2>6. (\A i \in DOMAIN file : pc[file[i].event.actor] \in Past)'
    BY <1>2, <1>3, <1>5, <2>1 DEF FileInv
  <2>7. (\A q \in Procs : pc[q] \in {"release", "done"} =>
           \E i \in DOMAIN file : file[i].event.actor = q)'
    <3>. SUFFICES ASSUME NEW q \in Procs, pc'[q] \in {"release", "done"}
                  PROVE  \E i \in DOMAIN file' : file'[i].event.actor = q
      OBVIOUS
    <3>1. CASE q = p
      BY <1>5, <2>1, <3>1
    <3>2. CASE q # p
      BY <2>1, <3>2 DEF FileInv
    <3>. QED BY <3>1, <3>2
  <2>. QED BY <1>1, <2>4, <2>5, <2>6, <2>7 DEF FileInv
<1>7. CASE torn
  <2>1. /\ DOMAIN file' = DOMAIN file /\ Len(file') = Len(file)
        /\ \A i \in DOMAIN file : i # Len(file) => file'[i] = file[i]
        /\ file'[Len(file)].event = built[p] /\ ~file'[Len(file)].parses
    BY <1>7, WrittenLines
  <2>0. file # <<>> /\ Len(file) \in DOMAIN file /\ torn'
    BY <1>7, LineFacts DEF FileInv
  <2>2. (\A i \in DOMAIN file : i < Len(file) \/ ~torn => LineInv(i))'
    <3>. SUFFICES ASSUME NEW i \in DOMAIN file', i < Len(file') PROVE LineInv(i)'
      BY <2>0
    <3>1. LineInv(i) /\ file'[i] = file[i]
      BY <1>3, <2>1 DEF FileInv
    <3>2. i # 1 => i - 1 \in DOMAIN file /\ i - 1 # Len(file)
      BY <1>3, <2>1
    <3>. QED BY <2>1, <3>1, <3>2 DEF LineInv
  <2>3. file' # <<>> /\ ~file'[Len(file')].parses
    BY <2>0, <2>1
  <2>4. (\A i \in DOMAIN file : pc[file[i].event.actor] \in Past)'
    BY <1>2, <1>3, <1>5, <2>1 DEF FileInv
  <2>5. (\A q \in Procs : pc[q] \in {"release", "done"} =>
           \E i \in DOMAIN file : file[i].event.actor = q)'
    <3>. SUFFICES ASSUME NEW q \in Procs, pc'[q] \in {"release", "done"}
                  PROVE  \E i \in DOMAIN file' : file'[i].event.actor = q
      OBVIOUS
    <3>1. CASE q = p
      BY <1>5, <2>0, <2>1, <3>1
    <3>2. CASE q # p
      <4>1. PICK i \in DOMAIN file : file[i].event.actor = q
        BY <3>2 DEF FileInv
      <4>2. file[Len(file)].parses
        BY <2>0 DEF FileInv, Readable
      <4>3. i # Len(file)
        BY <1>7, <3>2, <4>1, <4>2 DEF FileInv
      <4>. QED BY <2>1, <4>1, <4>3
    <3>. QED BY <3>1, <3>2
  <2>. QED BY <1>1, <2>2, <2>3, <2>4, <2>5 DEF FileInv
<1>. QED BY <1>6, <1>7

\* The outcomes of a death in mid-write.
LEMMA CrashWrites ==
    ASSUME TypeOK, LockInv, ~robbed, FileInv, NEW p \in Procs, Crash(p), pc[p] = "write"
    PROVE  \/ file' = file /\ torn' = torn
           \/ \E line \in Line : /\ line.event = built[p] /\ file' = Written(line)
                                 /\ line.eol => line.parses
                                 /\ torn' = (torn \/ ~line.eol)
<1>. DEFINE L(ok, nl) == [parses |-> ok, event |-> built[p], eol |-> nl]
<1>1. file' \in {file, Written(L(FALSE, FALSE)), Written(L(TRUE, FALSE)), Written(L(TRUE, TRUE))}
  BY DEF Crash, PartialWrites
<1>2. torn' = (torn \/ (file' # <<>> /\ ~file'[Len(file')].eol))
  BY DEF Crash
<1>3. CASE file' = file
  <2>1. ~torn /\ file # <<>> => file[Len(file)].eol
    BY LineFacts DEF FileInv, LineInv
  <2>. QED BY <1>2, <1>3, <2>1 DEF TypeOK
<1>4. ASSUME NEW line \in Line, file' = Written(line)
      PROVE  torn' = (torn \/ ~line.eol)
  <2>1. CASE torn
    BY <1>2, <2>1
  <2>2. CASE ~torn
    <3>1. /\ Len(file') = Len(file) + 1 /\ DOMAIN file' = DOMAIN file \union {Len(file) + 1}
          /\ file'[Len(file) + 1] = line
      BY <1>4, <2>2, WrittenLines
    <3>2. file' # <<>> /\ file'[Len(file')] = line
      BY <3>1, LineFacts
    <3>. QED BY <1>2, <2>2, <3>2
  <2>. QED BY <2>1, <2>2
<1>5. CASE file' # file
  <2>1. PICK line \in {L(FALSE, FALSE), L(TRUE, FALSE), L(TRUE, TRUE)} : file' = Written(line)
    BY <1>1, <1>5
  <2>2. line \in Line /\ line.event = built[p] /\ (line.eol => line.parses)
    <3>1. built[p] \in Event
      BY DEF TypeOK
    <3>2. CASE line = L(FALSE, FALSE)
      BY <3>1, <3>2 DEF Line
    <3>3. CASE line = L(TRUE, FALSE)
      BY <3>1, <3>3 DEF Line
    <3>4. CASE line = L(TRUE, TRUE)
      BY <3>1, <3>4 DEF Line
    <3>. QED BY <2>1, <3>2, <3>3, <3>4
  <2>. QED BY <1>4, <2>1, <2>2
<1>. QED BY <1>3, <1>5

LEMMA WholeLine ==
    ASSUME TypeOK, NEW p \in Procs, WriteLine(p)
    PROVE  \E line \in Line : /\ line.event = built[p] /\ file' = Written(line)
                              /\ line.eol /\ line.parses
<1>. DEFINE line == [parses |-> TRUE, event |-> built[p], eol |-> TRUE]
<1>1. line \in Line /\ line.event = built[p] /\ line.eol /\ line.parses
  BY DEF TypeOK, Line
<1>2. file' = Written(line)
  BY DEF WriteLine
<1>. QED BY <1>1, <1>2

LEMMA FileInvInductive ==
    ASSUME TypeOK, LockInv, ~robbed, FileInv, [Next]_vars
    PROVE  FileInv'
<1>. USE DEF Inside, Waiting, Ended, Past
<1>1. ASSUME UNCHANGED <<file, built, torn>>,
             \A p \in Procs : pc[p] \in {"write", "release", "done", "dead"} \/
                              pc'[p] \in {"write", "release", "done"} =>
                                \/ pc'[p] = pc[p]
                                \/ pc[p] = "release" /\ pc'[p] = "done"
                                \/ pc[p] = "release" /\ pc'[p] = "dead"
      PROVE  FileInv'
  <2>1. \A p \in Procs : pc'[p] = "write" => Readable /\ built'[p] = Successor(Events, p)
    BY <1>1 DEF FileInv
  <2>. QED BY <1>1, <2>1, FileKept
<1>2. CASE Tick
  BY <1>1, <1>2 DEF Tick
<1>3. ASSUME NEW p \in Procs, Acquire(p) PROVE FileInv'
  <2>1. CASE Call(p) BY <1>1, <2>1 DEF Call, TypeOK
  <2>2. CASE CreateLock(p) BY <1>1, <2>2 DEF CreateLock, MayCreate, TypeOK
  <2>3. CASE LockExists(p) BY <1>1, <2>3 DEF LockExists, TypeOK
  <2>4. CASE StatLock(p) BY <1>1, <2>4 DEF StatLock, TypeOK
  <2>5. CASE UnlinkStale(p) BY <1>1, <2>5 DEF UnlinkStale, TypeOK
  <2>6. CASE CheckDeadline(p) BY <1>1, <2>6 DEF CheckDeadline, TypeOK
  <2>. QED BY <1>3, <2>1, <2>2, <2>3, <2>4, <2>5, <2>6 DEF Acquire
<1>4. ASSUME NEW p \in Procs, Release(p) PROVE FileInv'
  BY <1>1, <1>4 DEF Release, TypeOK
<1>5. ASSUME NEW p \in Procs, ReadChain(p) PROVE FileInv'
  <2>1. \A q \in Procs : pc'[q] = "write" => Readable /\ built'[q] = Successor(Events, q)
    BY <1>5 DEF ReadChain, ChainAccepted, FileInv, TypeOK
  <2>2. /\ file' = file /\ torn' = torn /\ pc[p] = "locked" /\ pc'[p] \in {"write", "abort"}
        /\ \A q \in Procs : q # p => pc'[q] = pc[q]
    BY <1>5 DEF ReadChain, TypeOK
  <2>. QED BY <2>1, <2>2, FileKept
<1>6. ASSUME NEW p \in Procs, WriteLine(p) PROVE FileInv'
  <2>1. /\ pc[p] = "write" /\ built' = built /\ torn' = torn /\ pc'[p] = "release"
        /\ \A q \in Procs : q # p => pc'[q] = pc[q]
    BY <1>6 DEF WriteLine, TypeOK
  <2>2. PICK line \in Line : /\ line.event = built[p] /\ file' = Written(line)
                             /\ line.eol /\ line.parses
    BY <1>6, WholeLine
  <2>3. torn' = (torn \/ ~line.eol)
    BY <2>1, <2>2 DEF TypeOK
  <2>. QED BY <2>1, <2>2, <2>3, WriteKept DEF Past
<1>7. ASSUME NEW p \in Procs, Crash(p) PROVE FileInv'
  <2>0. /\ built' = built /\ pc'[p] = "dead" /\ \A q \in Procs : q # p => pc'[q] = pc[q]
        /\ pc[p] \in Waiting \union Inside
    BY <1>7 DEF Crash, TypeOK
  <2>1. CASE pc[p] = "write"
    <3>1. CASE file' = file /\ torn' = torn
      <4>1. \A q \in Procs : pc'[q] = "write" => Readable /\ built'[q] = Successor(Events, q)
        BY <2>0 DEF FileInv
      <4>. QED BY <2>0, <2>1, <3>1, <4>1, FileKept
    <3>2. ASSUME NEW line \in Line, line.event = built[p], file' = Written(line),
                 line.eol => line.parses, torn' = (torn \/ ~line.eol)
          PROVE  FileInv'
      BY <2>0, <2>1, <3>2, WriteKept
    <3>. QED BY <1>7, <2>1, <3>1, <3>2, CrashWrites
  <2>2. CASE pc[p] # "write"
    <3>1. file' = file
      BY <1>7, <2>2 DEF Crash
    <3>2. torn' = torn
      <4>1. ~torn /\ file # <<>> => file[Len(file)].eol
        BY LineFacts DEF FileInv, LineInv
      <4>. QED BY <1>7, <3>1, <4>1 DEF Crash, TypeOK
    <3>3. \A q \in Procs : pc'[q] = "write" => Readable /\ built'[q] = Successor(Events, q)
      BY <2>0 DEF FileInv
    <3>. QED BY <2>0, <2>2, <3>1, <3>2, <3>3, FileKept
  <2>. QED BY <2>1, <2>2
<1>8. CASE UNCHANGED vars
  BY <1>1, <1>8 DEF vars
<1>. QED BY <1>2, <1>3, <1>4, <1>5, <1>6, <1>7, <1>8 DEF Next, Transact

LEMMA RobbedStays ==
    ASSUME TypeOK, [Next]_vars
    PROVE  robbed => robbed'
BY DEF Next, Tick, Acquire, Transact, Call, CreateLock, MayCreate, LockExists, StatLock, UnlinkStale,
       CheckDeadline, ReadChain, WriteLine, Release, Crash, vars, TypeOK

LEMMA InvariantsHold == Spec => [](TypeOK /\ LockInv /\ (~robbed => FileInv))
<1>1. Init => LockInv /\ FileInv
  BY DEF Init, LockInv, FileInv, Inside
<1>2. TypeOK /\ LockInv /\ (~robbed => FileInv) /\ [Next]_vars =>
        LockInv' /\ (~robbed => FileInv)'
  <2>. SUFFICES ASSUME TypeOK, LockInv, ~robbed => FileInv, [Next]_vars
                PROVE  LockInv' /\ (~robbed => FileInv)'
    OBVIOUS
  <2>1. ~robbed' => ~robbed
    BY RobbedStays
  <2>. QED BY <2>1, LockInvInductive, FileInvInductive
<1>. QED BY <1>1, <1>2, TypeCorrect, PTL DEF Spec

\* Unless a live process has lost its lock, the lines of the ledger are whole and
\* chained and contain the event of every append that has returned; a death in
\* mid-write costs the last line only.
THEOREM ReturnedEventsStay == Spec => []ReturnedEventsVerify
<1>1. TypeOK /\ (~robbed => FileInv) => ReturnedEventsVerify
  BY DEF FileInv, LineInv, ReturnedEventsVerify
<1>. QED BY <1>1, InvariantsHold, PTL

\* append never extends or rewrites a ledger that no longer reads, whatever a
\* process that died has left of its line, unless a live process has lost its lock.
THEOREM UnreadableStaysFrozen == Spec => UnreadableIsFrozen
<1>1. TypeOK /\ (~robbed => FileInv) /\ [Next]_vars => [~robbed /\ ~Readable => file' = file]_vars
  <2>. SUFFICES ASSUME TypeOK, FileInv, ~Readable, [Next]_vars PROVE file' = file
    BY DEF vars
  <2>1. \A p \in Procs : pc[p] # "write"
    BY DEF FileInv
  <2>. QED BY <2>1 DEF Next, Tick, Acquire, Transact, Call, CreateLock, MayCreate, LockExists, StatLock,
              UnlinkStale, CheckDeadline, ReadChain, WriteLine, Release, Crash, vars
<1>. QED BY <1>1, InvariantsHold, PTL DEF Spec, UnreadableIsFrozen

-----------------------------------------------------------------------------
\* What a write of the writer does to the whole lines.
LEMMA WholeWritten ==
    ASSUME TypeOK, FileInv, NEW p \in Procs, pc[p] = "write",
           NEW line \in Line, line.event = built[p], file' = Written(line),
           torn' = (torn \/ ~line.eol)
    PROVE  /\ torn \/ ~line.eol => Whole' = Whole
           /\ ~torn /\ line.eol => Whole' = Append(Whole, built[p])
<1>1. Len(file) \in Nat /\ DOMAIN file = 1..Len(file)
  BY LineFacts
<1>2. CASE torn
  <2>1. /\ Len(file') = Len(file) /\ torn'
        /\ \A i \in DOMAIN file : i # Len(file) => file'[i] = file[i]
    BY <1>2, WrittenLines
  <2>2. \A i \in 1..(Len(file) - 1) : file'[i] = file[i]
    BY <1>1, <2>1
  <2>. QED BY <1>2, <2>1, <2>2 DEF Whole
<1>3. CASE ~torn /\ ~line.eol
  <2>1. /\ Len(file') = Len(file) + 1
        /\ \A i \in DOMAIN file : file'[i] = file[i]
    BY <1>3, WrittenLines
  <2>2. Len(file') - 1 = Len(file)
    BY <1>1, <2>1
  <2>. QED BY <1>1, <1>3, <2>1, <2>2 DEF Whole
<1>4. CASE ~torn /\ line.eol
  <2>1. /\ Len(file') = Len(file) + 1
        /\ \A i \in DOMAIN file : file'[i] = file[i]
        /\ file'[Len(file) + 1] = line
    BY <1>4, WrittenLines
  <2>2. Whole = Events /\ Events \in Seq(Event) /\ Len(Events) = Len(file) /\ built[p] \in Event
    BY <1>1, <1>4, EventsType DEF Whole, Events, TypeOK
  <2>3. Whole' = [i \in 1..(Len(file) + 1) |-> file'[i].event]
    BY <1>4, <2>1 DEF Whole
  <2>4. /\ Append(Whole, built[p]) = [i \in 1..(Len(file) + 1) |-> Append(Whole, built[p])[i]]
        /\ \A i \in 1..Len(file) : Append(Whole, built[p])[i] = Whole[i]
        /\ Append(Whole, built[p])[Len(file) + 1] = built[p]
    <3>1. /\ DOMAIN Append(Events, built[p]) = 1..(Len(file) + 1)
          /\ \A i \in 1..Len(file) : Append(Events, built[p])[i] = Events[i]
          /\ Append(Events, built[p])[Len(file) + 1] = built[p]
          /\ Append(Events, built[p]) \in Seq(Event)
      BY <1>1, <2>2
    <3>2. Append(Events, built[p]) \in [1..(Len(file) + 1) -> Event]
      BY <3>1, LenProperties
    <3>. QED BY <2>2, <3>1, <3>2
  <2>5. \A i \in 1..(Len(file) + 1) : file'[i].event = Append(Whole, built[p])[i]
    <3>1. \A i \in 1..Len(file) : file'[i].event = Append(Whole, built[p])[i]
      BY <1>1, <2>1, <2>2, <2>4 DEF Events
    <3>2. file'[Len(file) + 1].event = Append(Whole, built[p])[Len(file) + 1]
      BY <2>1, <2>4
    <3>3. \A i \in 1..(Len(file) + 1) : i \in 1..Len(file) \/ i = Len(file) + 1
      BY <1>1
    <3>. QED BY <3>1, <3>2, <3>3
  <2>6. Whole' = Append(Whole, built[p])
    BY <2>3, <2>4, <2>5
  <2>. QED BY <1>4, <2>6
<1>. QED BY <1>2, <1>3, <1>4 DEF TypeOK

\* The successor of the log, in the abstract specification's words.
LEMMA AbsAppends ==
    ASSUME TypeOK, FileInv, NEW p \in Procs, pc[p] = "write", ~torn,
           Whole' = Append(Whole, built[p]), torn' = torn, robbed' = robbed,
           {q \in Procs : pc'[q] = "done"} = {q \in Procs : pc[q] = "done"}
    PROVE  Abs!AppendEvent(p)
<1>1. Whole = Events
  BY LineFacts DEF Whole, Events
<1>2. built[p] = Successor(Events, p)
  BY DEF FileInv
<1>3. p \notin {Whole[i].actor : i \in DOMAIN Whole}
  <2>1. \A i \in DOMAIN file : file[i].event.actor # p
    BY DEF FileInv, Past
  <2>. QED BY <1>1, <2>1 DEF Events
<1>. QED BY <1>1, <1>2, <1>3 DEF Abs!AppendEvent, Abs!Writers, Abs!LastHash, Successor

\* Ledger.append implements the abstract append-only ledger, also when processes
\* die and locks are taken over: the write is the abstract append, leaving the lock
\* the abstract return, a death that tears a line the abstract sealing, and every
\* other file-system call a stutter until a live process loses its lock.
THEOREM AppendImplementsLedger == Spec => ImplementsLedger
<1>. DEFINE Done == {p \in Procs : pc[p] = "done"}
<1>1. Init => Abs!AbsInit
  BY DEF Init, Abs!AbsInit, Whole
<1>2. TypeOK /\ LockInv /\ (~robbed => FileInv) /\ [Next]_vars => [Abs!AbsNext]_(Abs!absVars)
  <2>. SUFFICES ASSUME TypeOK, LockInv, ~robbed => FileInv, [Next]_vars
                PROVE  Abs!AbsNext \/ UNCHANGED <<Whole, Done, torn, robbed>>
    BY DEF Abs!absVars
  <2>. USE DEF Inside, Waiting, Ended
  <2>1. CASE robbed'
    BY <2>1 DEF Abs!AbsNext, Abs!Forfeit
  <2>2. CASE ~robbed'
    <3>. USE <2>2
    <3>0. TypeOK'
      BY TypeStep
    <3>1. ~robbed /\ FileInv /\ robbed' = robbed
      BY <3>0, RobbedStays DEF TypeOK
    <3>2. ASSUME file' = file, torn' = torn, Done' = Done
          PROVE  UNCHANGED <<Whole, Done, torn, robbed>>
      BY <3>1, <3>2 DEF Whole
    <3>3. CASE Tick
      BY <3>2, <3>3 DEF Tick
    <3>4. ASSUME NEW p \in Procs, Acquire(p) PROVE UNCHANGED <<Whole, Done, torn, robbed>>
      <4>1. file' = file /\ torn' = torn /\ \A q \in Procs : pc'[q] = "done" <=> pc[q] = "done"
        BY <3>4 DEF Acquire, Call, CreateLock, MayCreate, LockExists, StatLock, UnlinkStale,
                    CheckDeadline, TypeOK
      <4>. QED BY <3>2, <4>1
    <3>5. ASSUME NEW p \in Procs, ReadChain(p) PROVE UNCHANGED <<Whole, Done, torn, robbed>>
      <4>1. file' = file /\ torn' = torn /\ \A q \in Procs : pc'[q] = "done" <=> pc[q] = "done"
        BY <3>5 DEF ReadChain, TypeOK
      <4>. QED BY <3>2, <4>1
    <3>6. ASSUME NEW p \in Procs, pc[p] = "write", NEW line \in Line, line.event = built[p],
                 file' = Written(line), torn' = (torn \/ ~line.eol), Done' = Done
          PROVE  Abs!AbsNext \/ UNCHANGED <<Whole, Done, torn, robbed>>
      <4>1. CASE torn \/ ~line.eol
        <5>1. Whole' = Whole
          BY <3>1, <3>6, <4>1, WholeWritten
        <5>2. CASE torn
          BY <3>1, <3>6, <5>1, <5>2
        <5>3. CASE ~torn
          <6>1. Abs!Seal
            BY <3>1, <3>6, <4>1, <5>1, <5>3 DEF Abs!Seal
          <6>. QED BY <6>1 DEF Abs!AbsNext
        <5>. QED BY <5>2, <5>3
      <4>2. CASE ~torn /\ line.eol
        <5>0. torn' = torn
          BY <3>6, <4>2 DEF TypeOK
        <5>1. Whole' = Append(Whole, built[p])
          BY <3>1, <3>6, <4>2, WholeWritten
        <5>2. Abs!AppendEvent(p)
          BY <3>1, <3>6, <4>2, <5>0, <5>1, AbsAppends
        <5>. QED BY <5>2 DEF Abs!AbsNext
      <4>. QED BY <4>1, <4>2
    <3>7. ASSUME NEW p \in Procs, WriteLine(p)
          PROVE  Abs!AbsNext \/ UNCHANGED <<Whole, Done, torn, robbed>>
      <4>1. pc[p] = "write" /\ torn' = torn
        BY <3>7 DEF WriteLine, TypeOK
      <4>2. PICK line \in Line : /\ line.event = built[p] /\ file' = Written(line)
                                 /\ line.eol /\ line.parses
        BY <3>7, WholeLine
      <4>4. torn' = (torn \/ ~line.eol)
        BY <4>1, <4>2 DEF TypeOK
      <4>3. Done' = Done
        BY <3>7 DEF WriteLine, TypeOK
      <4>. QED BY <3>6, <4>1, <4>2, <4>3, <4>4
    <3>8. ASSUME NEW p \in Procs, Release(p)
          PROVE  Abs!AbsNext \/ UNCHANGED <<Whole, Done, torn, robbed>>
      <4>1. CASE pc[p] = "release"
        <5>1. Done' = Done \union {p} /\ p \notin Done /\ file' = file /\ torn' = torn
          BY <3>8, <4>1 DEF Release, TypeOK
        <5>2. Whole' = Whole
          BY <5>1 DEF Whole
        <5>3. p \in {Whole[i].actor : i \in DOMAIN Whole} \/ torn
          <6>1. PICK i \in DOMAIN file : file[i].event.actor = p
            BY <3>1, <4>1 DEF FileInv
          <6>. QED BY <6>1, LineFacts DEF Whole
        <5>4. Abs!ReturnEvent(p)
          BY <3>1, <5>1, <5>2, <5>3 DEF Abs!ReturnEvent, Abs!Writers
        <5>. QED BY <5>4 DEF Abs!AbsNext
      <4>2. CASE pc[p] = "abort"
        <5>1. Done' = Done /\ file' = file /\ torn' = torn
          BY <3>8, <4>2 DEF Release, TypeOK
        <5>. QED BY <3>2, <5>1
      <4>. QED BY <3>8, <4>1, <4>2 DEF Release
    <3>9. ASSUME NEW p \in Procs, Crash(p)
          PROVE  Abs!AbsNext \/ UNCHANGED <<Whole, Done, torn, robbed>>
      <4>1. Done' = Done
        BY <3>9 DEF Crash, TypeOK
      <4>2. CASE pc[p] = "write"
        <5>1. CASE file' = file /\ torn' = torn
          BY <3>2, <4>1, <5>1
        <5>. QED BY <3>1, <3>6, <3>9, <4>1, <4>2, <5>1, CrashWrites
      <4>3. CASE pc[p] # "write"
        <5>1. file' = file
          BY <3>9, <4>3 DEF Crash
        <5>2. torn' = torn
          <6>1. ~torn /\ file # <<>> => file[Len(file)].eol
            BY <3>1, LineFacts DEF FileInv, LineInv
          <6>. QED BY <3>9, <5>1, <6>1 DEF Crash, TypeOK
        <5>. QED BY <3>2, <4>1, <5>1, <5>2
      <4>. QED BY <4>2, <4>3
    <3>10. CASE UNCHANGED vars
      BY <3>2, <3>10 DEF vars
    <3>. QED BY <3>3, <3>4, <3>5, <3>7, <3>8, <3>9, <3>10 DEF Next, Transact
  <2>. QED BY <2>1, <2>2
<1>. QED BY <1>1, <1>2, InvariantsHold, PTL DEF Spec, ImplementsLedger, Abs!AbsSpec
=============================================================================
