------------------------ MODULE SnapshotBrokerProofs ------------------------
(***************************************************************************)
(* Proofs about SnapshotBroker, for every set of clients and threads,      *)
(* every limit and any number of crashes, failed file operations, client   *)
(* timeouts and edits: what a client holds is intact, what it was told is  *)
(* gone is gone, and the broker's three tables agree.                      *)
(***************************************************************************)
EXTENDS SnapshotBroker, TLAPS

\* What the variables hold
Pcs == {"evict", "evicted", "removing", "check", "consume", "noncing", "acquire", "copying", "persist",
        "undo", "release", "cleaned", "answer", "rollback", "rolled", "error"}
Nexts == {"idle", "evicted", "cleaned", "rolled", "error"}
Conns == [pc : Pcs, c : Clients, op : Ops, peer : BOOLEAN, on : Clients, next : Nexts]
Modes == {"absent", "open", "sealed"}
ClientStates == {"new", "acquiring", "holding", "failed", "releasing", "unsure", "released"}
Counts == [crashes : Nat, failures : Nat, timeouts : Nat, edits : Nat]

TypeInv ==
    /\ now \in Nat /\ expires \in [Clients -> Nat]
    /\ client \in [Clients -> ClientStates]
    /\ source \in [Clients -> [1..FileCount -> Versions]]
    /\ daemon \in {"down", "starting", "up"} /\ cleaning \in Clients \union {None}
    /\ thread \in [Threads -> Conns \union {Idle}]
    /\ lock \in Threads \union {None}
    /\ ns \in [Clients -> [mode : Modes, content : Seq(Versions)]]
    /\ records \subseteq Clients /\ leases \subseteq Clients
    /\ faults \in Counts

\* A connection with something half done is inside the lease lock; only a
\* serving daemon has connections, and recovery works alone.
Busy == {"copying", "persist", "undo", "removing", "evicted", "cleaned", "rolled"}
LockInv ==
    /\ \A h \in Threads : thread[h].pc \in Busy => lock = h
    /\ \A h \in Threads : lock = h => thread[h].pc \in Busy \union {"evict"}
    /\ daemon # "up" => lock = None /\ \A h \in Threads : thread[h] = Idle
    /\ daemon = "up" => cleaning = None
    /\ cleaning # None => ns[cleaning].mode = "open"

\* The connection of an acquire is the only one of its client, and a client
\* waits on one connection at a time.
PeerInv ==
    \A h, g \in Threads :
        thread[h].pc # "idle" /\ thread[g].pc # "idle" /\ thread[h].c = thread[g].c
          /\ (thread[h].op = "acquire" \/ (thread[h].peer /\ thread[g].peer)) => h = g

\* The states of a lease: nothing was made of it yet; all of it is there and as
\* declared; the table, the records and the namespaces agree on it.
Untouched(c) == ns[c] = Absent /\ c \notin records /\ c \notin leases
Whole == [mode |-> "sealed", content |-> [k \in 1..FileCount |-> "declared"]]
Intact(c) == ns[c] = Whole /\ c \in records /\ (daemon = "up" => c \in leases)
Agree(c) == (c \in leases <=> c \in records) /\ (c \in records <=> c \in Namespaces)

\* The stages of a connection x
Evicting(x) == x.pc = "evicted" \/ (x.pc = "removing" /\ x.next = "evicted")
Early(x) == x.pc \in {"evict", "check", "consume", "noncing", "acquire"} \/ Evicting(x)
Making(x) == x.pc \in {"copying", "persist", "undo"} \/ (x.pc = "removing" /\ x.next = "error")
Dropping(x) == x.pc = "removing" /\ x.next # "error"
Dropped(x) == x.pc \in {"evicted", "cleaned", "rolled"}

\* Which request a stage belongs to, and whose lease it works on
Shape(x) ==
    /\ Making(x) \/ x.pc \in {"acquire", "rollback", "rolled"} \/ (x.pc = "removing" /\ x.next = "rolled")
         => x.op = "acquire"
    /\ x.pc \in {"release", "cleaned"} \/ (x.pc = "removing" /\ x.next = "cleaned") => x.op = "release"
    /\ x.pc \in Busy /\ ~ Evicting(x) => x.on = x.c
    /\ x.pc = "removing" => x.next # "idle"
\* What the client of a connection is doing
Past == {"releasing", "unsure", "released"}
Peer(x) ==
    /\ x.op = "acquire" => client[x.c] = IF x.peer THEN "acquiring" ELSE "failed"
    /\ x.op = "release" => client[x.c] \in Past /\ (x.peer => client[x.c] = "releasing")
\* What a stage finds in the store, whatever has failed
Stage(x) ==
    /\ Evicting(x) => Lapsed(x.on)
    /\ x.op = "acquire" /\ Early(x) => Untouched(x.c)
    /\ Making(x) => x.c \notin leases
    /\ x.pc = "copying" => ns[x.c].mode = "open" /\ x.c \notin records
    /\ x.pc = "persist" => ns[x.c] = Whole
    /\ x.pc = "removing" => ns[x.on].mode = "open"
    /\ x.pc = "answer" /\ x.op = "acquire" /\ ~ Lapsed(x.c) => Intact(x.c)
    /\ x.pc = "cleaned" \/ (x.pc = "answer" /\ x.op = "release") => x.c \notin Namespaces
\* Which of the three tables the lease is in meanwhile, while nothing has failed
Tables(x) == faults.failures = 0 =>
    /\ Making(x) => x.c \notin records /\ x.c \in Namespaces
    /\ Dropping(x) => x.on \in leases /\ x.on \in records
    /\ Dropped(x) => x.on \in leases /\ x.on \in records /\ x.on \notin Namespaces
Conn(x) == x # Idle => Shape(x) /\ Peer(x) /\ Stage(x) /\ Tables(x)
ConnInv == \A h \in Threads : Conn(thread[h])

\* What a client may rely on, and what a tombstone says
ClientInv == \A c \in Clients :
    /\ client[c] = "new" => Untouched(c)
    /\ client[c] = "acquiring" /\ (\A h \in Threads : thread[h].c # c) => Untouched(c)
    /\ client[c] = "holding" /\ ~ Lapsed(c) => Intact(c)
    /\ client[c] = "released" => c \notin Namespaces
    /\ tombs[c] # 0 => c \notin Namespaces /\ client[c] \in Past
\* While nothing has failed, the tables agree on every lease nobody works on.
AgreeInv ==
    daemon = "up" /\ faults.failures = 0 =>
        \A c \in Clients : (\A h \in Threads : thread[h].pc \in Busy => thread[h].on # c) => Agree(c)

BrokerInv == TypeInv /\ LockInv /\ PeerInv /\ ConnInv /\ ClientInv /\ AgreeInv


\* The fields of a connection, and of a free thread.
LEMMA Connections ==
  ASSUME NEW x \in Conns \union {Idle}
  PROVE  /\ x # Idle <=> x.pc # "idle"
         /\ x # Idle => x \in Conns /\ x.pc \in Pcs /\ x.c \in Clients /\ x.op \in Ops /\ x.peer \in BOOLEAN
                        /\ x.on \in Clients /\ x.next \in Nexts
         /\ x = Idle => x.c = None /\ x.c \notin Clients /\ ~ x.peer /\ x.pc \notin Busy
<1>1. Idle.pc = "idle" /\ Idle.c = None /\ Idle.peer = FALSE
  BY DEF Idle
<1>2. "idle" \notin Pcs /\ "idle" \notin Busy /\ None \notin Clients
  BY ConstantsAssumption DEF Pcs, Busy
<1>3. x \in Conns => x.pc \in Pcs /\ x.c \in Clients /\ x.op \in Ops /\ x.peer \in BOOLEAN
                     /\ x.on \in Clients /\ x.next \in Nexts
  BY DEF Conns
<1> QED
  BY <1>1, <1>2, <1>3

\* What Go makes of a connection.
LEMMA GoIs ==
  ASSUME TypeInv, NEW h \in Threads, thread[h].pc # "idle", NEW pc \in Pcs, Go(h, pc)
  PROVE  \E y \in Conns :
           /\ thread' = [thread EXCEPT ![h] = y]
           /\ y.pc = pc /\ y.c = thread[h].c /\ y.op = thread[h].op /\ y.peer = thread[h].peer
           /\ y.on = thread[h].on /\ y.next = thread[h].next
<1>1. thread[h] \in Conns /\ thread \in [Threads -> Conns \union {Idle}]
  BY Connections DEF TypeInv
<1>2. PICK y : y = [thread[h] EXCEPT !.pc = pc]
  OBVIOUS
<1>3. /\ y \in Conns /\ y.pc = pc /\ y.c = thread[h].c /\ y.op = thread[h].op /\ y.peer = thread[h].peer
      /\ y.on = thread[h].on /\ y.next = thread[h].next
  BY <1>1, <1>2 DEF Conns
<1>4. thread' = [thread EXCEPT ![h] = y]
  BY <1>2 DEF Go
<1> QED
  BY <1>3, <1>4

\* The ways a handler moves on to a lease and its next stage
Aim(h, pc, c, n) == thread' = [thread EXCEPT ![h].pc = pc, ![h].on = c, ![h].next = n]
AimOn(h, pc, c) == thread' = [thread EXCEPT ![h].pc = pc, ![h].on = c]
AimNext(h, pc, n) == thread' = [thread EXCEPT ![h].pc = pc, ![h].next = n]

\* What Aim makes of a connection.
LEMMA AimIs ==
  ASSUME TypeInv, NEW h \in Threads, thread[h].pc # "idle", NEW pc \in Pcs, NEW c \in Clients, NEW n \in Nexts,
         Aim(h, pc, c, n)
  PROVE  \E y \in Conns :
           /\ thread' = [thread EXCEPT ![h] = y]
           /\ y.pc = pc /\ y.c = thread[h].c /\ y.op = thread[h].op /\ y.peer = thread[h].peer
           /\ y.on = c /\ y.next = n
<1>1. thread[h] \in Conns /\ thread \in [Threads -> Conns \union {Idle}]
  BY Connections DEF TypeInv
<1>2. PICK y : y = [thread[h] EXCEPT !.pc = pc, !.on = c, !.next = n]
  OBVIOUS
<1>3. /\ y \in Conns /\ y.pc = pc /\ y.c = thread[h].c /\ y.op = thread[h].op /\ y.peer = thread[h].peer
      /\ y.on = c /\ y.next = n
  BY <1>1, <1>2 DEF Conns
<1>4. thread' = [thread EXCEPT ![h] = y]
  BY <1>2 DEF Aim, AimOn, AimNext
<1> QED
  BY <1>3, <1>4

\* What AimOn makes of a connection.
LEMMA AimOnIs ==
  ASSUME TypeInv, NEW h \in Threads, thread[h].pc # "idle", NEW pc \in Pcs, NEW c \in Clients,
         AimOn(h, pc, c)
  PROVE  \E y \in Conns :
           /\ thread' = [thread EXCEPT ![h] = y]
           /\ y.pc = pc /\ y.c = thread[h].c /\ y.op = thread[h].op /\ y.peer = thread[h].peer
           /\ y.on = c /\ y.next = thread[h].next
<1>1. thread[h] \in Conns /\ thread \in [Threads -> Conns \union {Idle}]
  BY Connections DEF TypeInv
<1>2. PICK y : y = [thread[h] EXCEPT !.pc = pc, !.on = c]
  OBVIOUS
<1>3. /\ y \in Conns /\ y.pc = pc /\ y.c = thread[h].c /\ y.op = thread[h].op /\ y.peer = thread[h].peer
      /\ y.on = c /\ y.next = thread[h].next
  BY <1>1, <1>2 DEF Conns
<1>4. thread' = [thread EXCEPT ![h] = y]
  BY <1>2 DEF Aim, AimOn, AimNext
<1> QED
  BY <1>3, <1>4

\* What AimNext makes of a connection.
LEMMA AimNextIs ==
  ASSUME TypeInv, NEW h \in Threads, thread[h].pc # "idle", NEW pc \in Pcs, NEW n \in Nexts,
         AimNext(h, pc, n)
  PROVE  \E y \in Conns :
           /\ thread' = [thread EXCEPT ![h] = y]
           /\ y.pc = pc /\ y.c = thread[h].c /\ y.op = thread[h].op /\ y.peer = thread[h].peer
           /\ y.on = thread[h].on /\ y.next = n
<1>1. thread[h] \in Conns /\ thread \in [Threads -> Conns \union {Idle}]
  BY Connections DEF TypeInv
<1>2. PICK y : y = [thread[h] EXCEPT !.pc = pc, !.next = n]
  OBVIOUS
<1>3. /\ y \in Conns /\ y.pc = pc /\ y.c = thread[h].c /\ y.op = thread[h].op /\ y.peer = thread[h].peer
      /\ y.on = thread[h].on /\ y.next = n
  BY <1>1, <1>2 DEF Conns
<1>4. thread' = [thread EXCEPT ![h] = y]
  BY <1>2 DEF Aim, AimOn, AimNext
<1> QED
  BY <1>3, <1>4

\* What a step of a thread does to the lease d, and to no other one.
Rest(d) ==
    \A c \in Clients : c # d =>
        /\ ns'[c] = ns[c] /\ expires'[c] = expires[c]
        /\ c \in records' <=> c \in records
        /\ c \in leases' <=> c \in leases
Same(d) ==
    /\ ns'[d] = ns[d] /\ expires'[d] = expires[d]
    /\ d \in records' <=> d \in records
    /\ d \in leases' <=> d \in leases
Shrinks(d) ==
    /\ expires'[d] = expires[d]
    /\ ns[d].mode = "absent" => ns'[d].mode = "absent"
    /\ ns[d] = Absent => ns'[d] = Absent
    /\ d \in records' => d \in records
    /\ d \in leases' => d \in leases
Touch(h, d) ==
    /\ Rest(d)
    /\ \/ Same(d)
       \/ lock \in {None, h} /\ thread[h].op = "acquire" /\ thread[h].c = d
       \/ /\ lock \in {None, h} /\ Shrinks(d)
          /\ Lapsed(d) \/ (thread[h].op = "release" /\ thread[h].c = d)
\* The time and what the clients know stand still, and a failure is not forgotten.
Standing ==
    /\ UNCHANGED <<client, now, daemon>>
    /\ faults'.failures = 0 => faults.failures = 0

-----------------------------------------------------------------------------
(* What a thread does to one lease *)

\* A connection whose leases are left alone stays as it was.
LEMMA ConnSame ==
  ASSUME Standing, NEW CONSTANT x, Conn(x),
         \A c \in {x.c, x.on} : Same(c) /\ c \in Clients
  PROVE  Conn(x)'
<1>1. Peer(x) => Peer(x)'
  BY DEF Peer, Standing
<1>2. \A c \in {x.c, x.on} : /\ Lapsed(c) <=> Lapsed(c)'
                             /\ Untouched(c) <=> Untouched(c)'
                             /\ Intact(c) <=> Intact(c)'
                             /\ c \in Namespaces <=> c \in Namespaces'
  BY DEF Same, Standing, Lapsed, Untouched, Intact, Namespaces
<1>3. Stage(x) => Stage(x)'
  BY <1>2 DEF Stage, Same
<1>4. Tables(x) => Tables(x)'
  BY <1>2 DEF Tables, Same, Standing
<1> QED
  BY <1>1, <1>3, <1>4 DEF Conn

\* What a thread does to one lease leaves the other connections as they were.
LEMMA ConnStays ==
  ASSUME BrokerInv, NEW h \in Threads, NEW g \in Threads, g # h, thread[h].pc # "idle",
         NEW CONSTANT d \in Clients, Touch(h, d), Standing, NEW CONSTANT x, x = thread[g]
  PROVE  Conn(x)'
<1>0. /\ x \in Conns \union {Idle} /\ thread[h] \in Conns /\ Conn(x) /\ Conn(thread[h])
      /\ LockInv /\ PeerInv
  BY Connections DEF BrokerInv, TypeInv, ConnInv
<1>1. CASE x = Idle
  BY <1>1 DEF Conn
<1>2. CASE x # Idle /\ (Same(d) \/ (x.c # d /\ x.on # d))
  <2>1. \A c \in {x.c, x.on} : Same(c) /\ c \in Clients
    BY <1>0, <1>2, Connections DEF Touch, Rest, Same
  <2> QED
    BY <1>0, <2>1, ConnSame
<1>3. CASE x # Idle /\ ~ Same(d)
  <2>1. x.pc \notin Busy
    BY <1>0, <1>3, ConstantsAssumption DEF Touch, LockInv
  <2>2. ~ Evicting(x) /\ ~ Making(x) /\ ~ Dropping(x) /\ ~ Dropped(x) /\ x.pc \notin {"removing", "copying", "persist", "cleaned"}
    BY <2>1 DEF Busy, Evicting, Making, Dropping, Dropped
  <2>3. Shape(x) /\ Peer(x) /\ Stage(x) /\ Tables(x)'
    BY <1>0, <1>3, <2>2 DEF Conn, Tables
  <2>4. Peer(x)'
    BY <2>3 DEF Peer, Standing
  <2>5. Stage(x)'
    <3>1. CASE x.c # d
      <4>1. Same(x.c) /\ x.c \in Clients
        BY <1>0, <1>3, <3>1, Connections DEF Touch, Rest, Same
      <4>2. /\ Lapsed(x.c) <=> Lapsed(x.c)'
            /\ Untouched(x.c) <=> Untouched(x.c)'
            /\ Intact(x.c) <=> Intact(x.c)'
            /\ x.c \in Namespaces <=> x.c \in Namespaces'
        BY <4>1 DEF Same, Standing, Lapsed, Untouched, Intact, Namespaces
      <4> QED
        BY <2>2, <2>3, <4>2 DEF Stage
    <3>2. CASE x.c = d
      <4>1. thread[h].pc # "idle" /\ thread[g].pc # "idle"
        BY <1>0, <1>3, Connections
      <4>2. ~ (thread[h].op = "acquire" /\ thread[h].c = d)
        BY <1>0, <3>2, <4>1 DEF PeerInv
      <4>3. Shrinks(d) /\ (Lapsed(d) \/ (thread[h].op = "release" /\ thread[h].c = d))
        BY <1>3, <4>2 DEF Touch
      <4>4. Untouched(d) => Untouched(d)'
        BY <4>3 DEF Shrinks, Untouched
      <4>5. d \notin Namespaces => d \notin Namespaces'
        BY <4>3 DEF Shrinks, Namespaces
      <4>6. Lapsed(d) <=> Lapsed(d)'
        BY <4>3 DEF Shrinks, Lapsed, Standing
      <4>7. x.op = "acquire" => Lapsed(d)
        <5>1. CASE thread[h].op = "release" /\ thread[h].c = d
          <6>1. Peer(thread[h])
            BY <1>0, Connections DEF Conn
          <6>2. client[d] \in Past
            BY <5>1, <6>1 DEF Peer
          <6> QED
            BY <2>3, <3>2, <6>2 DEF Peer, Past
        <5> QED
          BY <4>3, <5>1
      <4> QED
        BY <2>2, <2>3, <3>2, <4>4, <4>5, <4>6, <4>7 DEF Stage
    <3> QED
      BY <3>1, <3>2
  <2> QED
    BY <2>3, <2>4, <2>5 DEF Conn, Shape
<1> QED
  BY <1>1, <1>2, <1>3

\* What a thread does to one lease keeps what the clients rely on.
LEMMA ClientsStay ==
  ASSUME BrokerInv, NEW h \in Threads, thread[h].pc # "idle",
         NEW CONSTANT d \in Clients, Touch(h, d), Standing,
         \A g \in Threads : thread'[g].c = thread[g].c,
         \A c \in Clients : tombs'[c] # 0 => tombs[c] # 0 \/ (c \notin Namespaces' /\ client[c] \in Past)
  PROVE  ClientInv'
<1>0. ClientInv /\ Peer(thread[h]) /\ thread[h] \in Conns
  BY Connections DEF BrokerInv, TypeInv, ConnInv, Conn
<1>1. ASSUME NEW c \in Clients
      PROVE  /\ client'[c] = "new" => Untouched(c)'
             /\ client'[c] = "acquiring" /\ (\A g \in Threads : thread'[g].c # c) => Untouched(c)'
             /\ client'[c] = "holding" /\ ~ Lapsed(c)' => Intact(c)'
             /\ client'[c] = "released" => c \notin Namespaces'
             /\ tombs'[c] # 0 => c \notin Namespaces' /\ client'[c] \in Past
  <2>0. /\ client[c] = "new" => Untouched(c)
        /\ client[c] = "acquiring" /\ (\A g \in Threads : thread[g].c # c) => Untouched(c)
        /\ client[c] = "holding" /\ ~ Lapsed(c) => Intact(c)
        /\ client[c] = "released" => c \notin Namespaces
        /\ tombs[c] # 0 => c \notin Namespaces /\ client[c] \in Past
    BY <1>0 DEF ClientInv
  <2>1. client'[c] = client[c] /\ (\A g \in Threads : thread'[g].c # c) = (\A g \in Threads : thread[g].c # c)
    BY DEF Standing
  <2>2. CASE c # d \/ Same(d)
    <3>1. Same(c)
      BY <2>2 DEF Touch, Rest, Same
    <3>2. /\ Lapsed(c) <=> Lapsed(c)'
          /\ Untouched(c) <=> Untouched(c)'
          /\ Intact(c) <=> Intact(c)'
          /\ c \in Namespaces <=> c \in Namespaces'
      BY <3>1 DEF Same, Standing, Lapsed, Untouched, Intact, Namespaces
    <3> QED
      BY <2>0, <2>1, <3>2
  <2>3. CASE c = d /\ thread[h].op = "acquire" /\ thread[h].c = d
    <3>1. client[c] \in {"acquiring", "failed"} /\ ~ (\A g \in Threads : thread[g].c # c)
      BY <1>0, <2>3 DEF Peer
    <3>2. client[c] \notin Past
      BY <3>1 DEF Past
    <3> QED
      BY <2>0, <2>1, <3>1, <3>2
  <2>4. CASE c = d /\ Shrinks(d) /\ (Lapsed(d) \/ (thread[h].op = "release" /\ thread[h].c = d))
    <3>1. Untouched(c) => Untouched(c)'
      BY <2>4 DEF Shrinks, Untouched
    <3>2. c \notin Namespaces => c \notin Namespaces'
      BY <2>4 DEF Shrinks, Namespaces
    <3>3. Lapsed(c) <=> Lapsed(c)'
      BY <2>4 DEF Shrinks, Lapsed, Standing
    <3>4. client[c] = "holding" => Lapsed(c)
      BY <1>0, <2>4 DEF Peer, Past
    <3> QED
      BY <2>0, <2>1, <3>1, <3>2, <3>3, <3>4
  <2> QED
    BY <2>2, <2>3, <2>4 DEF Touch
<1> QED
  BY <1>1 DEF ClientInv

\* What a thread does to one lease keeps the tables in agreement.
LEMMA AgreeStays ==
  ASSUME BrokerInv, NEW h \in Threads, thread[h].pc # "idle",
         NEW CONSTANT d \in Clients, Rest(d), Standing, NEW CONSTANT y, thread' = [thread EXCEPT ![h] = y],
         thread[h].pc \in Busy => thread[h].on = d,
         (y.pc \in Busy /\ y.on = d) \/ Agree(d)' \/ faults'.failures # 0
           \/ (thread[h].pc \notin Busy /\ Same(d))
  PROVE  AgreeInv'
<1>0. AgreeInv /\ thread \in [Threads -> Conns \union {Idle}]
  BY DEF BrokerInv, TypeInv
<1>1. thread'[h] = y /\ \A g \in Threads : g # h => thread'[g] = thread[g]
  BY <1>0
<1>2. ASSUME daemon' = "up", faults'.failures = 0, NEW c \in Clients,
             \A g \in Threads : thread'[g].pc \in Busy => thread'[g].on # c
      PROVE  Agree(c)'
  <2>1. CASE c = d /\ ~ (thread[h].pc \notin Busy /\ Same(d))
    BY <1>1, <1>2, <2>1
  <2>2. CASE c # d \/ (thread[h].pc \notin Busy /\ Same(d))
    <3>1. \A g \in Threads : thread[g].pc \in Busy => thread[g].on # c
      BY <1>1, <1>2, <2>2
    <3>2. Agree(c)
      BY <1>0, <1>2, <3>1 DEF AgreeInv, Standing
    <3> QED
      BY <2>2, <3>2 DEF Agree, Rest, Same, Namespaces
  <2> QED
    BY <2>1, <2>2
<1> QED
  BY <1>2 DEF AgreeInv

\* Types of what is on disk and in memory
Stored ==
    /\ expires \in [Clients -> Nat]
    /\ ns \in [Clients -> [mode : Modes, content : Seq(Versions)]]
    /\ records \subseteq Clients /\ leases \subseteq Clients
    /\ faults \in Counts

\* A step of a thread that goes on with its connection.
LEMMA ThreadStep ==
  ASSUME BrokerInv, daemon = "up", NEW h \in Threads, thread[h].pc # "idle",
         NEW CONSTANT d \in Clients, Touch(h, d), Standing, UNCHANGED <<source, cleaning>>, Stored',
         NEW CONSTANT y \in Conns, thread' = [thread EXCEPT ![h] = y],
         y.c = thread[h].c, y.op = thread[h].op, y.peer = thread[h].peer, Conn(y)',
         lock' \in {lock, h, None}, lock \notin {h, None} => lock' = lock,
         y.pc \in Busy => lock' = h, lock' = h => y.pc \in Busy \union {"evict"},
         thread[h].pc \in Busy => thread[h].on = d,
         (y.pc \in Busy /\ y.on = d) \/ Agree(d)' \/ faults'.failures # 0
           \/ (thread[h].pc \notin Busy /\ Same(d)),
         \A c \in Clients : tombs'[c] # 0 => tombs[c] # 0 \/ (c \notin Namespaces' /\ client[c] \in Past)
  PROVE  BrokerInv'
<1>0. TypeInv /\ LockInv /\ PeerInv /\ thread \in [Threads -> Conns \union {Idle}] /\ lock \in Threads \union {None}
  BY DEF BrokerInv, TypeInv
<1>1. /\ thread'[h] = y /\ \A g \in Threads : g # h => thread'[g] = thread[g]
      /\ thread' \in [Threads -> Conns \union {Idle}]
  BY <1>0
<1>2. TypeInv'
  BY <1>0, <1>1 DEF TypeInv, Stored, Standing
<1>3. LockInv'
  <2>1. daemon' = "up" /\ cleaning' = None
    BY <1>0 DEF LockInv, Standing
  <2>2. ASSUME NEW g \in Threads, thread'[g].pc \in Busy PROVE lock' = g
    BY <1>0, <1>1, <2>2, ConstantsAssumption DEF LockInv
  <2>3. ASSUME NEW g \in Threads, lock' = g PROVE thread'[g].pc \in Busy \union {"evict"}
    <3>1. CASE g = h
      BY <1>1, <2>3, <3>1
    <3>2. CASE g # h
      <4>1. lock = g
        BY <2>3, <3>2, ConstantsAssumption
      <4> QED
        BY <1>0, <1>1, <3>2, <4>1 DEF LockInv
    <3> QED
      BY <3>1, <3>2
  <2> QED
    BY <2>1, <2>2, <2>3 DEF LockInv
<1>4. \A g \in Threads : /\ thread'[g].c = thread[g].c /\ thread'[g].op = thread[g].op
                         /\ thread'[g].peer = thread[g].peer
                         /\ thread'[g].pc # "idle" => thread[g].pc # "idle"
  BY <1>1
<1>5. PeerInv'
  BY <1>0, <1>4 DEF PeerInv
<1>6. ConnInv'
  <2>1. ASSUME NEW g \in Threads PROVE Conn(thread[g])'
    <3>1. CASE g = h
      <4>1. Conn(thread[g])' <=> Conn(y)'
        BY <1>1, <3>1 DEF Conn, Shape, Peer, Stage, Tables, Early, Making, Dropping, Dropped, Evicting, Lapsed, Untouched, Intact, Namespaces
      <4> QED
        BY <4>1
    <3>2. CASE g # h
      <4>1. PICK x : x = thread[g]
        OBVIOUS
      <4>2. Conn(x)'
        BY <3>2, <4>1, ConnStays
      <4>3. Conn(thread[g])' <=> Conn(x)'
        BY <1>1, <3>2, <4>1 DEF Conn, Shape, Peer, Stage, Tables, Early, Making, Dropping, Dropped, Evicting, Lapsed, Untouched, Intact, Namespaces
      <4> QED
        BY <4>2, <4>3
    <3> QED
      BY <3>1, <3>2
  <2> QED
    BY <2>1 DEF ConnInv
<1>7. ClientInv'
  BY <1>4, ClientsStay
<1>8. AgreeInv'
  BY AgreeStays DEF Touch
<1> QED
  BY <1>2, <1>3, <1>5, <1>6, <1>7, <1>8 DEF BrokerInv

\* A fault that is counted, if it is a failed file operation
LEMMA Faults ==
  ASSUME TypeInv
  PROVE  /\ faults \in Counts
         /\ Fail => faults' \in Counts /\ faults'.failures # 0
         /\ Fault("crashes") => faults' \in Counts /\ faults'.failures = faults.failures
         /\ Fault("timeouts") => faults' \in Counts /\ faults'.failures = faults.failures
         /\ Fault("edits") => faults' \in Counts /\ faults'.failures = faults.failures
<1>1. faults \in [crashes : Nat, failures : Nat, timeouts : Nat, edits : Nat]
  BY DEF TypeInv, Counts
<1>2. Fail => faults' \in Counts /\ faults'.failures # 0
  <2>1. Fail => faults' = [faults EXCEPT !["failures"] = faults.failures + 1]
    BY <1>1 DEF Fail, Fault
  <2> QED
    BY <1>1, <2>1 DEF Counts
<1>3. Fault("crashes") => faults' \in Counts /\ faults'.failures = faults.failures
  <2>1. Fault("crashes") => faults' = [faults EXCEPT !["crashes"] = faults.crashes + 1]
    BY <1>1 DEF Fault
  <2> QED
    BY <1>1, <2>1 DEF Counts
<1>4. Fault("timeouts") => faults' \in Counts /\ faults'.failures = faults.failures
  <2>1. Fault("timeouts") => faults' = [faults EXCEPT !["timeouts"] = faults.timeouts + 1]
    BY <1>1 DEF Fault
  <2> QED
    BY <1>1, <2>1 DEF Counts
<1>5. Fault("edits") => faults' \in Counts /\ faults'.failures = faults.failures
  <2>1. Fault("edits") => faults' = [faults EXCEPT !["edits"] = faults.edits + 1]
    BY <1>1 DEF Fault
  <2> QED
    BY <1>1, <2>1 DEF Counts
<1> QED
  BY <1>1, <1>2, <1>3, <1>4, <1>5 DEF Counts

\* The store, the table and what is around them stand still.
Unmoved == UNCHANGED <<client, now, source, daemon, cleaning, ns, records, expires, leases>>

\* Nothing is written to the store.
LEMMA QuietStep ==
  ASSUME BrokerInv, daemon = "up", NEW h \in Threads, thread[h].pc # "idle", Unmoved,
         faults' = faults \/ Fail,
         NEW CONSTANT y \in Conns, thread' = [thread EXCEPT ![h] = y],
         y.c = thread[h].c, y.op = thread[h].op, y.peer = thread[h].peer, Conn(y)',
         lock' \in {lock, h, None}, lock \notin {h, None} => lock' = lock,
         y.pc \in Busy => lock' = h, lock' = h => y.pc \in Busy \union {"evict"},
         thread[h].pc \in Busy => (y.pc \in Busy /\ y.on = thread[h].on) \/ faults'.failures # 0,
         \A c \in Clients : tombs'[c] # 0 => tombs[c] # 0 \/ (c \notin Namespaces' /\ client[c] \in Past)
  PROVE  BrokerInv'
<1>0. TypeInv /\ thread[h] \in Conns /\ faults \in Counts
  BY Connections DEF BrokerInv, TypeInv
<1>1. PICK d \in Clients : d = thread[h].on
  BY <1>0 DEF Conns
<1>2. Touch(h, d) /\ Same(d)
  BY DEF Unmoved, Touch, Rest, Same
<1>3. Standing /\ UNCHANGED <<source, cleaning>>
  BY <1>0, Faults DEF Unmoved, Standing
<1>4. Stored'
  BY <1>0, Faults DEF Unmoved, TypeInv, Stored
<1>5. \/ (y.pc \in Busy /\ y.on = d) \/ faults'.failures # 0
      \/ (thread[h].pc \notin Busy /\ Same(d))
  BY <1>1, <1>2
<1> QED
  BY <1>1, <1>2, <1>3, <1>4, <1>5, ThreadStep

\* What is known of a thread at one of its stages.
LEMMA Serving ==
  ASSUME BrokerInv, NEW h \in Threads, NEW pc, At(h, pc), pc # "idle"
  PROVE  /\ daemon = "up" /\ thread[h].pc = pc /\ thread[h] \in Conns /\ TypeInv
         /\ Shape(thread[h]) /\ Peer(thread[h]) /\ Stage(thread[h]) /\ Tables(thread[h])
         /\ pc \in Busy => lock = h
         /\ lock \in {h, None} \/ pc \notin Busy
<1>1. daemon = "up" /\ thread[h].pc = pc /\ TypeInv /\ LockInv /\ thread[h] \in Conns \union {Idle} /\ Conn(thread[h])
  BY DEF BrokerInv, At, TypeInv, ConnInv
<1>2. thread[h] \in Conns /\ thread[h] # Idle
  BY <1>1, Connections
<1> QED
  BY <1>1, <1>2 DEF Conn, LockInv

\* A handler that raises keeps the invariant.
LEMMA RaiseStep ==
  ASSUME BrokerInv, daemon = "up", NEW h \in Threads, thread[h].pc # "idle", Unmoved,
         Raise(h), faults' = faults \/ Fail, thread[h].pc \in Busy => Fail,
         \A c \in Clients : tombs'[c] # 0 => tombs[c] # 0 \/ (c \notin Namespaces' /\ client[c] \in Past)
  PROVE  BrokerInv'
<1>0. TypeInv /\ LockInv /\ Conn(thread[h]) /\ thread[h] # Idle
  BY Connections DEF BrokerInv, ConnInv, TypeInv
<1>1. PICK pc \in Pcs : pc = "error"
  BY DEF Pcs
<1>2. PICK y \in Conns : /\ thread' = [thread EXCEPT ![h] = y]
                         /\ y.pc = pc /\ y.c = thread[h].c /\ y.op = thread[h].op /\ y.peer = thread[h].peer
  BY <1>0, <1>1, GoIs DEF Raise
<1>3. Conn(y)'
  <2>1. Shape(y)' /\ Stage(y)' /\ Tables(y)'
    BY <1>1, <1>2 DEF Shape, Stage, Tables, Early, Making, Dropping, Dropped, Evicting, Busy
  <2>2. Peer(thread[h])
    BY <1>0 DEF Conn
  <2>3. Peer(y)'
    BY <1>2, <2>2 DEF Peer, Unmoved
  <2> QED
    BY <2>1, <2>3 DEF Conn
<1>4. /\ lock' \in {lock, h, None} /\ (lock \notin {h, None} => lock' = lock) /\ lock' # h
      /\ y.pc \notin Busy
  BY <1>1, <1>2, ConstantsAssumption DEF Raise, Busy
<1>5. thread[h].pc \in Busy => faults'.failures # 0
  BY <1>0, Faults
<1> QED
  BY <1>2, <1>3, <1>4, <1>5, QuietStep

\* A thread outside the store goes on to another place outside it.
LEMMA OutsideStep ==
  ASSUME BrokerInv, daemon = "up", NEW h \in Threads, Unmoved, UNCHANGED faults,
         NEW CONSTANT pc, pc \in Pcs \ Busy, Go(h, pc), thread[h].pc \notin Busy \union {"idle"},
         lock' \in {lock, None}, lock \notin {h, None} => lock' = lock,
         lock' = h => pc = "evict",
         \A c \in Clients : tombs'[c] # 0 => tombs[c] # 0,
         pc \in {"acquire", "rollback"} => thread[h].op = "acquire",
         pc = "release" => thread[h].op = "release",
         thread[h].op = "acquire" /\ pc \in {"evict", "check", "consume", "noncing", "acquire"} => Early(thread[h]),
         pc = "answer" => thread[h].op = "release" /\ thread[h].c \notin Namespaces
  PROVE  BrokerInv'
<1>0. TypeInv /\ LockInv /\ Conn(thread[h]) /\ thread[h] # Idle
  BY Connections DEF BrokerInv, ConnInv, TypeInv
<1>2. PICK y \in Conns : /\ thread' = [thread EXCEPT ![h] = y]
                         /\ y.pc = pc /\ y.c = thread[h].c /\ y.op = thread[h].op /\ y.peer = thread[h].peer
  BY <1>0, GoIs
<1>3. Shape(thread[h]) /\ Peer(thread[h]) /\ Stage(thread[h])
  BY <1>0 DEF Conn
<1>4. ~ Making(y) /\ ~ Evicting(y) /\ ~ Dropping(y) /\ ~ Dropped(y) /\ y.pc \notin Busy /\ y.pc \notin {"rolled", "cleaned", "removing"}
  BY <1>2 DEF Making, Evicting, Dropping, Dropped, Busy
<1>5. Shape(y)' /\ Tables(y)'
  BY <1>2, <1>4 DEF Shape, Tables, Making, Evicting, Dropping, Dropped, Busy
<1>6. Peer(y)'
  BY <1>2, <1>3 DEF Peer, Unmoved
<1>7. Stage(y)'
  <2>1. y.op = "acquire" /\ Early(y) => Untouched(y.c)
    BY <1>2, <1>3, <1>4 DEF Stage, Early
  <2>2. Untouched(y.c) => Untouched(y.c)'
    BY DEF Untouched, Unmoved
  <2>3. y.pc = "answer" => y.op = "release" /\ y.c \notin Namespaces'
    BY <1>2 DEF Namespaces, Unmoved
  <2>4. Early(y) <=> Early(y)'
    BY DEF Early, Evicting
  <2> QED
    BY <1>2, <1>4, <2>1, <2>2, <2>3, <2>4 DEF Stage, Making, Evicting, Busy, Ops
<1> QED
  BY <1>2, <1>4, <1>5, <1>6, <1>7, QuietStep, ConstantsAssumption DEF Conn

\* A lease in the table whose namespace is sealed begins to be removed.
LEMMA RemoveStep ==
  ASSUME BrokerInv, daemon = "up", NEW h \in Threads, thread[h].pc \notin Busy \union {"idle"}, lock \in {h, None},
         NEW CONSTANT c \in Clients, NEW CONSTANT n \in {"evicted", "cleaned", "rolled"},
         BeginRemove(h, c, n), c \in leases,
         UNCHANGED <<client, now, source, daemon, cleaning, records, expires, leases, tombs, faults>>,
         n = "evicted" => Lapsed(c) /\ (thread[h].op = "acquire" => Early(thread[h])),
         n = "cleaned" => c = thread[h].c /\ thread[h].op = "release",
         n = "rolled" => c = thread[h].c /\ thread[h].op = "acquire"
  PROVE  BrokerInv'
<1>0. TypeInv /\ LockInv /\ AgreeInv /\ Conn(thread[h]) /\ thread[h] # Idle /\ c \in Clients
  BY Connections DEF BrokerInv, ConnInv, TypeInv
<1>1. CASE ns[c].mode # "sealed" /\ Raise(h) /\ UNCHANGED ns
  BY <1>0, <1>1, RaiseStep DEF Unmoved, TypeInv
<1>2. CASE /\ ns[c].mode = "sealed" /\ ns' = Opened(c) /\ lock' = h
           /\ thread' = [thread EXCEPT ![h].pc = "removing", ![h].on = c, ![h].next = n]
  <2>1. PICK pc \in Pcs : pc = "removing"
    BY DEF Pcs
  <2>2. n \in Nexts
    BY DEF Nexts
  <2>3. PICK y \in Conns : /\ thread' = [thread EXCEPT ![h] = y]
                           /\ y.pc = pc /\ y.c = thread[h].c /\ y.op = thread[h].op /\ y.peer = thread[h].peer
                           /\ y.on = c /\ y.next = n
    <3>1. Aim(h, pc, c, n)
      BY <1>2, <2>1 DEF Aim
    <3>2. thread[h].pc # "idle"
      OBVIOUS
    <3> QED
      BY <1>0, <2>2, <3>1, <3>2, AimIs
  <2>4. /\ ns' \in [Clients -> [mode : Modes, content : Seq(Versions)]]
        /\ ns'[c].mode = "open" /\ \A d \in Clients : d # c => ns'[d] = ns[d]
    BY <1>0, <1>2 DEF TypeInv, Opened, Modes
  <2>5. Standing /\ Stored' /\ UNCHANGED <<source, cleaning>>
    BY <1>0, <2>4 DEF Standing, Stored, TypeInv
  <2>6. Shape(thread[h]) /\ Peer(thread[h]) /\ Stage(thread[h])
    BY <1>0 DEF Conn
  <2>7. thread[h].op = "acquire" /\ thread[h].c = c => n = "rolled"
    <3>1. n = "evicted" /\ thread[h].op = "acquire" => Untouched(thread[h].c)
      BY <2>6 DEF Stage
    <3> QED
      BY <3>1 DEF Untouched
  <2>8. Touch(h, c)
    <3>1. Rest(c)
      BY <2>4 DEF Rest
    <3>2. Shrinks(c)
      <4>1. ns[c].mode # "absent" /\ ns[c] # Absent
        BY <1>2 DEF Absent
      <4> QED
        BY <4>1 DEF Shrinks
    <3> QED
      BY <3>1, <3>2 DEF Touch
  <2>9. Shape(y)'
    BY <2>1, <2>3 DEF Shape, Making, Evicting, Busy
  <2>10. Peer(y)'
    BY <2>3, <2>6 DEF Peer
  <2>11. Stage(y)'
    <3>1. Evicting(y) => Lapsed(c)'
      BY <2>1, <2>3 DEF Evicting, Lapsed
    <3>2. y.op = "acquire" /\ Early(y) => Untouched(y.c)'
      <4>1. SUFFICES ASSUME y.op = "acquire", Early(y) PROVE Untouched(y.c)'
        OBVIOUS
      <4>2. n = "evicted"
        BY <2>1, <2>3, <4>1 DEF Early, Evicting
      <4>3. Untouched(thread[h].c)
        BY <2>3, <2>6, <4>1, <4>2 DEF Stage
      <4>4. y.c # c /\ y.c \in Clients
        BY <2>3, <4>3 DEF Untouched, Conns
      <4> QED
        BY <2>3, <2>4, <4>3, <4>4 DEF Untouched
    <3>3. Early(y) <=> Early(y)'
      BY DEF Early, Evicting
    <3> QED
      BY <2>1, <2>3, <2>4, <3>1, <3>2, <3>3 DEF Stage, Making, Evicting
  <2>12. Tables(y)'
    <3>1. ASSUME faults.failures = 0 PROVE c \in records
      <4>1. \A g \in Threads : thread[g].pc \notin Busy
        BY <1>0, ConstantsAssumption DEF LockInv
      <4>2. Agree(c)
        BY <1>0, <3>1, <4>1 DEF AgreeInv
      <4> QED
        BY <4>2 DEF Agree
    <3> QED
      BY <2>1, <2>3, <3>1 DEF Tables, Making, Dropping, Dropped
  <2>13. y.pc \in Busy
    BY <2>1, <2>3 DEF Busy
  <2> QED
    BY <1>2, <2>3, <2>5, <2>8, <2>9, <2>10, <2>11, <2>12, <2>13, ThreadStep DEF Conn
<1> QED
  BY <1>1, <1>2 DEF BeginRemove

-----------------------------------------------------------------------------
(* The steps of handle_connection *)

\* _evict_expired_leases keeps the invariant: only a lapsed lease is removed.
LEMMA EvictStep ==
  ASSUME BrokerInv, NEW h \in Threads, Evict(h)
  PROVE  BrokerInv'
<1>0. /\ daemon = "up" /\ thread[h].pc = "evict" /\ thread[h] \in Conns /\ TypeInv /\ LockInv /\ AgreeInv
      /\ lock \in {h, None} /\ Shape(thread[h]) /\ Peer(thread[h]) /\ Stage(thread[h])
  BY Serving DEF Evict, LeaseLockFree, BrokerInv
<1>1. /\ UNCHANGED <<client, now, source, daemon, cleaning, records, expires, leases, tombs, faults>>
      /\ thread[h].pc \notin Busy \union {"idle"} /\ Early(thread[h])
  BY <1>0 DEF Evict, outside, memory, Busy, Early
<1>2. CASE Go(h, "check") /\ lock' = None /\ UNCHANGED ns
  <2>1. PICK pc : pc = "check"
    OBVIOUS
  <2>2. pc \in Pcs \ Busy
    BY <2>1 DEF Pcs, Busy
  <2>3. Unmoved
    BY <1>1, <1>2 DEF Unmoved
  <2> QED
    BY <1>0, <1>1, <1>2, <2>1, <2>2, <2>3, OutsideStep, ConstantsAssumption
<1>3. ASSUME NEW c \in leases, Lapsed(c), c \in Namespaces, BeginRemove(h, c, "evicted") PROVE BrokerInv'
  <2>1. PICK n \in {"evicted", "cleaned", "rolled"} : n = "evicted"
    OBVIOUS
  <2>2. c \in Clients
    BY <1>0 DEF TypeInv
  <2> QED
    BY <1>0, <1>1, <1>3, <2>1, <2>2, RemoveStep
<1>4. ASSUME NEW c \in leases, Lapsed(c), c \notin Namespaces, lock' = h, UNCHANGED ns,
             thread' = [thread EXCEPT ![h].pc = "evicted", ![h].on = c]
      PROVE  BrokerInv'
  <2>1. PICK pc \in Pcs : pc = "evicted"
    BY DEF Pcs
  <2>2. c \in Clients /\ thread[h].next \in Nexts
    BY <1>0 DEF TypeInv, Conns
  <2>3. PICK y \in Conns : /\ thread' = [thread EXCEPT ![h] = y]
                           /\ y.pc = pc /\ y.c = thread[h].c /\ y.op = thread[h].op /\ y.peer = thread[h].peer
                           /\ y.on = c /\ y.next = thread[h].next
    <3>1. AimOn(h, pc, c)
      BY <1>4, <2>1 DEF AimOn
    <3>2. thread[h].pc # "idle"
      BY <1>0
    <3> QED
      BY <1>0, <2>2, <3>1, <3>2, AimOnIs
  <2>4. Unmoved
    BY <1>1, <1>4 DEF Unmoved
  <2>5. Shape(y)'
    BY <2>1, <2>3 DEF Shape, Making, Evicting, Busy
  <2>6. Peer(y)'
    BY <1>0, <1>1, <2>3 DEF Peer
  <2>7. Stage(y)'
    <3>1. Lapsed(c)'
      BY <1>1, <1>4 DEF Lapsed
    <3>2. y.op = "acquire" => Untouched(y.c)'
      BY <1>0, <1>1, <1>4, <2>3 DEF Stage, Untouched
    <3> QED
      BY <2>1, <2>3, <3>1, <3>2 DEF Stage, Making, Evicting
  <2>8. Tables(y)'
    <3>1. faults.failures # 0
      <4>1. \A g \in Threads : thread[g].pc \notin Busy
        BY <1>0, <1>1, ConstantsAssumption DEF LockInv
      <4>2. faults.failures = 0 => Agree(c)
        BY <1>0, <2>2, <4>1 DEF AgreeInv
      <4> QED
        BY <1>4, <4>2 DEF Agree
    <3> QED
      BY <1>1, <3>1 DEF Tables
  <2>9. y.pc \in Busy
    BY <2>1, <2>3 DEF Busy
  <2> QED
    BY <1>0, <1>1, <1>4, <2>3, <2>4, <2>5, <2>6, <2>7, <2>8, <2>9, QuietStep DEF Conn
<1> QED
  BY <1>2, <1>3, <1>4 DEF Evict

\* A record is deleted once its namespace is gone.
LEMMA ForgetStep ==
  ASSUME BrokerInv, NEW h \in Threads, NEW CONSTANT pc \in {"evicted", "cleaned", "rolled"}, At(h, pc),
         NEW CONSTANT next, Forget(h, next),
         pc = "evicted" => next = "evict", pc = "cleaned" => next = "answer", pc = "rolled" => next = "error",
         UNCHANGED <<client, now, source, daemon, cleaning, ns, expires>>,
         \A c \in Clients : tombs'[c] # 0 => tombs[c] # 0 \/ (c \notin Namespaces' /\ client[c] \in Past)
  PROVE  BrokerInv'
<1>0. /\ daemon = "up" /\ thread[h].pc = pc /\ thread[h] \in Conns /\ TypeInv /\ lock = h
      /\ Shape(thread[h]) /\ Peer(thread[h]) /\ Stage(thread[h]) /\ Tables(thread[h])
      /\ pc \in Busy
  <2>1. pc # "idle" /\ pc \in Busy
    BY DEF Busy
  <2> QED
    BY <2>1, Serving
<1>1. CASE Fail /\ Raise(h) /\ UNCHANGED <<records, leases>>
  BY <1>0, <1>1, RaiseStep DEF Unmoved
<1>2. CASE /\ records' = records \ {thread[h].on} /\ leases' = leases \ {thread[h].on}
           /\ Go(h, next) /\ lock' = (IF next = "evict" THEN h ELSE None) /\ UNCHANGED faults
  <2>1. next \in Pcs /\ next \notin Busy
    BY DEF Pcs, Busy
  <2>2. PICK y \in Conns : /\ thread' = [thread EXCEPT ![h] = y]
                           /\ y.pc = next /\ y.c = thread[h].c /\ y.op = thread[h].op /\ y.peer = thread[h].peer
                           /\ y.on = thread[h].on /\ y.next = thread[h].next
    BY <1>0, <1>2, <2>1, GoIs
  <2>3. PICK d \in Clients : d = thread[h].on
    BY <1>0 DEF Conns
  <2>4. Standing /\ Stored' /\ UNCHANGED <<source, cleaning>>
    BY <1>0, <1>2 DEF Standing, Stored, TypeInv
  <2>5. Touch(h, d)
    <3>1. Rest(d) /\ Shrinks(d)
      BY <1>2, <2>3 DEF Rest, Shrinks
    <3>2. pc = "evicted" => Lapsed(d)
      BY <1>0, <2>3 DEF Stage, Evicting
    <3>3. pc # "evicted" => d = thread[h].c
      BY <1>0, <2>3 DEF Shape, Evicting
    <3>4. (pc = "cleaned" => thread[h].op = "release") /\ (pc = "rolled" => thread[h].op = "acquire")
      BY <1>0 DEF Shape
    <3> QED
      BY <1>0, <3>1, <3>2, <3>3, <3>4 DEF Touch
  <2>6. ~ Making(y) /\ ~ Evicting(y) /\ ~ Dropping(y) /\ ~ Dropped(y)
    BY <2>2 DEF Making, Evicting, Dropping, Dropped
  <2>7. Shape(y)' /\ Tables(y)'
    BY <2>1, <2>2, <2>6 DEF Shape, Tables, Making, Evicting, Dropping, Dropped
  <2>8. Peer(y)'
    BY <1>0, <2>2 DEF Peer
  <2>9. Stage(y)'
    <3>1. y.op = "acquire" /\ next = "evict" => Untouched(y.c)'
      <4>1. pc = "evicted" /\ thread[h].op = "acquire" => Untouched(thread[h].c)
        BY <1>0 DEF Stage, Early, Evicting
      <4> QED
        BY <1>2, <2>2, <4>1 DEF Untouched
    <3>2. next = "answer" => y.op = "release" /\ y.c \notin Namespaces'
      <4>1. pc = "cleaned" => thread[h].op = "release" /\ thread[h].c \notin Namespaces
        BY <1>0 DEF Stage, Shape
      <4> QED
        BY <2>2, <4>1 DEF Namespaces
    <3>3. next \in {"evict", "answer", "error"}
      OBVIOUS
    <3> QED
      BY <2>2, <2>6, <3>1, <3>2, <3>3 DEF Stage, Early, Making, Evicting
  <2>10. Agree(d)' \/ faults'.failures # 0
    <3>1. faults.failures = 0 => d \notin Namespaces
      BY <1>0, <2>3 DEF Tables, Dropped
    <3> QED
      BY <1>2, <2>3, <3>1 DEF Agree, Namespaces
  <2>11. /\ lock' \in {lock, h, None} /\ (lock \notin {h, None} => lock' = lock)
         /\ (y.pc \in Busy => lock' = h) /\ (lock' = h => y.pc \in Busy \union {"evict"})
    BY <1>0, <1>2, <2>1, <2>2, ConstantsAssumption
  <2> QED
    BY <1>0, <2>2, <2>3, <2>4, <2>5, <2>7, <2>8, <2>9, <2>10, <2>11, ThreadStep DEF Conn
<1> QED
  BY <1>1, <1>2 DEF Forget

\* The end of an eviction keeps the invariant.
LEMMA EvictedStep ==
  ASSUME BrokerInv, NEW h \in Threads, Evicted(h)
  PROVE  BrokerInv'
<1>1. UNCHANGED <<client, now, source, daemon, cleaning, ns, expires, tombs>>
  BY DEF Evicted, outside
<1>3. PICK pc, next : pc \in {"evicted", "cleaned", "rolled"} /\ pc = "evicted" /\ next = "evict"
  OBVIOUS
<1>4. At(h, pc) /\ Forget(h, next)
  BY <1>3 DEF Evicted
<1> QED
  BY <1>1, <1>3, <1>4, ForgetStep

\* The end of a roll back keeps the invariant.
LEMMA RolledStep ==
  ASSUME BrokerInv, NEW h \in Threads, RolledBack(h)
  PROVE  BrokerInv'
<1>1. UNCHANGED <<client, now, source, daemon, cleaning, ns, expires, tombs>>
  BY DEF RolledBack, outside
<1>3. PICK pc, next : pc \in {"evicted", "cleaned", "rolled"} /\ pc = "rolled" /\ next = "error"
  OBVIOUS
<1>4. At(h, pc) /\ Forget(h, next)
  BY <1>3 DEF RolledBack
<1> QED
  BY <1>1, <1>3, <1>4, ForgetStep

\* The end of a release keeps the invariant, and its tombstone is true.
LEMMA CleanedStep ==
  ASSUME BrokerInv, NEW h \in Threads, Cleaned(h)
  PROVE  BrokerInv'
<1>1. UNCHANGED <<client, now, source, daemon, cleaning, ns, expires>>
  BY DEF Cleaned, outside
<1>2. PICK pc, next : pc \in {"evicted", "cleaned", "rolled"} /\ pc = "cleaned" /\ next = "answer"
  OBVIOUS
<1>3. At(h, pc) /\ Forget(h, next) /\ Remember(thread[h].c)
  BY <1>2 DEF Cleaned
<1>4. thread[h] \in Conns /\ Shape(thread[h]) /\ Peer(thread[h]) /\ Stage(thread[h]) /\ TypeInv /\ thread[h].pc = pc
  BY <1>2, <1>3, Serving
<1>5. PICK c \in Clients : c = thread[h].c
  BY <1>4 DEF Conns
<1>6. c \notin Namespaces' /\ client[c] \in Past
  <2>1. c \notin Namespaces /\ thread[h].op = "release"
    BY <1>2, <1>4, <1>5 DEF Stage, Shape
  <2> QED
    BY <1>1, <1>4, <1>5, <2>1 DEF Namespaces, Peer
<1>7. \A d \in Clients : d # c /\ tombs'[d] # 0 => tombs[d] # 0
  <2>1. PICK kept, m : /\ kept \subseteq Tombstones
                       /\ tombs' = [d \in Clients |-> IF d = c THEN m ELSE IF d \in kept THEN tombs[d] ELSE 0]
    BY <1>3, <1>5 DEF Remember
  <2> QED
    BY <2>1 DEF Tombstones
<1> QED
  BY <1>1, <1>2, <1>3, <1>6, <1>7, ForgetStep

\* The second step of a removal keeps the invariant.
LEMMA RemovingStep ==
  ASSUME BrokerInv, NEW h \in Threads, Removing(h)
  PROVE  BrokerInv'
<1>0. /\ daemon = "up" /\ thread[h].pc = "removing" /\ thread[h] \in Conns /\ TypeInv /\ lock = h
      /\ Shape(thread[h]) /\ Peer(thread[h]) /\ Stage(thread[h]) /\ Tables(thread[h])
  BY Serving DEF Removing, Busy
<1>1. UNCHANGED <<client, now, source, daemon, cleaning, records, expires, leases, tombs>>
  BY DEF Removing, outside, memory
<1>2. CASE Fail /\ Raise(h) /\ UNCHANGED ns
  BY <1>0, <1>1, <1>2, RaiseStep DEF Unmoved
<1>3. CASE /\ ns' = Gone(thread[h].on) /\ Go(h, thread[h].next)
           /\ lock' = (IF thread[h].next = "error" THEN None ELSE h) /\ UNCHANGED faults
  <2>1. PICK next : next = thread[h].next
    OBVIOUS
  <2>2. next \in {"evicted", "cleaned", "rolled", "error"} /\ next \in Pcs
    BY <1>0, <2>1 DEF Shape, Conns, Nexts, Pcs
  <2>3. PICK y \in Conns : /\ thread' = [thread EXCEPT ![h] = y]
                           /\ y.pc = next /\ y.c = thread[h].c /\ y.op = thread[h].op /\ y.peer = thread[h].peer
                           /\ y.on = thread[h].on /\ y.next = thread[h].next
    BY <1>0, <1>3, <2>1, <2>2, GoIs
  <2>4. PICK d \in Clients : d = thread[h].on
    BY <1>0 DEF Conns
  <2>5. /\ ns' \in [Clients -> [mode : Modes, content : Seq(Versions)]]
        /\ ns'[d] = Absent /\ \A c \in Clients : c # d => ns'[c] = ns[c]
    <3>1. Absent \in [mode : Modes, content : Seq(Versions)]
      BY DEF Absent, Modes
    <3> QED
      BY <1>0, <1>3, <2>4, <3>1 DEF TypeInv, Gone
  <2>6. Standing /\ Stored' /\ UNCHANGED <<source, cleaning>>
    BY <1>0, <1>1, <1>3, <2>5 DEF Standing, Stored, TypeInv
  <2>7. ns[d].mode = "open" /\ d \notin Namespaces'
    BY <1>0, <2>4, <2>5 DEF Stage, Namespaces, Absent
  <2>8. Touch(h, d)
    <3>1. Rest(d) /\ Shrinks(d)
      BY <1>1, <2>4, <2>5, <2>7 DEF Rest, Shrinks, Absent
    <3>2. next = "evicted" => Lapsed(d)
      BY <1>0, <2>1, <2>4 DEF Stage, Evicting
    <3>3. next # "evicted" => d = thread[h].c
      BY <1>0, <2>1, <2>4 DEF Shape, Evicting, Busy
    <3>4. (next = "cleaned" => thread[h].op = "release") /\ (next \in {"rolled", "error"} => thread[h].op = "acquire")
      BY <1>0, <2>1 DEF Shape, Making
    <3> QED
      BY <1>0, <2>2, <3>1, <3>2, <3>3, <3>4 DEF Touch
  <2>9. Shape(y)'
    BY <1>0, <2>1, <2>2, <2>3 DEF Shape, Making, Evicting, Busy
  <2>10. Peer(y)'
    BY <1>0, <1>1, <2>3 DEF Peer
  <2>11. Stage(y)'
    <3>1. next = "evicted" => Lapsed(y.on)'
      BY <1>0, <1>1, <2>1, <2>3 DEF Stage, Evicting, Lapsed
    <3>2. y.op = "acquire" /\ next = "evicted" => Untouched(y.c)'
      <4>1. thread[h].op = "acquire" /\ next = "evicted" => Untouched(thread[h].c)
        BY <1>0, <2>1 DEF Stage, Early, Evicting
      <4>2. thread[h].c \in Clients
        BY <1>0 DEF Conns
      <4> QED
        BY <1>1, <2>3, <2>5, <4>1, <4>2 DEF Untouched
    <3>3. next = "cleaned" => y.c = d
      BY <1>0, <2>1, <2>3, <2>4 DEF Shape, Evicting, Busy
    <3> QED
      BY <2>2, <2>3, <2>7, <3>1, <3>2, <3>3 DEF Stage, Making, Evicting, Early
  <2>12. Tables(y)'
    <3>1. faults.failures = 0 /\ next # "error" => d \in leases /\ d \in records
      BY <1>0, <2>1, <2>4 DEF Tables, Dropping
    <3> QED
      BY <1>1, <1>3, <2>2, <2>3, <2>4, <2>7, <3>1 DEF Tables, Making, Dropping, Dropped
  <2>13. (y.pc \in Busy /\ y.on = d) \/ Agree(d)' \/ faults'.failures # 0
    <3>1. CASE next # "error"
      BY <2>2, <2>3, <2>4, <3>1 DEF Busy
    <3>2. CASE next = "error" /\ faults.failures = 0
      <4>1. Making(thread[h]) /\ d = thread[h].c
        BY <1>0, <2>1, <2>4, <3>2 DEF Making, Shape, Evicting, Busy
      <4>2. d \notin records /\ d \notin leases
        BY <1>0, <3>2, <4>1 DEF Tables, Stage
      <4> QED
        BY <1>1, <2>7, <4>2 DEF Agree
    <3> QED
      BY <1>3, <3>1, <3>2
  <2>14. /\ lock' \in {lock, h, None}
         /\ (y.pc \in Busy => lock' = h) /\ (lock' = h => y.pc \in Busy \union {"evict"})
    BY <1>0, <1>3, <2>1, <2>2, <2>3, ConstantsAssumption DEF Busy
  <2> QED
    BY <1>0, <1>1, <2>3, <2>4, <2>6, <2>8, <2>9, <2>10, <2>11, <2>12, <2>13, <2>14, ThreadStep DEF Conn
<1> QED
  BY <1>2, <1>3 DEF Removing

\* validate_request keeps the invariant: a cached answer is a true one.
LEMMA CheckStep ==
  ASSUME BrokerInv, NEW h \in Threads, Check(h)
  PROVE  BrokerInv'
<1>0. /\ daemon = "up" /\ thread[h].pc = "check" /\ thread[h] \in Conns /\ TypeInv /\ LockInv /\ ClientInv
      /\ lock # h
  BY Serving DEF Check, BrokerInv, LockInv, Busy
<1>1. Unmoved /\ UNCHANGED faults /\ thread[h].pc \notin Busy \union {"idle"} /\ Early(thread[h])
  BY <1>0 DEF Check, Unmoved, outside, disk, Busy, Early
<1>2. CASE Raise(h) /\ UNCHANGED tombs
  BY <1>0, <1>1, <1>2, RaiseStep
<1>3. CASE Go(h, "consume") /\ UNCHANGED lock /\ \A c \in Clients : tombs'[c] # 0 => tombs[c] # 0
  <2>1. PICK pc : pc = "consume"
    OBVIOUS
  <2>2. pc \in Pcs \ Busy
    BY <2>1 DEF Pcs, Busy
  <2> QED
    BY <1>0, <1>1, <1>3, <2>1, <2>2, OutsideStep
<1>4. CASE /\ thread[h].op = "release" /\ tombs' = Remembered /\ UNCHANGED lock
           /\ Go(h, IF Cached(thread[h].c) THEN "answer" ELSE "consume")
  <2>1. \A c \in Clients : tombs'[c] # 0 => tombs[c] # 0
    BY <1>4 DEF Remembered
  <2>2. CASE ~ Cached(thread[h].c)
    BY <1>3, <1>4, <2>1, <2>2
  <2>3. CASE Cached(thread[h].c)
    <3>1. PICK pc : pc = "answer"
      OBVIOUS
    <3>2. pc \in Pcs \ Busy
      BY <3>1 DEF Pcs, Busy
    <3>3. thread[h].c \in Clients
      BY <1>0 DEF Conns
    <3>4. thread[h].c \notin Namespaces
      BY <1>0, <2>3, <3>3 DEF Cached, Remembered, ClientInv
    <3> QED
      BY <1>0, <1>1, <1>4, <2>1, <2>3, <3>1, <3>2, <3>4, OutsideStep
  <2> QED
    BY <2>2, <2>3
<1> QED
  BY <1>2, <1>3, <1>4 DEF Check

\* The nonce store keeps the invariant.
LEMMA ConsumeStep ==
  ASSUME BrokerInv, NEW h \in Threads, Consume(h)
  PROVE  BrokerInv'
<1>0. daemon = "up" /\ thread[h].pc = "consume" /\ TypeInv /\ LockInv /\ lock # h
  BY Serving DEF Consume, BrokerInv, LockInv, Busy
<1>1. Unmoved /\ UNCHANGED <<faults, tombs>> /\ thread[h].pc \notin Busy \union {"idle"} /\ Early(thread[h])
  BY <1>0 DEF Consume, Unmoved, outside, memory, Busy, Early
<1>2. CASE Raise(h)
  BY <1>0, <1>1, <1>2, RaiseStep
<1>3. CASE Go(h, "noncing") /\ UNCHANGED lock
  <2>1. PICK pc : pc = "noncing"
    OBVIOUS
  <2>2. pc \in Pcs \ Busy
    BY <2>1 DEF Pcs, Busy
  <2> QED
    BY <1>0, <1>1, <1>3, <2>1, <2>2, OutsideStep
<1> QED
  BY <1>2, <1>3 DEF Consume

\* The write of a nonce keeps the invariant.
LEMMA WriteNonceStep ==
  ASSUME BrokerInv, NEW h \in Threads, WriteNonce(h)
  PROVE  BrokerInv'
<1>0. daemon = "up" /\ thread[h].pc = "noncing" /\ TypeInv /\ LockInv /\ lock # h /\ thread[h] \in Conns
  BY Serving DEF WriteNonce, BrokerInv, LockInv, Busy
<1>1. Unmoved /\ UNCHANGED tombs /\ thread[h].pc \notin Busy \union {"idle"} /\ Early(thread[h])
  BY <1>0 DEF WriteNonce, Unmoved, outside, memory, Busy, Early
<1>2. CASE Fail /\ Raise(h)
  BY <1>0, <1>1, <1>2, RaiseStep
<1>3. CASE Go(h, thread[h].op) /\ UNCHANGED <<lock, faults>>
  <2>1. PICK pc : pc = thread[h].op
    OBVIOUS
  <2>2. pc \in Pcs \ Busy /\ pc \in {"acquire", "release"}
    BY <1>0, <2>1 DEF Pcs, Busy, Ops, Conns
  <2> QED
    BY <1>0, <1>1, <1>3, <2>1, <2>2, OutsideStep
<1> QED
  BY <1>2, <1>3 DEF WriteNonce

\* The start of _acquire keeps the invariant.
LEMMA BeginAcquireStep ==
  ASSUME BrokerInv, NEW h \in Threads, BeginAcquire(h)
  PROVE  BrokerInv'
<1>0. /\ daemon = "up" /\ thread[h].pc = "acquire" /\ thread[h] \in Conns /\ TypeInv /\ lock \in {h, None}
      /\ Shape(thread[h]) /\ Peer(thread[h]) /\ Stage(thread[h])
  BY Serving DEF BeginAcquire, LeaseLockFree
<1>1. /\ UNCHANGED <<client, now, source, daemon, cleaning, records, expires, leases, tombs, faults>>
      /\ thread[h].pc \notin Busy \union {"idle"}
  BY <1>0 DEF BeginAcquire, outside, memory, Busy
<1>2. CASE Raise(h) /\ UNCHANGED ns
  BY <1>0, <1>1, <1>2, RaiseStep DEF Unmoved
<1>3. CASE /\ ns' = [ns EXCEPT ![thread[h].c].mode = "open"] /\ lock' = h
           /\ thread' = [thread EXCEPT ![h].pc = "copying", ![h].on = thread[h].c]
  <2>1. PICK pc \in Pcs : pc = "copying"
    BY DEF Pcs
  <2>2. PICK c \in Clients : c = thread[h].c
    BY <1>0 DEF Conns
  <2>3. PICK y \in Conns : /\ thread' = [thread EXCEPT ![h] = y]
                           /\ y.pc = pc /\ y.c = thread[h].c /\ y.op = thread[h].op /\ y.peer = thread[h].peer
                           /\ y.on = c /\ y.next = thread[h].next
    <3>1. AimOn(h, pc, c)
      BY <1>3, <2>1, <2>2 DEF AimOn
    <3>2. thread[h].pc # "idle"
      BY <1>0
    <3> QED
      BY <1>0, <3>1, <3>2, AimOnIs
  <2>4. /\ ns' \in [Clients -> [mode : Modes, content : Seq(Versions)]]
        /\ ns'[c].mode = "open" /\ \A d \in Clients : d # c => ns'[d] = ns[d]
    BY <1>0, <1>3, <2>2 DEF TypeInv, Modes
  <2>5. Standing /\ Stored' /\ UNCHANGED <<source, cleaning>>
    BY <1>0, <1>1, <2>4 DEF Standing, Stored, TypeInv
  <2>6. thread[h].op = "acquire" /\ Untouched(c)
    BY <1>0, <2>2 DEF Shape, Stage, Early
  <2>7. Touch(h, c)
    BY <1>0, <1>1, <2>2, <2>4, <2>6 DEF Touch, Rest
  <2>8. Shape(y)'
    BY <2>1, <2>2, <2>3, <2>6 DEF Shape, Making, Evicting, Busy
  <2>9. Peer(y)'
    BY <1>0, <1>1, <2>3 DEF Peer
  <2>10. c \notin records' /\ c \notin leases' /\ c \in Namespaces'
    BY <1>1, <2>4, <2>6 DEF Untouched, Namespaces
  <2>11. Stage(y)'
    BY <2>1, <2>2, <2>3, <2>4, <2>10 DEF Stage, Making, Evicting, Early
  <2>12. Tables(y)'
    BY <2>1, <2>2, <2>3, <2>10 DEF Tables, Making, Dropping, Dropped
  <2>13. y.pc \in Busy
    BY <2>1, <2>3 DEF Busy
  <2> QED
    BY <1>0, <1>1, <1>3, <2>3, <2>5, <2>7, <2>8, <2>9, <2>11, <2>12, <2>13, ThreadStep DEF Conn
<1> QED
  BY <1>2, <1>3 DEF BeginAcquire

\* The thread that makes a copy works on a namespace that nobody else knows.
LEMMA MakeStep ==
  ASSUME BrokerInv, NEW h \in Threads, NEW CONSTANT pc \in {"copying", "persist", "undo"}, At(h, pc),
         NEW CONSTANT c \in Clients, c = thread[h].c,
         UNCHANGED <<client, now, source, daemon, cleaning, tombs, lock>>, Stored', Rest(c),
         faults' = faults \/ Fail,
         c \notin leases',
         NEW CONSTANT y \in Conns, thread' = [thread EXCEPT ![h] = y],
         y.c = thread[h].c, y.op = thread[h].op, y.peer = thread[h].peer, y.on = thread[h].on, Making(y),
         y.pc = "copying" => ns'[c].mode = "open" /\ c \notin records',
         y.pc = "persist" => ns'[c] = Whole,
         y.pc = "removing" => ns'[c].mode = "open",
         faults'.failures = 0 => c \notin records' /\ c \in Namespaces'
  PROVE  BrokerInv'
<1>0. /\ daemon = "up" /\ thread[h].pc = pc /\ thread[h] \in Conns /\ TypeInv /\ lock = h
      /\ Shape(thread[h]) /\ Peer(thread[h]) /\ Stage(thread[h]) /\ thread[h].pc # "idle"
  BY Serving DEF Busy
<1>1. thread[h].op = "acquire" /\ thread[h].on = c
  BY <1>0 DEF Shape, Making, Evicting, Busy
<1>2. Standing /\ Touch(h, c)
  BY <1>0, <1>1, Faults DEF Standing, Touch
<1>3. ~ Evicting(y) /\ ~ Early(y) /\ ~ Dropping(y) /\ ~ Dropped(y) /\ y.pc \in Busy
      /\ y.pc \notin {"acquire", "rollback", "rolled", "release", "cleaned", "answer"}
      /\ (y.pc = "removing" => y.next = "error")
  BY DEF Making, Evicting, Early, Dropping, Dropped, Busy
<1>4. Shape(y)'
  BY <1>1, <1>3 DEF Shape, Making, Evicting, Busy
<1>5. Peer(y)'
  BY <1>0 DEF Peer
<1>6. Stage(y)'
  BY <1>1, <1>3 DEF Stage, Making, Evicting, Early
<1>7. Tables(y)'
  BY <1>1, <1>3 DEF Tables, Making, Dropping, Dropped
<1> QED
  BY <1>0, <1>1, <1>2, <1>3, <1>4, <1>5, <1>6, <1>7, ThreadStep DEF Conn

\* A copied file keeps the invariant.
LEMMA CopyStep ==
  ASSUME BrokerInv, NEW h \in Threads, CopyFile(h)
  PROVE  BrokerInv'
<1>0. /\ daemon = "up" /\ thread[h].pc = "copying" /\ thread[h] \in Conns /\ TypeInv /\ lock = h
      /\ Shape(thread[h]) /\ Peer(thread[h]) /\ Stage(thread[h]) /\ Tables(thread[h])
  BY Serving DEF CopyFile, Busy
<1>1. UNCHANGED <<client, now, source, daemon, cleaning, records, expires, leases, tombs, faults, lock>>
  BY DEF CopyFile, outside, memory
<1>2. PICK c \in Clients : c = thread[h].c
  BY <1>0 DEF Conns
<1>3. /\ ns[c].mode = "open" /\ c \notin records /\ c \notin leases
      /\ ns[c] \in [mode : Modes, content : Seq(Versions)] /\ Making(thread[h])
  BY <1>0, <1>2 DEF Stage, Making, TypeInv
<1>4. PICK pc \in {"copying", "persist", "undo"} : pc = "copying"
  OBVIOUS
<1>5. At(h, pc)
  BY <1>4 DEF CopyFile
<1>6. ASSUME NEW k, k = Len(ns[c].content) + 1, k <= FileCount,
             ns' = [ns EXCEPT ![c].content = Append(@, source[c][k])], UNCHANGED thread
      PROVE  BrokerInv'
  <2>1. k \in 1 .. FileCount
    <3>1. ns[c].content \in Seq(Versions)
      BY <1>3
    <3>2. Len(ns[c].content) \in Nat
      BY <3>1
    <3> QED
      BY <1>6, <3>2, ConstantsAssumption
  <2>2. source[c][k] \in Versions
    <3>1. source[c] \in [1 .. FileCount -> Versions]
      BY <1>0 DEF TypeInv
    <3> QED
      BY <2>1, <3>1
  <2>3. /\ ns' \in [Clients -> [mode : Modes, content : Seq(Versions)]]
        /\ ns'[c].mode = "open" /\ \A d \in Clients : d # c => ns'[d] = ns[d]
    <3>0. PICK base \in Seq(Versions), v \in Versions : base = ns[c].content /\ v = source[c][k]
      BY <1>3, <2>2
    <3>a. Append(base, v) \in Seq(Versions)
      OBVIOUS
    <3>1. PICK text \in Seq(Versions) : text = Append(ns[c].content, source[c][k])
      BY <3>0, <3>a, Zenon
    <3>2. PICK new : new = [ns[c] EXCEPT !.content = text]
      OBVIOUS
    <3>3. new \in [mode : Modes, content : Seq(Versions)] /\ new.mode = "open"
      BY <1>3, <3>2
    <3>4. ns' = [ns EXCEPT ![c] = new]
      BY <1>6, <3>1, <3>2
    <3> QED
      BY <1>0, <3>3, <3>4 DEF TypeInv
  <2>4. Stored' /\ Rest(c)
    BY <1>0, <1>1, <2>3 DEF Stored, TypeInv, Rest
  <2>5. PICK y \in Conns : y = thread[h]
    BY <1>0
  <2>6. thread' = [thread EXCEPT ![h] = y]
    BY <1>0, <1>6, <2>5 DEF TypeInv
  <2>7. c \in Namespaces'
    BY <2>3 DEF Namespaces
  <2> QED
    BY <1>0, <1>1, <1>2, <1>3, <1>4, <1>5, <2>3, <2>4, <2>5, <2>6, <2>7, MakeStep
<1>7. CASE Go(h, "undo") /\ UNCHANGED ns
  <2>1. PICK q \in Pcs : q = "undo"
    BY DEF Pcs
  <2>2. PICK y \in Conns : /\ thread' = [thread EXCEPT ![h] = y]
                           /\ y.pc = q /\ y.c = thread[h].c /\ y.op = thread[h].op /\ y.peer = thread[h].peer
                           /\ y.on = thread[h].on
    BY <1>0, <1>7, <2>1, GoIs
  <2>3. Stored' /\ Rest(c)
    BY <1>0, <1>1, <1>7 DEF Stored, TypeInv, Rest
  <2>4. c \in Namespaces' /\ Making(y)
    BY <1>3, <1>7, <2>1, <2>2 DEF Namespaces, Making
  <2> QED
    BY <1>0, <1>1, <1>2, <1>3, <1>4, <1>5, <2>1, <2>2, <2>3, <2>4, MakeStep
<1> QED
  BY <1>2, <1>6, <1>7 DEF CopyFile

\* The seal keeps the invariant: it goes on only with the declared tree.
LEMMA SealStep ==
  ASSUME BrokerInv, NEW h \in Threads, Seal(h)
  PROVE  BrokerInv'
<1>0. /\ daemon = "up" /\ thread[h].pc = "copying" /\ thread[h] \in Conns /\ TypeInv /\ lock = h
      /\ Stage(thread[h])
  BY Serving DEF Seal, Busy
<1>1. UNCHANGED <<client, now, source, daemon, cleaning, records, leases, tombs, faults, lock>>
  BY DEF Seal, outside, memory
<1>2. PICK c \in Clients : c = thread[h].c
  BY <1>0 DEF Conns
<1>3. /\ ns[c].mode = "open" /\ c \notin records /\ c \notin leases
      /\ ns[c] \in [mode : Modes, content : Seq(Versions)]
  BY <1>0, <1>2 DEF Stage, Making, TypeInv
<1>4. PICK pc \in {"copying", "persist", "undo"} : pc = "copying"
  OBVIOUS
<1>5. At(h, pc) /\ ns' = [ns EXCEPT ![c].mode = "sealed"]
  BY <1>2, <1>4 DEF Seal
<1>6. PICK new : new = [ns[c] EXCEPT !.mode = "sealed"]
  OBVIOUS
<1>7. new \in [mode : Modes, content : Seq(Versions)] /\ new.mode = "sealed" /\ new.content = ns[c].content
  BY <1>3, <1>6 DEF Modes
<1>8. /\ ns' \in [Clients -> [mode : Modes, content : Seq(Versions)]]
      /\ ns'[c] = new /\ \A d \in Clients : d # c => ns'[d] = ns[d]
  BY <1>0, <1>5, <1>6, <1>7 DEF TypeInv
<1>9. c \in Namespaces'
  BY <1>7, <1>8 DEF Namespaces
<1>10. CASE AsDeclared(c) /\ expires' = [expires EXCEPT ![c] = now + LeaseTTL] /\ Go(h, "persist")
  <2>1. PICK q \in Pcs : q = "persist"
    BY DEF Pcs
  <2>2. PICK y \in Conns : /\ thread' = [thread EXCEPT ![h] = y]
                           /\ y.pc = q /\ y.c = thread[h].c /\ y.op = thread[h].op /\ y.peer = thread[h].peer
                           /\ y.on = thread[h].on
    BY <1>0, <1>10, <2>1, GoIs
  <2>3. now + LeaseTTL \in Nat
    BY <1>0, ConstantsAssumption DEF TypeInv
  <2>4. expires' \in [Clients -> Nat] /\ \A d \in Clients : d # c => expires'[d] = expires[d]
    BY <1>0, <1>10, <2>3 DEF TypeInv
  <2>5. Stored' /\ Rest(c)
    BY <1>0, <1>1, <1>8, <2>4 DEF Stored, TypeInv, Rest
  <2>6. new = Whole
    <3>1. ns[c].content = [k \in 1 .. FileCount |-> "declared"]
      BY <1>3, <1>10 DEF AsDeclared
    <3> QED
      BY <1>7, <3>1 DEF Whole
  <2>7. Making(y)
    BY <2>1, <2>2 DEF Making
  <2> QED
    BY <1>1, <1>2, <1>3, <1>4, <1>5, <1>8, <1>9, <2>1, <2>2, <2>5, <2>6, <2>7, MakeStep
<1>11. CASE Go(h, "undo") /\ UNCHANGED expires
  <2>1. PICK q \in Pcs : q = "undo"
    BY DEF Pcs
  <2>2. PICK y \in Conns : /\ thread' = [thread EXCEPT ![h] = y]
                           /\ y.pc = q /\ y.c = thread[h].c /\ y.op = thread[h].op /\ y.peer = thread[h].peer
                           /\ y.on = thread[h].on
    BY <1>0, <1>11, <2>1, GoIs
  <2>3. Stored' /\ Rest(c)
    BY <1>0, <1>1, <1>8, <1>11 DEF Stored, TypeInv, Rest
  <2>4. Making(y)
    BY <2>1, <2>2 DEF Making
  <2> QED
    BY <1>1, <1>2, <1>3, <1>4, <1>5, <1>9, <2>1, <2>2, <2>3, <2>4, MakeStep
<1> QED
  BY <1>2, <1>10, <1>11 DEF Seal

\* _persist_lease keeps the invariant, whether or not its rename is seen.
LEMMA PersistStep ==
  ASSUME BrokerInv, NEW h \in Threads, Persist(h)
  PROVE  BrokerInv'
<1>0. /\ daemon = "up" /\ thread[h].pc = "persist" /\ thread[h] \in Conns /\ TypeInv /\ lock = h
      /\ Shape(thread[h]) /\ Peer(thread[h]) /\ Stage(thread[h]) /\ Tables(thread[h])
  BY Serving DEF Persist, Busy
<1>1. UNCHANGED <<client, now, source, daemon, cleaning, ns, expires, tombs>>
  BY DEF Persist, outside
<1>2. PICK c \in Clients : c = thread[h].c
  BY <1>0 DEF Conns
<1>3. /\ ns[c] = Whole /\ c \notin leases /\ c \in Namespaces
      /\ thread[h].op = "acquire" /\ thread[h].on = c
  <2>1. ns[c] = Whole /\ c \notin leases /\ thread[h].op = "acquire" /\ thread[h].on = c
    BY <1>0, <1>2 DEF Stage, Shape, Making, Evicting, Busy
  <2> QED
    BY <2>1 DEF Whole, Namespaces
<1>4. CASE /\ records' = records \union {c} /\ leases' = leases \union {c} /\ lock' = None
           /\ Go(h, "answer") /\ UNCHANGED faults
  <2>1. PICK q \in Pcs : q = "answer"
    BY DEF Pcs
  <2>2. PICK y \in Conns : /\ thread' = [thread EXCEPT ![h] = y]
                           /\ y.pc = q /\ y.c = thread[h].c /\ y.op = thread[h].op /\ y.peer = thread[h].peer
    BY <1>0, <1>4, <2>1, GoIs
  <2>3. Stored' /\ Rest(c) /\ Standing
    BY <1>0, <1>1, <1>4 DEF Stored, TypeInv, Rest, Standing
  <2>4. Touch(h, c)
    BY <1>0, <1>2, <1>3, <2>3 DEF Touch
  <2>5. Intact(c)' /\ Agree(c)'
    BY <1>1, <1>3, <1>4 DEF Intact, Agree, Namespaces
  <2>6. Shape(y)' /\ Tables(y)'
    BY <2>1, <2>2 DEF Shape, Tables, Making, Evicting, Dropping, Dropped, Busy
  <2>7. Peer(y)'
    BY <1>0, <1>1, <2>2 DEF Peer
  <2>8. Stage(y)'
    BY <1>2, <1>3, <2>1, <2>2, <2>5 DEF Stage, Making, Evicting, Early
  <2>9. y.pc \notin Busy /\ lock' # h
    BY <1>4, <2>1, <2>2, ConstantsAssumption DEF Busy
  <2> QED
    BY <1>0, <1>1, <1>3, <1>4, <2>2, <2>3, <2>4, <2>5, <2>6, <2>7, <2>8, <2>9, ThreadStep DEF Conn
<1>5. CASE /\ Fail /\ Go(h, "undo") /\ records' \in {records, records \union {c}} /\ UNCHANGED <<leases, lock>>
  <2>1. PICK q \in Pcs : q = "undo"
    BY DEF Pcs
  <2>2. PICK y \in Conns : /\ thread' = [thread EXCEPT ![h] = y]
                           /\ y.pc = q /\ y.c = thread[h].c /\ y.op = thread[h].op /\ y.peer = thread[h].peer
                           /\ y.on = thread[h].on
    BY <1>0, <1>5, <2>1, GoIs
  <2>3. faults' \in Counts /\ faults'.failures # 0
    BY <1>0, <1>5, Faults
  <2>4. Stored' /\ Rest(c)
    BY <1>0, <1>1, <1>5, <2>3 DEF Stored, TypeInv, Rest
  <2>5. Making(y)
    BY <2>1, <2>2 DEF Making
  <2>6. PICK pc \in {"copying", "persist", "undo"} : pc = "persist"
    OBVIOUS
  <2>7. At(h, pc)
    BY <2>6 DEF Persist
  <2> QED
    BY <1>0, <1>1, <1>2, <1>3, <1>5, <2>1, <2>2, <2>3, <2>4, <2>5, <2>6, <2>7, MakeStep
<1> QED
  BY <1>2, <1>4, <1>5 DEF Persist

\* The except clause of _acquire keeps the invariant.
LEMMA UndoStep ==
  ASSUME BrokerInv, NEW h \in Threads, Undo(h)
  PROVE  BrokerInv'
<1>0. /\ daemon = "up" /\ thread[h].pc = "undo" /\ thread[h] \in Conns /\ TypeInv /\ lock = h
      /\ Stage(thread[h]) /\ Tables(thread[h])
  BY Serving DEF Undo, Busy
<1>1. UNCHANGED <<client, now, source, daemon, cleaning, records, expires, leases, tombs, faults, lock>>
  BY DEF Undo, outside, memory
<1>2. PICK c \in Clients : c = thread[h].c
  BY <1>0 DEF Conns
<1>3. c \notin leases /\ (faults.failures = 0 => c \notin records)
  BY <1>0, <1>2 DEF Stage, Tables, Making
<1>4. PICK pc \in {"copying", "persist", "undo"} : pc = "undo"
  OBVIOUS
<1>5. At(h, pc) /\ ns' = Opened(c)
  BY <1>2, <1>4 DEF Undo
<1>6. /\ ns' \in [Clients -> [mode : Modes, content : Seq(Versions)]]
      /\ ns'[c].mode = "open" /\ \A d \in Clients : d # c => ns'[d] = ns[d]
  BY <1>0, <1>5 DEF TypeInv, Opened, Modes
<1>7. PICK q \in Pcs, n \in Nexts : q = "removing" /\ n = "error"
  BY DEF Pcs, Nexts
<1>8. PICK y \in Conns : /\ thread' = [thread EXCEPT ![h] = y]
                         /\ y.pc = q /\ y.c = thread[h].c /\ y.op = thread[h].op /\ y.peer = thread[h].peer
                         /\ y.on = thread[h].on /\ y.next = n
  <2>1. AimNext(h, q, n)
    BY <1>7 DEF Undo, AimNext
  <2>2. thread[h].pc # "idle"
    BY <1>0
  <2> QED
    BY <1>0, <2>1, <2>2, AimNextIs
<1>9. Stored' /\ Rest(c)
  BY <1>0, <1>1, <1>6 DEF Stored, TypeInv, Rest
<1>10. Making(y) /\ c \in Namespaces'
  BY <1>6, <1>7, <1>8 DEF Making, Namespaces
<1> QED
  BY <1>1, <1>2, <1>3, <1>4, <1>5, <1>6, <1>7, <1>8, <1>9, <1>10, MakeStep

\* The start of _release keeps the invariant.
LEMMA BeginReleaseStep ==
  ASSUME BrokerInv, NEW h \in Threads, BeginRelease(h)
  PROVE  BrokerInv'
<1>0. /\ daemon = "up" /\ thread[h].pc = "release" /\ thread[h] \in Conns /\ TypeInv /\ lock \in {h, None}
      /\ Shape(thread[h])
  BY Serving DEF BeginRelease, LeaseLockFree
<1>1. /\ UNCHANGED <<client, now, source, daemon, cleaning, records, expires, leases, tombs, faults>>
      /\ thread[h].pc \notin Busy \union {"idle"}
  BY <1>0 DEF BeginRelease, outside, memory, Busy
<1>2. CASE Raise(h) /\ UNCHANGED ns
  BY <1>0, <1>1, <1>2, RaiseStep DEF Unmoved
<1>3. CASE thread[h].c \in leases /\ BeginRemove(h, thread[h].c, "cleaned")
  <2>1. PICK c \in Clients : c = thread[h].c
    BY <1>0 DEF Conns
  <2>2. PICK n \in {"evicted", "cleaned", "rolled"} : n = "cleaned"
    OBVIOUS
  <2>3. thread[h].op = "release" /\ BeginRemove(h, c, n)
    BY <1>0, <1>3, <2>1, <2>2 DEF Shape
  <2> QED
    BY <1>0, <1>1, <1>3, <2>1, <2>2, <2>3, RemoveStep
<1> QED
  BY <1>2, <1>3 DEF BeginRelease

\* _rollback_acquire_response keeps the invariant.
LEMMA RollbackStep ==
  ASSUME BrokerInv, NEW h \in Threads, Rollback(h)
  PROVE  BrokerInv'
<1>0. /\ daemon = "up" /\ thread[h].pc = "rollback" /\ thread[h] \in Conns /\ TypeInv /\ lock \in {h, None}
      /\ Shape(thread[h]) /\ Peer(thread[h]) /\ LockInv /\ AgreeInv
  BY Serving DEF Rollback, LeaseLockFree, BrokerInv
<1>1. /\ UNCHANGED <<client, now, source, daemon, cleaning, records, expires, leases, tombs, faults>>
      /\ thread[h].pc \notin Busy \union {"idle"} /\ thread[h].op = "acquire"
  BY <1>0 DEF Rollback, outside, memory, Busy, Shape
<1>2. PICK c \in Clients : c = thread[h].c
  BY <1>0 DEF Conns
<1>3. CASE Raise(h) /\ UNCHANGED ns
  BY <1>0, <1>1, <1>3, RaiseStep DEF Unmoved
<1>4. CASE c \in leases /\ BeginRemove(h, c, "rolled")
  <2>1. PICK n \in {"evicted", "cleaned", "rolled"} : n = "rolled"
    OBVIOUS
  <2>2. BeginRemove(h, c, n)
    BY <1>4, <2>1
  <2> QED
    BY <1>0, <1>1, <1>2, <1>4, <2>1, <2>2, RemoveStep
<1>5. CASE /\ c \in leases /\ c \notin Namespaces /\ lock' = h /\ UNCHANGED ns
           /\ thread' = [thread EXCEPT ![h].pc = "rolled", ![h].on = c]
  <2>1. PICK pc \in Pcs : pc = "rolled"
    BY DEF Pcs
  <2>2. thread[h].next \in Nexts
    BY <1>0 DEF Conns
  <2>3. PICK y \in Conns : /\ thread' = [thread EXCEPT ![h] = y]
                           /\ y.pc = pc /\ y.c = thread[h].c /\ y.op = thread[h].op /\ y.peer = thread[h].peer
                           /\ y.on = c /\ y.next = thread[h].next
    <3>1. AimOn(h, pc, c)
      BY <1>5, <2>1 DEF AimOn
    <3>2. thread[h].pc # "idle"
      BY <1>0
    <3> QED
      BY <1>0, <2>2, <3>1, <3>2, AimOnIs
  <2>4. Unmoved
    BY <1>1, <1>5 DEF Unmoved
  <2>5. Shape(y)'
    BY <1>1, <1>2, <2>1, <2>3 DEF Shape, Making, Evicting, Busy
  <2>6. Peer(y)'
    BY <1>0, <1>1, <2>3 DEF Peer
  <2>7. Stage(y)'
    BY <2>1, <2>3 DEF Stage, Making, Evicting, Early
  <2>8. Tables(y)'
    <3>1. faults.failures # 0
      <4>1. \A g \in Threads : thread[g].pc \notin Busy
        BY <1>0, <1>1, ConstantsAssumption DEF LockInv
      <4>2. faults.failures = 0 => Agree(c)
        BY <1>0, <4>1 DEF AgreeInv
      <4> QED
        BY <1>5, <4>2 DEF Agree
    <3> QED
      BY <1>1, <3>1 DEF Tables
  <2>9. y.pc \in Busy
    BY <2>1, <2>3 DEF Busy
  <2> QED
    BY <1>0, <1>1, <1>5, <2>3, <2>4, <2>5, <2>6, <2>7, <2>8, <2>9, QuietStep DEF Conn
<1> QED
  <2>1. \/ c \notin leases /\ Raise(h) /\ UNCHANGED ns
        \/ c \in leases /\ c \in Namespaces /\ BeginRemove(h, c, "rolled")
        \/ /\ c \in leases /\ c \notin Namespaces
           /\ thread' = [thread EXCEPT ![h].pc = "rolled", ![h].on = c]
           /\ lock' = h /\ UNCHANGED ns
    <3>1. CASE c \notin leases
      BY <1>2, <3>1 DEF Rollback
    <3>2. CASE c \in leases /\ c \in Namespaces
      BY <1>2, <3>2 DEF Rollback
    <3>3. CASE c \in leases /\ c \notin Namespaces
      BY <1>2, <3>3 DEF Rollback
    <3> QED
      BY <3>1, <3>2, <3>3
  <2> QED
    BY <1>3, <1>4, <1>5, <2>1

\* The store and the tables stand still; connections begin, end or lose their peer.
Still == UNCHANGED <<now, source, daemon, cleaning, lock, ns, records, expires, leases, tombs>>
Follows(x, y) ==
    \/ y.pc = x.pc /\ y.c = x.c /\ y.op = x.op /\ y.on = x.on /\ y.next = x.next /\ (y.peer => x.peer)
    \/ y = Idle /\ x.pc \in {"answer", "error"}
    \/ x = Idle /\ y.pc = "evict" /\ (y.op = "acquire" => Untouched(y.c))

-----------------------------------------------------------------------------
(* Clients and connections *)

\* What is said of a lease stays as it is while the store stands still.
LEMMA StillSame ==
  ASSUME Still, NEW c \in Clients
  PROVE  /\ Lapsed(c) <=> Lapsed(c)'
         /\ Untouched(c) <=> Untouched(c)'
         /\ Intact(c) <=> Intact(c)'
         /\ c \in Namespaces <=> c \in Namespaces'
         /\ Agree(c) <=> Agree(c)'
BY DEF Still, Lapsed, Untouched, Intact, Namespaces, Agree

\* Connections that begin, end or lose their peer.
LEMMA TalkStep ==
  ASSUME BrokerInv, Still, TypeInv', faults'.failures = faults.failures,
         \A g \in Threads : Follows(thread[g], thread'[g]),
         daemon # "up" => UNCHANGED thread,
         \A g \in Threads : thread'[g] # Idle => Peer(thread[g])',
         PeerInv', ClientInv'
  PROVE  BrokerInv'
<1>0. /\ TypeInv /\ LockInv /\ ConnInv /\ AgreeInv
      /\ \A g \in Threads : thread[g] \in Conns \union {Idle} /\ thread'[g] \in Conns \union {Idle}
  BY DEF BrokerInv, TypeInv
<1>1. \A g \in Threads : /\ thread'[g].pc \in Busy <=> thread[g].pc \in Busy
                         /\ thread[g].pc \in Busy => thread'[g].on = thread[g].on
                         /\ thread[g].pc = "evict" => thread'[g].pc = "evict"
  BY DEF Follows, Busy, Idle
<1>2. LockInv'
  <2>1. \A g \in Threads : thread'[g].pc \in Busy => lock' = g
    BY <1>0, <1>1 DEF LockInv, Still
  <2>2. \A g \in Threads : lock' = g => thread'[g].pc \in Busy \union {"evict"}
    BY <1>0, <1>1 DEF LockInv, Still
  <2> QED
    BY <1>0, <2>1, <2>2 DEF LockInv, Still
<1>3. AgreeInv'
  <2>1. ASSUME daemon' = "up", faults'.failures = 0, NEW c \in Clients,
               \A g \in Threads : thread'[g].pc \in Busy => thread'[g].on # c
        PROVE  Agree(c)'
    <3>1. \A g \in Threads : thread[g].pc \in Busy => thread[g].on # c
      BY <1>1, <2>1
    <3>2. Agree(c)
      BY <1>0, <2>1, <3>1 DEF AgreeInv, Still
    <3> QED
      BY <3>2, StillSame
  <2> QED
    BY <2>1 DEF AgreeInv
<1>4. ASSUME NEW g \in Threads PROVE Conn(thread[g])'
  <2>1. PICK x \in Conns \union {Idle}, y \in Conns \union {Idle} : x = thread[g] /\ y = thread'[g]
    BY <1>0
  <2>2. Conn(thread[g])' <=> Conn(y)'
    BY <2>1 DEF Conn, Shape, Peer, Stage, Tables, Early, Making, Dropping, Dropped, Evicting, Lapsed, Untouched, Intact, Namespaces
  <2>3. y # Idle => Peer(y)'
    BY <2>1 DEF Peer
  <2>4. Conn(x) /\ Follows(x, y)
    BY <1>0, <2>1 DEF ConnInv
  <2>5. CASE y = Idle
    BY <2>2, <2>5 DEF Conn
  <2>6. CASE x # Idle /\ y # Idle
    <3>1. y.pc = x.pc /\ y.c = x.c /\ y.op = x.op /\ y.on = x.on /\ y.next = x.next /\ y.c \in Clients /\ y.on \in Clients
      BY <2>4, <2>6, Connections DEF Follows
    <3>2. Shape(x) /\ Stage(x) /\ Tables(x)
      BY <2>4, <2>6 DEF Conn
    <3>3. Shape(y)'
      BY <3>1, <3>2 DEF Shape, Making, Evicting
    <3>4. /\ Early(y)' <=> Early(x)
          /\ Evicting(y)' <=> Evicting(x)
          /\ Making(y)' <=> Making(x)
          /\ Dropping(y)' <=> Dropping(x)
          /\ Dropped(y)' <=> Dropped(x)
      BY <3>1 DEF Early, Evicting, Making, Dropping, Dropped
    <3>5. \A c \in {y.c, y.on} : /\ Lapsed(c) <=> Lapsed(c)'
                                 /\ Untouched(c) <=> Untouched(c)'
                                 /\ Intact(c) <=> Intact(c)'
                                 /\ c \in Namespaces <=> c \in Namespaces'
      BY <3>1, StillSame
    <3>6. Stage(y)'
      BY <3>1, <3>2, <3>4, <3>5 DEF Stage, Still
    <3>7. Tables(y)'
      BY <3>1, <3>2, <3>4, <3>5 DEF Tables, Still
    <3> QED
      BY <2>2, <2>3, <2>6, <3>3, <3>6, <3>7 DEF Conn
  <2>7. CASE x = Idle /\ y # Idle
    <3>1. y.pc = "evict" /\ (y.op = "acquire" => Untouched(y.c)) /\ y.c \in Clients
      <4>1. y.pc # "idle" /\ x.pc = "idle" /\ y.c \in Clients
        BY <2>7, Connections
      <4> QED
        BY <2>4, <4>1 DEF Follows
    <3>2. Shape(y)' /\ Tables(y)'
      BY <3>1 DEF Shape, Tables, Making, Evicting, Dropping, Dropped, Busy
    <3>3. Untouched(y.c) => Untouched(y.c)'
      BY <3>1, StillSame
    <3>4. Stage(y)'
      BY <3>1, <3>3 DEF Stage, Making, Evicting
    <3> QED
      BY <2>2, <2>3, <2>7, <3>2, <3>4 DEF Conn
  <2> QED
    BY <2>5, <2>6, <2>7
<1> QED
  BY <1>2, <1>3, <1>4 DEF BrokerInv, ConnInv


\* A client loses its connection.
LEMMA CutStep ==
  ASSUME BrokerInv, Still, TypeInv', faults'.failures = faults.failures,
         NEW CONSTANT c \in Clients, client[c] \in {"acquiring", "releasing"},
         client' = [client EXCEPT ![c] = Cut(c)],
         \A g \in Threads : /\ Follows(thread[g], thread'[g]) /\ (thread'[g] # Idle => thread[g] # Idle)
                            /\ thread'[g].c = c => ~ thread'[g].peer
                            /\ thread[g].c # c => thread'[g] = thread[g],
         daemon # "up" => UNCHANGED thread
  PROVE  BrokerInv'
<1>0. /\ TypeInv /\ PeerInv /\ ConnInv /\ ClientInv
      /\ \A g \in Threads : thread[g] \in Conns \union {Idle} /\ thread'[g] \in Conns \union {Idle}
  BY DEF BrokerInv, TypeInv
<1>1. /\ client' \in [Clients -> ClientStates] /\ \A d \in Clients : d # c => client'[d] = client[d]
      /\ client'[c] = IF client[c] = "acquiring" THEN "failed" ELSE "unsure"
  BY <1>0 DEF TypeInv, Cut
<1>2. ASSUME NEW g \in Threads, thread'[g] # Idle
      PROVE  /\ thread[g] # Idle /\ thread[g].pc # "idle" /\ thread'[g].pc = thread[g].pc
             /\ thread'[g].c = thread[g].c /\ thread'[g].op = thread[g].op /\ (thread'[g].peer => thread[g].peer)
             /\ thread'[g].c \in Clients
  <2>1. thread[g] # Idle /\ thread[g].pc # "idle" /\ thread'[g].c \in Clients
    BY <1>0, <1>2, Connections
  <2> QED
    BY <1>2, <2>1 DEF Follows
<1>3. PeerInv'
  <2>1. ASSUME NEW h \in Threads, NEW g \in Threads, thread'[h].pc # "idle", thread'[g].pc # "idle",
               thread'[h].c = thread'[g].c,
               thread'[h].op = "acquire" \/ (thread'[h].peer /\ thread'[g].peer)
        PROVE  h = g
    <3>1. thread'[h] # Idle /\ thread'[g] # Idle
      BY <2>1 DEF Idle
    <3> QED
      BY <1>0, <1>2, <2>1, <3>1 DEF PeerInv
  <2> QED
    BY <2>1 DEF PeerInv
<1>4. ASSUME NEW g \in Threads, thread'[g] # Idle PROVE Peer(thread[g])'
  <2>1. Peer(thread[g])
    BY <1>0, <1>2, <1>4 DEF ConnInv, Conn
  <2>2. CASE thread'[g].c # c
    BY <1>1, <1>2, <1>4, <2>1, <2>2 DEF Peer
  <2>3. CASE thread'[g].c = c
    BY <1>1, <1>2, <1>4, <2>1, <2>3 DEF Peer, Past
  <2> QED
    BY <2>2, <2>3
<1>5. ASSUME NEW d \in Clients
      PROVE  /\ client'[d] = "new" => Untouched(d)'
             /\ client'[d] = "acquiring" /\ (\A g \in Threads : thread'[g].c # d) => Untouched(d)'
             /\ client'[d] = "holding" /\ ~ Lapsed(d)' => Intact(d)'
             /\ client'[d] = "released" => d \notin Namespaces'
             /\ tombs'[d] # 0 => d \notin Namespaces' /\ client'[d] \in Past
  <2>0. /\ client[d] = "new" => Untouched(d)
        /\ client[d] = "acquiring" /\ (\A g \in Threads : thread[g].c # d) => Untouched(d)
        /\ client[d] = "holding" /\ ~ Lapsed(d) => Intact(d)
        /\ client[d] = "released" => d \notin Namespaces
        /\ tombs[d] # 0 => d \notin Namespaces /\ client[d] \in Past
        /\ tombs' = tombs
    BY <1>0 DEF ClientInv, Still
  <2>1. CASE d = c
    BY <1>1, <2>0, <2>1, StillSame DEF Past
  <2>2. CASE d # c
    <3>1. client'[d] = "acquiring" /\ (\A g \in Threads : thread'[g].c # d) => \A g \in Threads : thread[g].c # d
      <4>1. SUFFICES ASSUME client'[d] = "acquiring", \A g \in Threads : thread'[g].c # d,
                            NEW g \in Threads, thread[g].c = d
                     PROVE  FALSE
        OBVIOUS
      <4> QED
        BY <2>2, <4>1
    <3> QED
      BY <1>1, <2>0, <2>2, <3>1, StillSame
  <2> QED
    BY <2>1, <2>2
<1>6. ClientInv'
  BY <1>5 DEF ClientInv
<1> QED
  BY <1>3, <1>4, <1>6, TalkStep

\* A client that times out keeps the invariant; its thread goes on.
LEMMA TimeoutStep ==
  ASSUME BrokerInv, NEW c \in Clients, ClientTimeout(c)
  PROVE  BrokerInv'
<1>0. TypeInv /\ LockInv /\ Still /\ \A g \in Threads : thread[g] \in Conns \union {Idle}
  BY DEF BrokerInv, TypeInv, ClientTimeout, Still, disk, memory
<1>1. faults' \in Counts /\ faults'.failures = faults.failures
  BY <1>0, Faults DEF ClientTimeout
<1>2. ASSUME NEW g \in Threads
      PROVE  /\ Follows(thread[g], thread'[g]) /\ (thread'[g] # Idle => thread[g] # Idle)
             /\ thread'[g].c = c => ~ thread'[g].peer
             /\ thread[g].c # c => thread'[g] = thread[g]
             /\ thread'[g] \in Conns \union {Idle}
             /\ thread[g] = Idle => thread'[g] = Idle
  <2>1. CASE thread[g].c = c
    <3>1. thread[g] \in Conns /\ thread[g] # Idle
      BY <1>0, <2>1, Connections
    <3>2. thread'[g] = [thread[g] EXCEPT !.peer = FALSE]
      BY <2>1 DEF ClientTimeout
    <3>3. /\ thread'[g] \in Conns /\ thread'[g].peer = FALSE /\ thread'[g].pc = thread[g].pc
          /\ thread'[g].c = thread[g].c /\ thread'[g].op = thread[g].op /\ thread'[g].on = thread[g].on
          /\ thread'[g].next = thread[g].next
      BY <3>1, <3>2 DEF Conns
    <3> QED
      BY <2>1, <3>1, <3>3 DEF Follows
  <2>2. CASE thread[g].c # c
    <3>1. thread'[g] = thread[g]
      BY <2>2 DEF ClientTimeout
    <3> QED
      BY <1>0, <2>2, <3>1 DEF Follows
  <2> QED
    BY <2>1, <2>2
<1>3. thread' \in [Threads -> Conns \union {Idle}]
  <2>1. thread' = [g \in Threads |-> thread'[g]]
    BY DEF ClientTimeout
  <2> QED
    BY <1>2, <2>1
<1>4. client[c] \in {"acquiring", "releasing"} /\ client' = [client EXCEPT ![c] = Cut(c)]
  BY DEF ClientTimeout
<1>5. TypeInv'
  <2>1. client' \in [Clients -> ClientStates]
    BY <1>0, <1>4 DEF TypeInv, Cut, ClientStates
  <2> QED
    BY <1>0, <1>1, <1>3, <2>1 DEF TypeInv, Still
<1>6. daemon # "up" => thread' = thread
  <2>1. daemon # "up" => \A g \in Threads : thread'[g] = thread[g]
    BY <1>0, <1>2 DEF LockInv
  <2>2. thread = [g \in Threads |-> thread[g]] /\ thread' = [g \in Threads |-> thread'[g]]
    BY <1>0, <1>3 DEF TypeInv
  <2> QED
    BY <2>1, <2>2
<1> QED
  BY <1>0, <1>1, <1>2, <1>4, <1>5, <1>6, CutStep


\* One client has new business; no connection changes.
LEMMA AskStep ==
  ASSUME BrokerInv, Still, UNCHANGED <<thread, faults>>, NEW CONSTANT c \in Clients,
         NEW CONSTANT s \in ClientStates, client' = [client EXCEPT ![c] = s],
         \/ client[c] = "new" /\ s = "acquiring"
         \/ client[c] = "holding" /\ s = "releasing"
         \/ client[c] = "unsure" /\ s = "releasing"
  PROVE  BrokerInv'
<1>0. /\ TypeInv /\ PeerInv /\ ConnInv /\ ClientInv
      /\ \A g \in Threads : thread[g] \in Conns \union {Idle}
  BY DEF BrokerInv, TypeInv
<1>1. /\ client' \in [Clients -> ClientStates] /\ \A d \in Clients : d # c => client'[d] = client[d]
      /\ client'[c] = s
  BY <1>0 DEF TypeInv
<1>2. TypeInv' /\ PeerInv'
  <2>1. TypeInv'
    BY <1>0, <1>1 DEF TypeInv, Still
  <2> QED
    BY <1>0, <2>1 DEF PeerInv
<1>3. ASSUME NEW g \in Threads, thread[g] # Idle
      PROVE  Peer(thread[g])' /\ (thread[g].c = c => client[c] = "unsure")
  <2>1. Peer(thread[g]) /\ thread[g].c \in Clients /\ thread[g].op \in Ops
    BY <1>0, <1>3, Connections DEF ConnInv, Conn
  <2>2. thread[g].c = c => client[c] = "unsure" /\ thread[g].op = "release"
    BY <2>1 DEF Peer, Past, Ops
  <2>3. Peer(thread[g])'
    BY <1>1, <2>1, <2>2 DEF Peer, Past
  <2> QED
    BY <2>2, <2>3
<1>4. ASSUME NEW d \in Clients
      PROVE  /\ client'[d] = "new" => Untouched(d)'
             /\ client'[d] = "acquiring" /\ (\A g \in Threads : thread'[g].c # d) => Untouched(d)'
             /\ client'[d] = "holding" /\ ~ Lapsed(d)' => Intact(d)'
             /\ client'[d] = "released" => d \notin Namespaces'
             /\ tombs'[d] # 0 => d \notin Namespaces' /\ client'[d] \in Past
  <2>0. /\ client[d] = "new" => Untouched(d)
        /\ client[d] = "acquiring" /\ (\A g \in Threads : thread[g].c # d) => Untouched(d)
        /\ client[d] = "holding" /\ ~ Lapsed(d) => Intact(d)
        /\ client[d] = "released" => d \notin Namespaces
        /\ tombs[d] # 0 => d \notin Namespaces /\ client[d] \in Past
        /\ tombs' = tombs
    BY <1>0 DEF ClientInv, Still
  <2>1. CASE d = c
    BY <1>1, <2>0, <2>1, StillSame DEF Past
  <2>2. CASE d # c
    BY <1>1, <2>0, <2>2, StillSame
  <2> QED
    BY <2>1, <2>2
<1>5. ClientInv'
  BY <1>4 DEF ClientInv
<1>6. \A g \in Threads : Follows(thread[g], thread'[g])
  BY DEF Follows
<1> QED
  BY <1>2, <1>3, <1>5, <1>6, TalkStep

\* The requests of a client keep the invariant.
LEMMA ClientAsks ==
  ASSUME BrokerInv, NEW c \in Clients, Acquire(c) \/ Release(c) \/ RetryRelease(c)
  PROVE  BrokerInv'
<1>1. ASSUME NEW s, client' = [client EXCEPT ![c] = s], Still, UNCHANGED <<thread, faults>>,
             s \in {"acquiring", "releasing"},
             \/ client[c] = "new" /\ s = "acquiring"
             \/ client[c] = "holding" /\ s = "releasing"
             \/ client[c] = "unsure" /\ s = "releasing"
      PROVE  BrokerInv'
  <2>1. s \in ClientStates
    BY <1>1 DEF ClientStates
  <2> QED
    BY <1>1, <2>1, AskStep
<1>2. CASE Acquire(c)
  BY <1>1, <1>2 DEF Acquire, Ask, Still, disk, memory
<1>3. CASE Release(c)
  BY <1>1, <1>3 DEF Release, Ask, Still, disk, memory
<1>4. CASE RetryRelease(c)
  BY <1>1, <1>4 DEF RetryRelease, Still, disk, memory
<1> QED
  BY <1>2, <1>3, <1>4

\* serve_forever keeps the invariant.
LEMMA AcceptStep ==
  ASSUME BrokerInv, NEW c \in Clients, Accept(c)
  PROVE  BrokerInv'
<1>0. /\ TypeInv /\ PeerInv /\ ConnInv /\ ClientInv /\ Still /\ daemon = "up" /\ faults' = faults
      /\ client[c] \in {"acquiring", "releasing"} /\ thread \in [Threads -> Conns \union {Idle}]
      /\ client \in [Clients -> ClientStates]
  BY DEF BrokerInv, TypeInv, Accept, Still, disk, memory
<1>1. ASSUME NEW g \in Threads, thread[g].c = c
      PROVE  ~ thread[g].peer /\ thread[g].op = "release" /\ client[c] = "releasing"
  <2>1. thread[g] # Idle /\ thread[g].op \in Ops /\ thread[g].peer \in BOOLEAN
    BY <1>0, <1>1, Connections
  <2>2. Peer(thread[g])
    BY <1>0, <2>1 DEF ConnInv, Conn
  <2>3. ~ thread[g].peer
    BY <1>1 DEF Accept, Connected
  <2> QED
    BY <1>0, <1>1, <2>1, <2>2, <2>3 DEF Peer, Past, Ops
<1>2. CASE client' = [client EXCEPT ![c] = Cut(c)] /\ UNCHANGED thread
  <2>1. TypeInv'
    <3>1. client' \in [Clients -> ClientStates]
      BY <1>0, <1>2 DEF Cut, ClientStates
    <3> QED
      BY <1>0, <1>2, <3>1 DEF TypeInv, Still
  <2>2. \A g \in Threads : Follows(thread[g], thread'[g])
    BY <1>2 DEF Follows
  <2> QED
    BY <1>0, <1>1, <1>2, <2>1, <2>2, CutStep
<1>3. ASSUME NEW h \in Threads, NEW y, thread[h].pc = "idle", thread' = [thread EXCEPT ![h] = y], client' = client,
             y = [pc |-> "evict", c |-> c, peer |-> TRUE, on |-> c, next |-> "idle",
                  op |-> IF client[c] = "acquiring" THEN "acquire" ELSE "release"]
      PROVE  BrokerInv'
  <2>1. /\ y.pc = "evict" /\ y.c = c /\ y.peer /\ y.op = (IF client[c] = "acquiring" THEN "acquire" ELSE "release")
        /\ y \in Conns
    BY <1>3 DEF Conns, Pcs, Nexts, Ops
  <2>2. thread'[h] = y /\ \A g \in Threads : g # h => thread'[g] = thread[g]
    BY <1>0, <1>3
  <2>3. thread[h] = Idle
    BY <1>0, <1>3, Connections
  <2>4. TypeInv'
    <3>1. thread' \in [Threads -> Conns \union {Idle}]
      BY <1>0, <1>3, <2>1
    <3> QED
      BY <1>0, <1>3, <3>1 DEF TypeInv, Still
  <2>5. y.op = "acquire" => Untouched(c) /\ client[c] = "acquiring" /\ \A g \in Threads : thread[g].c # c
    <3>1. y.op = "acquire" => client[c] = "acquiring"
      BY <2>1
    <3>2. y.op = "acquire" => \A g \in Threads : thread[g].c # c
      BY <1>1, <3>1
    <3> QED
      BY <1>0, <3>1, <3>2 DEF ClientInv
  <2>6. \A g \in Threads : Follows(thread[g], thread'[g])
    BY <2>1, <2>2, <2>3, <2>5 DEF Follows
  <2>7. PeerInv'
    <3>1. ASSUME NEW i \in Threads, NEW g \in Threads, thread'[i].pc # "idle", thread'[g].pc # "idle",
                 thread'[i].c = thread'[g].c, i # g,
                 thread'[i].op = "acquire" \/ (thread'[i].peer /\ thread'[g].peer)
          PROVE  FALSE
      <4>1. CASE i # h /\ g # h
        BY <1>0, <2>2, <3>1, <4>1 DEF PeerInv
      <4>2. CASE i = h
        BY <1>1, <2>1, <2>2, <2>5, <3>1, <4>2
      <4>3. CASE g = h
        BY <1>1, <2>1, <2>2, <2>5, <3>1, <4>3
      <4> QED
        BY <4>1, <4>2, <4>3
    <3> QED
      BY <3>1 DEF PeerInv
  <2>8. ASSUME NEW g \in Threads, thread'[g] # Idle PROVE Peer(thread[g])'
    <3>1. CASE g = h
      BY <1>0, <1>3, <2>1, <2>2, <3>1 DEF Peer, Past
    <3>2. CASE g # h
      <4>1. Peer(thread[g])
        BY <1>0, <2>2, <2>8, <3>2 DEF ConnInv, Conn
      <4> QED
        BY <1>3, <2>2, <3>2, <4>1 DEF Peer
    <3> QED
      BY <3>1, <3>2
  <2>9. ClientInv'
    <3>1. ASSUME NEW d \in Clients
          PROVE  /\ client'[d] = "new" => Untouched(d)'
                 /\ client'[d] = "acquiring" /\ (\A g \in Threads : thread'[g].c # d) => Untouched(d)'
                 /\ client'[d] = "holding" /\ ~ Lapsed(d)' => Intact(d)'
                 /\ client'[d] = "released" => d \notin Namespaces'
                 /\ tombs'[d] # 0 => d \notin Namespaces' /\ client'[d] \in Past
      <4>0. /\ client[d] = "new" => Untouched(d)
            /\ client[d] = "acquiring" /\ (\A g \in Threads : thread[g].c # d) => Untouched(d)
            /\ client[d] = "holding" /\ ~ Lapsed(d) => Intact(d)
            /\ client[d] = "released" => d \notin Namespaces
            /\ tombs[d] # 0 => d \notin Namespaces /\ client[d] \in Past
            /\ tombs' = tombs
        BY <1>0 DEF ClientInv, Still
      <4>1. (\A g \in Threads : thread'[g].c # d) => \A g \in Threads : thread[g].c # d
        BY <2>2, <2>3, ConstantsAssumption DEF Idle
      <4> QED
        BY <1>0, <1>3, <4>0, <4>1, StillSame
    <3> QED
      BY <3>1 DEF ClientInv
  <2> QED
    BY <1>0, <2>4, <2>6, <2>7, <2>8, <2>9, TalkStep
<1> QED
  BY <1>2, <1>3 DEF Accept


\* A connection ends, and its client, if it is there, learns the result.
LEMMA LeaveStep ==
  ASSUME BrokerInv, daemon = "up", Still, UNCHANGED faults, NEW h \in Threads, thread[h].pc \in {"answer", "error"},
         thread' = [thread EXCEPT ![h] = Idle], NEW CONSTANT c \in Clients, c = thread[h].c,
         NEW CONSTANT s \in ClientStates, client' = [client EXCEPT ![c] = s],
         \/ ~ thread[h].peer /\ s = client[c]
         \/ thread[h].peer /\ s = Cut(c)
         \/ thread[h].peer /\ thread[h].op = "acquire" /\ s = "holding" /\ (~ Lapsed(c) => Intact(c))
         \/ thread[h].peer /\ thread[h].op = "release" /\ s = "released" /\ c \notin Namespaces
  PROVE  BrokerInv'
<1>0. /\ TypeInv /\ PeerInv /\ ConnInv /\ ClientInv
      /\ \A g \in Threads : thread[g] \in Conns \union {Idle}
  BY DEF BrokerInv, TypeInv
<1>1. /\ client' \in [Clients -> ClientStates] /\ \A d \in Clients : d # c => client'[d] = client[d]
      /\ client'[c] = s
  BY <1>0 DEF TypeInv
<1>2. thread'[h] = Idle /\ \A g \in Threads : g # h => thread'[g] = thread[g]
  BY <1>0 DEF TypeInv
<1>3. thread' \in [Threads -> Conns \union {Idle}] /\ thread[h] # Idle /\ thread[h].op \in Ops
  BY <1>0, Connections DEF TypeInv
<1>4. TypeInv'
  BY <1>0, <1>1, <1>3 DEF TypeInv, Still
<1>5. Peer(thread[h])
  BY <1>0, <1>3 DEF ConnInv, Conn
<1>6. \A g \in Threads : Follows(thread[g], thread'[g])
  BY <1>2 DEF Follows
<1>7. PeerInv'
  <2>1. ASSUME NEW i \in Threads, NEW g \in Threads, thread'[i].pc # "idle", thread'[g].pc # "idle",
               thread'[i].c = thread'[g].c,
               thread'[i].op = "acquire" \/ (thread'[i].peer /\ thread'[g].peer)
        PROVE  i = g
    <3>1. i # h /\ g # h
      BY <1>2, <2>1 DEF Idle
    <3> QED
      BY <1>0, <1>2, <2>1, <3>1 DEF PeerInv
  <2> QED
    BY <2>1 DEF PeerInv
<1>8. ASSUME NEW g \in Threads, thread'[g] # Idle PROVE Peer(thread[g])'
  <2>1. g # h /\ thread'[g] = thread[g] /\ thread[g] # Idle
    BY <1>2, <1>8
  <2>2. Peer(thread[g]) /\ thread[g].pc # "idle" /\ thread[h].pc # "idle" /\ thread[g].op \in Ops
    BY <1>0, <2>1, Connections DEF ConnInv, Conn
  <2>3. CASE thread[g].c # c
    BY <1>1, <2>1, <2>2, <2>3, Connections DEF Peer
  <2>4. CASE thread[g].c = c /\ ~ thread[h].peer
    BY <1>1, <2>1, <2>2, <2>4 DEF Peer
  <2>5. CASE thread[g].c = c /\ thread[h].peer
    <3>1. thread[g].op = "release" /\ ~ thread[g].peer /\ thread[h].op = "release"
      BY <1>0, <1>3, <2>1, <2>2, <2>5 DEF PeerInv, Ops
    <3>2. client[c] = "releasing"
      BY <1>5, <2>5, <3>1 DEF Peer
    <3>3. s \in Past
      BY <2>5, <3>1, <3>2 DEF Cut, Past
    <3> QED
      BY <1>1, <2>1, <2>5, <3>1, <3>3 DEF Peer
  <2> QED
    BY <1>0, <2>3, <2>4, <2>5
<1>9. ASSUME NEW d \in Clients
      PROVE  /\ client'[d] = "new" => Untouched(d)'
             /\ client'[d] = "acquiring" /\ (\A g \in Threads : thread'[g].c # d) => Untouched(d)'
             /\ client'[d] = "holding" /\ ~ Lapsed(d)' => Intact(d)'
             /\ client'[d] = "released" => d \notin Namespaces'
             /\ tombs'[d] # 0 => d \notin Namespaces' /\ client'[d] \in Past
  <2>0. /\ client[d] = "new" => Untouched(d)
        /\ client[d] = "acquiring" /\ (\A g \in Threads : thread[g].c # d) => Untouched(d)
        /\ client[d] = "holding" /\ ~ Lapsed(d) => Intact(d)
        /\ client[d] = "released" => d \notin Namespaces
        /\ tombs[d] # 0 => d \notin Namespaces /\ client[d] \in Past
        /\ tombs' = tombs
    BY <1>0 DEF ClientInv, Still
  <2>1. CASE d = c
    <3>1. client[c] \in {"acquiring", "failed"} \/ (client[c] \in Past /\ thread[h].op = "release")
      BY <1>3, <1>5 DEF Peer, Ops
    <3>2. s # "new" /\ s # "acquiring"
      BY <1>3, <1>5, <3>1 DEF Peer, Cut, Past, Ops
    <3>3. s = "holding" => (~ Lapsed(c) => Intact(c))
      BY <1>5, <3>1 DEF Peer, Cut, Past
    <3>4. s = "released" => c \notin Namespaces
      BY <2>0, <2>1, <3>1 DEF Cut, Past
    <3>5. client[c] \in Past => s \in Past
      BY <1>3, <1>5, <3>1 DEF Peer, Cut, Past, Ops
    <3> QED
      BY <1>1, <2>0, <2>1, <3>2, <3>3, <3>4, <3>5, StillSame
  <2>2. CASE d # c
    <3>1. (\A g \in Threads : thread'[g].c # d) => \A g \in Threads : thread[g].c # d
      BY <1>2, <2>2
    <3> QED
      BY <1>1, <2>0, <2>2, <3>1, StillSame
  <2> QED
    BY <2>1, <2>2
<1>10. ClientInv'
  BY <1>9 DEF ClientInv
<1> QED
  BY <1>4, <1>6, <1>7, <1>8, <1>10, TalkStep

\* _send_response keeps the invariant.
LEMMA AnswerStep ==
  ASSUME BrokerInv, NEW h \in Threads, Answer(h)
  PROVE  BrokerInv'
<1>0. /\ daemon = "up" /\ thread[h].pc = "answer" /\ thread[h] \in Conns /\ TypeInv
      /\ Stage(thread[h]) /\ Peer(thread[h]) /\ LockInv /\ Still /\ UNCHANGED faults
  BY Serving DEF Answer, BrokerInv, Still, disk, memory
<1>1. PICK c \in Clients : c = thread[h].c
  BY <1>0 DEF Conns
<1>2. thread[h].op \in Ops /\ thread[h].peer \in BOOLEAN /\ client \in [Clients -> ClientStates]
  BY <1>0 DEF Conns, TypeInv
<1>3. ASSUME thread[h].peer, thread' = [thread EXCEPT ![h] = Idle], NEW s,
             client' = [client EXCEPT ![c] = s],
             s = CASE thread[h].op = "acquire" /\ AcceptsLease(c)   -> "holding"
                   [] thread[h].op = "acquire" /\ ~ AcceptsLease(c) -> "failed"
                   [] OTHER                                         -> "released"
      PROVE  BrokerInv'
  <2>1. CASE thread[h].op = "acquire" /\ AcceptsLease(c)
    <3>1. s = "holding" /\ s \in ClientStates
      BY <1>3, <2>1 DEF ClientStates
    <3>2. ~ Lapsed(c) => Intact(c)
      BY <1>0, <1>1, <2>1 DEF Stage
    <3> QED
      BY <1>0, <1>1, <1>3, <2>1, <3>1, <3>2, LeaveStep
  <2>2. CASE thread[h].op = "acquire" /\ ~ AcceptsLease(c)
    <3>1. s = "failed" /\ s \in ClientStates
      BY <1>3, <2>2 DEF ClientStates
    <3>2. s = Cut(c)
      BY <1>0, <1>1, <1>3, <2>2, <3>1 DEF Peer, Cut
    <3> QED
      BY <1>0, <1>1, <1>3, <2>2, <3>1, <3>2, LeaveStep
  <2>3. CASE thread[h].op = "release"
    <3>1. s = "released" /\ s \in ClientStates
      BY <1>3, <2>3 DEF ClientStates
    <3>2. c \notin Namespaces
      BY <1>0, <1>1, <2>3 DEF Stage
    <3> QED
      BY <1>0, <1>1, <1>3, <2>3, <3>1, <3>2, LeaveStep
  <2> QED
    BY <1>2, <2>1, <2>2, <2>3 DEF Ops
<1>4. CASE ~ thread[h].peer /\ thread[h].op = "acquire" /\ Go(h, "rollback") /\ UNCHANGED client
  <2>1. PICK pc : pc = "rollback"
    OBVIOUS
  <2>2. pc \in Pcs \ Busy /\ thread[h].pc \notin Busy \union {"idle"}
    BY <1>0, <2>1 DEF Pcs, Busy
  <2>3. Unmoved /\ lock' = lock /\ tombs' = tombs
    BY <1>0, <1>4 DEF Unmoved, Still
  <2>4. lock # h
    BY <1>0, <2>2 DEF LockInv
  <2> QED
    BY <1>0, <1>4, <2>1, <2>2, <2>3, <2>4, OutsideStep
<1>5. CASE ~ thread[h].peer /\ thread' = [thread EXCEPT ![h] = Idle] /\ UNCHANGED client
  <2>1. PICK s \in ClientStates : s = client[c]
    BY <1>2
  <2>2. client' = [client EXCEPT ![c] = s]
    BY <1>2, <1>5, <2>1
  <2> QED
    BY <1>0, <1>1, <1>5, <2>1, <2>2, LeaveStep
<1> QED
  BY <1>1, <1>3, <1>4, <1>5 DEF Answer

\* _error_response keeps the invariant.
LEMMA ErrorStep ==
  ASSUME BrokerInv, NEW h \in Threads, Error(h)
  PROVE  BrokerInv'
<1>0. /\ daemon = "up" /\ thread[h].pc = "error" /\ thread[h] \in Conns /\ TypeInv
      /\ Peer(thread[h]) /\ Still /\ UNCHANGED faults
  BY Serving DEF Error, Still, disk, memory
<1>1. PICK c \in Clients : c = thread[h].c
  BY <1>0 DEF Conns
<1>2. thread[h].peer \in BOOLEAN /\ client \in [Clients -> ClientStates]
  BY <1>0 DEF Conns, TypeInv
<1>3. PICK s \in ClientStates : s = IF thread[h].peer THEN Cut(c) ELSE client[c]
  BY <1>2 DEF Cut, ClientStates
<1>4. client' = [client EXCEPT ![c] = s] /\ thread' = [thread EXCEPT ![h] = Idle]
  BY <1>1, <1>2, <1>3 DEF Error
<1> QED
  BY <1>0, <1>1, <1>2, <1>3, <1>4, LeaveStep


-----------------------------------------------------------------------------
(* Time, and the daemon *)

\* Only the source trees and the count of harmless faults change.
LEMMA FrameStep ==
  ASSUME BrokerInv, UNCHANGED <<now, client, daemon, cleaning, thread, lock, ns, records, expires, leases, tombs>>,
         source' \in [Clients -> [1..FileCount -> Versions]],
         faults' \in Counts, faults'.failures = faults.failures
  PROVE  BrokerInv'
<1>1. TypeInv'
  BY DEF BrokerInv, TypeInv
<1>2. LockInv' /\ PeerInv'
  BY DEF BrokerInv, LockInv, PeerInv
<1>3. ASSUME NEW g \in Threads PROVE Conn(thread[g])'
  <2>1. Conn(thread[g])
    BY DEF BrokerInv, ConnInv
  <2>2. thread[g] # Idle => Peer(thread[g])' /\ Stage(thread[g])' /\ Tables(thread[g])' /\ Shape(thread[g])'
    BY <2>1 DEF Conn, Peer, Stage, Tables, Shape, Early, Making, Dropping, Dropped, Evicting, Lapsed, Untouched, Intact, Namespaces
  <2> QED
    BY <2>2 DEF Conn
<1>4. ClientInv'
  BY DEF BrokerInv, ClientInv, Lapsed, Untouched, Intact, Namespaces
<1>5. AgreeInv'
  BY DEF BrokerInv, AgreeInv, Agree, Namespaces
<1> QED
  BY <1>1, <1>2, <1>3, <1>4, <1>5 DEF BrokerInv, ConnInv

\* An edit of a source tree keeps the invariant.
LEMMA EditStep ==
  ASSUME BrokerInv, NEW c \in Clients, EditSource(c)
  PROVE  BrokerInv'
<1>1. TypeInv /\ source \in [Clients -> [1..FileCount -> Versions]]
  BY DEF BrokerInv, TypeInv
<1>2. faults' \in Counts /\ faults'.failures = faults.failures
  BY <1>1, Faults DEF EditSource
<1>3. PICK k \in 1 .. FileCount, v \in Versions : source' = [source EXCEPT ![c][k] = v]
  BY DEF EditSource
<1>4. [source[c] EXCEPT ![k] = v] \in [1..FileCount -> Versions]
  BY <1>1
<1>5. source' \in [Clients -> [1..FileCount -> Versions]]
  BY <1>1, <1>3, <1>4
<1> QED
  BY <1>2, <1>5, FrameStep DEF EditSource, disk, memory

\* Time passes: what has lapsed stays so.
LEMMA TickStep ==
  ASSUME BrokerInv, Tick
  PROVE  BrokerInv'
<1>0. /\ TypeInv /\ LockInv /\ PeerInv /\ ConnInv /\ ClientInv /\ AgreeInv
      /\ UNCHANGED <<client, source, daemon, cleaning, thread, lock, ns, records, expires, leases, tombs, faults>>
      /\ now \in Nat /\ now' = now + 1 /\ expires \in [Clients -> Nat]
  BY DEF BrokerInv, TypeInv, Tick, disk, memory
<1>1. \A c \in Clients : Lapsed(c) => Lapsed(c)'
  <2>1. ASSUME NEW c \in Clients, Lapsed(c) PROVE Lapsed(c)'
    <3>1. expires[c] \in Nat /\ expires'[c] = expires[c] /\ expires[c] < now
      BY <1>0, <2>1 DEF Lapsed
    <3> QED
      BY <1>0, <3>1 DEF Lapsed
  <2> QED
    BY <2>1
<1>2. TypeInv' /\ LockInv' /\ PeerInv'
  <2>1. TypeInv'
    BY <1>0 DEF TypeInv
  <2> QED
    BY <1>0, <2>1 DEF LockInv, PeerInv
<1>3. ASSUME NEW g \in Threads PROVE Conn(thread[g])'
  <2>1. CASE thread[g] = Idle
    BY <1>0, <2>1 DEF Conn
  <2>2. CASE thread[g] # Idle
    <3>1. /\ Shape(thread[g]) /\ Peer(thread[g]) /\ Stage(thread[g]) /\ Tables(thread[g])
          /\ thread[g].c \in Clients /\ thread[g].on \in Clients
      BY <1>0, <2>2, Connections DEF ConnInv, Conn, TypeInv
    <3>2. Shape(thread[g])' /\ Peer(thread[g])' /\ Tables(thread[g])'
      BY <1>0, <3>1 DEF Shape, Peer, Tables, Making, Evicting, Dropping, Dropped, Namespaces
    <3>3. (Lapsed(thread[g].c) => Lapsed(thread[g].c)') /\ (Lapsed(thread[g].on) => Lapsed(thread[g].on)')
      <4>1. PICK a \in Clients, b \in Clients : a = thread[g].c /\ b = thread[g].on
        BY <3>1
      <4>2. thread'[g].c = a /\ thread'[g].on = b
        BY <1>0, <4>1
      <4> QED
        BY <1>1, <4>1, <4>2 DEF Lapsed
    <3>4. Stage(thread[g])'
      BY <1>0, <3>1, <3>3 DEF Stage, Early, Making, Evicting, Untouched, Intact, Namespaces
    <3> QED
      BY <3>2, <3>4 DEF Conn
  <2> QED
    BY <2>1, <2>2
<1>4. ClientInv'
  BY <1>0, <1>1 DEF ClientInv, Untouched, Intact, Namespaces
<1>5. AgreeInv'
  BY <1>0 DEF AgreeInv, Agree, Namespaces
<1> QED
  BY <1>2, <1>3, <1>4, <1>5 DEF BrokerInv, ConnInv

\* No connection is open afterwards.
LEMMA DaemonStep ==
  ASSUME TypeInv', \A h \in Threads : thread'[h] = Idle, lock' = None,
         daemon' = "up" => cleaning' = None, cleaning' # None => ns'[cleaning'].mode = "open",
         ClientInv', AgreeInv'
  PROVE  BrokerInv'
<1>0. \A h \in Threads : thread'[h].pc = "idle" /\ h # None
  BY ConstantsAssumption DEF Idle
<1>1. LockInv'
  BY <1>0 DEF LockInv, Busy
<1>2. PeerInv' /\ ConnInv'
  <2>1. PeerInv'
    BY <1>0 DEF PeerInv
  <2>2. ASSUME NEW h \in Threads PROVE Conn(thread[h])'
    BY DEF Conn
  <2> QED
    BY <2>1, <2>2 DEF ConnInv
<1> QED
  BY <1>1, <1>2 DEF BrokerInv

\* A start, and a recovery that refuses, keep the invariant.
LEMMA StartStep ==
  ASSUME BrokerInv, Start \/ Refuse
  PROVE  BrokerInv'
<1>0. /\ TypeInv /\ LockInv /\ ClientInv /\ daemon # "up" /\ daemon' \in {"down", "starting"}
      /\ UNCHANGED <<now, client, source, cleaning, thread, lock, ns, records, expires, leases, tombs, faults>>
      /\ thread' \in [Threads -> Conns \union {Idle}]
  BY DEF BrokerInv, TypeInv, Start, Refuse, outside, disk, memory
<1>1. /\ TypeInv' /\ AgreeInv' /\ lock' = None /\ (\A h \in Threads : thread'[h] = Idle)
      /\ daemon' # "up" /\ (cleaning' # None => ns'[cleaning'].mode = "open")
  BY <1>0 DEF TypeInv, LockInv, AgreeInv
<1>2. ClientInv'
  BY <1>0 DEF ClientInv, Untouched, Intact, Lapsed, Namespaces
<1> QED
  BY <1>1, <1>2, DaemonStep

\* The end of recovery keeps the invariant.
LEMMA ServeStep ==
  ASSUME BrokerInv, Serve
  PROVE  BrokerInv'
<1>0. /\ TypeInv /\ LockInv /\ ClientInv /\ daemon = "starting" /\ daemon' = "up" /\ cleaning = None
      /\ UNCHANGED <<now, client, source, cleaning, thread, lock, ns, records, expires, faults>>
      /\ tombs' = NoTombs /\ leases' = records
      /\ \A c \in Clients : ~ Stale(c) /\ ~ Orphan(c)
  BY DEF BrokerInv, Serve, Recovered, outside, disk
<1>1. TypeInv' /\ lock' = None /\ (\A h \in Threads : thread'[h] = Idle) /\ cleaning' = None
  BY <1>0 DEF TypeInv, LockInv
<1>2. AgreeInv'
  BY <1>0 DEF AgreeInv, Agree, Stale, Orphan, Namespaces
<1>3. ClientInv'
  <2>1. \A c \in Clients : /\ Untouched(c) => Untouched(c)'
                           /\ Intact(c) => Intact(c)'
                           /\ Lapsed(c) <=> Lapsed(c)'
                           /\ c \in Namespaces <=> c \in Namespaces'
                           /\ tombs'[c] = 0
    BY <1>0 DEF Untouched, Intact, Lapsed, Namespaces, NoTombs
  <2> QED
    BY <1>0, <2>1 DEF ClientInv
<1> QED
  BY <1>1, <1>2, <1>3, DaemonStep

\* A crash keeps the invariant.
LEMMA CrashStep ==
  ASSUME BrokerInv, Crash
  PROVE  BrokerInv'
<1>0. /\ TypeInv /\ ConnInv /\ ClientInv /\ daemon' = "down" /\ cleaning' = None
      /\ UNCHANGED <<now, source, ns, records, expires>>
      /\ thread' = [h \in Threads |-> Idle] /\ lock' = None
      /\ leases' = {} /\ tombs' = NoTombs
      /\ client' = [c \in Clients |-> IF Connected(c) THEN Cut(c) ELSE client[c]]
      /\ faults' \in Counts
  BY Faults DEF BrokerInv, Crash, disk
<1>1. /\ client' \in [Clients -> ClientStates]
      /\ \A c \in Clients : client'[c] = client[c] \/ client'[c] \in {"failed", "unsure"}
      /\ \A c \in Clients : client'[c] = "acquiring" => ~ Connected(c)
  BY <1>0 DEF TypeInv, Cut, ClientStates
<1>2. TypeInv' /\ AgreeInv' /\ (\A h \in Threads : thread'[h] = Idle)
  BY <1>0, <1>1 DEF TypeInv, AgreeInv
<1>3. ASSUME NEW c \in Clients
      PROVE  /\ client'[c] = "new" => Untouched(c)'
             /\ client'[c] = "acquiring" => Untouched(c)'
             /\ client'[c] = "holding" /\ ~ Lapsed(c)' => Intact(c)'
             /\ client'[c] = "released" => c \notin Namespaces'
             /\ tombs'[c] = 0
  <2>0. /\ client[c] = "new" => Untouched(c)
        /\ client[c] = "acquiring" /\ (\A h \in Threads : thread[h].c # c) => Untouched(c)
        /\ client[c] = "holding" /\ ~ Lapsed(c) => Intact(c)
        /\ client[c] = "released" => c \notin Namespaces
    BY <1>0 DEF ClientInv
  <2>1. ASSUME client'[c] = "acquiring", NEW h \in Threads, thread[h].c = c PROVE FALSE
    <3>1. thread[h] # Idle /\ thread[h].op \in Ops /\ thread[h].peer \in BOOLEAN
      BY <1>0, <2>1, Connections DEF TypeInv
    <3>2. Peer(thread[h]) /\ client[c] = "acquiring" /\ ~ thread[h].peer
      BY <1>0, <1>1, <2>1, <3>1 DEF ConnInv, Conn, Connected
    <3> QED
      BY <2>1, <3>1, <3>2 DEF Peer, Past, Ops
  <2>2. /\ Untouched(c) => Untouched(c)'
        /\ Intact(c) => Intact(c)'
        /\ Lapsed(c) <=> Lapsed(c)'
        /\ c \in Namespaces <=> c \in Namespaces'
        /\ tombs'[c] = 0
    BY <1>0 DEF Untouched, Intact, Lapsed, Namespaces, NoTombs
  <2> QED
    BY <1>1, <2>0, <2>1, <2>2
<1>4. ClientInv'
  BY <1>3 DEF ClientInv
<1> QED
  BY <1>0, <1>2, <1>4, DaemonStep

\* Recovery takes away what no client that holds a lease relies on.
LEMMA RecoverStep ==
  ASSUME BrokerInv, NEW c \in Clients, RecoverOpen(c) \/ RecoverDrop(c)
  PROVE  BrokerInv'
<1>0. /\ TypeInv /\ LockInv /\ ClientInv /\ daemon = "starting"
      /\ UNCHANGED <<now, client, source, daemon, thread, lock, expires, leases, tombs, faults>>
      /\ thread' \in [Threads -> Conns \union {Idle}]
      /\ \A h \in Threads : thread[h] = Idle
  BY DEF BrokerInv, TypeInv, LockInv, RecoverOpen, RecoverDrop, outside, memory
<1>1. client[c] = "holding" => Lapsed(c)
  <2>1. client[c] = "holding" /\ ~ Lapsed(c) => ns[c] = Whole /\ c \in records
    BY <1>0 DEF ClientInv, Intact
  <2>2. ns[c] = Whole => c \in Namespaces /\ ns[c].mode = "sealed"
    BY DEF Whole, Namespaces
  <2>3. cleaning = c => ns[c].mode = "open"
    BY <1>0, ConstantsAssumption DEF LockInv
  <2> QED
    BY <1>0, <2>1, <2>2, <2>3 DEF RecoverOpen, RecoverDrop, Orphan, Stale
<1>2. /\ ns' \in [Clients -> [mode : Modes, content : Seq(Versions)]]
      /\ \A d \in Clients : d # c => ns'[d] = ns[d] /\ (d \in records' <=> d \in records)
      /\ records' \subseteq records
      /\ ns'[c] = Absent \/ (c \in Namespaces /\ ns'[c].mode = "open" /\ cleaning' = c)
      /\ cleaning' \in {c, None} /\ (cleaning' = c => ns'[c].mode = "open")
  <2>1. CASE RecoverOpen(c)
    <3>1. c \in Namespaces /\ ns' = Opened(c) /\ records' = records /\ cleaning' = c
      BY <2>1 DEF RecoverOpen, Orphan
    <3> QED
      BY <1>0, <3>1 DEF TypeInv, Opened, Modes
  <2>2. CASE RecoverDrop(c)
    <3>1. ns' = Gone(c) /\ records' = records \ {c} /\ cleaning' = None
      BY <2>2 DEF RecoverDrop
    <3>2. Absent \in [mode : Modes, content : Seq(Versions)]
      BY DEF Absent, Modes
    <3> QED
      BY <1>0, <3>1, <3>2, ConstantsAssumption DEF TypeInv, Gone
  <2> QED
    BY <2>1, <2>2
<1>3. TypeInv' /\ AgreeInv' /\ lock' = None /\ (\A h \in Threads : thread'[h] = Idle) /\ daemon' # "up"
  <2>1. TypeInv'
    BY <1>0, <1>2 DEF TypeInv
  <2> QED
    BY <1>0, <2>1 DEF LockInv, AgreeInv
<1>4. cleaning' # None => ns'[cleaning'].mode = "open"
  BY <1>2
<1>5. ASSUME NEW d \in Clients
      PROVE  /\ client'[d] = "new" => Untouched(d)'
             /\ client'[d] = "acquiring" /\ (\A g \in Threads : thread'[g].c # d) => Untouched(d)'
             /\ client'[d] = "holding" /\ ~ Lapsed(d)' => Intact(d)'
             /\ client'[d] = "released" => d \notin Namespaces'
             /\ tombs'[d] # 0 => d \notin Namespaces' /\ client'[d] \in Past
  <2>0. /\ client[d] = "new" => Untouched(d)
        /\ client[d] = "acquiring" /\ (\A g \in Threads : thread[g].c # d) => Untouched(d)
        /\ client[d] = "holding" /\ ~ Lapsed(d) => Intact(d)
        /\ client[d] = "released" => d \notin Namespaces
        /\ tombs[d] # 0 => d \notin Namespaces /\ client[d] \in Past
    BY <1>0 DEF ClientInv
  <2>1. Lapsed(d) <=> Lapsed(d)'
    BY <1>0 DEF Lapsed
  <2>2. CASE d = c
    <3>1. Absent.mode = "absent"
      BY DEF Absent
    <3>2. c \notin Namespaces => ns'[c] = Absent /\ c \notin Namespaces'
      BY <1>2, <3>1 DEF Namespaces
    <3>3. Untouched(c) => c \notin Namespaces /\ Untouched(c)'
      BY <1>0, <1>2, <3>1, <3>2 DEF Untouched, Namespaces
    <3> QED
      BY <1>0, <1>1, <2>0, <2>1, <2>2, <3>2, <3>3
  <2>3. CASE d # c
    <3>1. /\ Untouched(d) => Untouched(d)'
          /\ Intact(d) => Intact(d)'
          /\ d \in Namespaces <=> d \in Namespaces'
      BY <1>0, <1>2, <2>3 DEF Untouched, Intact, Namespaces
    <3> QED
      BY <1>0, <2>0, <2>1, <3>1
  <2> QED
    BY <2>2, <2>3
<1>6. ClientInv'
  BY <1>5 DEF ClientInv
<1> QED
  BY <1>3, <1>4, <1>6, DaemonStep

-----------------------------------------------------------------------------
(* The theorems *)

\* Every step of a connection keeps the invariant.
LEMMA HandleStep ==
  ASSUME BrokerInv, NEW h \in Threads, Handle(h)
  PROVE  BrokerInv'
BY EvictStep, EvictedStep, CheckStep, ConsumeStep, WriteNonceStep, BeginAcquireStep, CopyStep, SealStep, PersistStep,
   UndoStep, BeginReleaseStep, CleanedStep, RemovingStep, AnswerStep, RollbackStep, RolledStep, ErrorStep DEF Handle

\* Whatever crashes, fails or times out, the broker keeps its invariant.
THEOREM BrokerInvariant == Spec => []BrokerInv
<1>1. Init => BrokerInv
  <2>1. SUFFICES ASSUME Init PROVE BrokerInv
    OBVIOUS
  <2>2. thread \in [Threads -> Conns \union {Idle}] /\ \A h \in Threads : thread[h] = Idle
    BY <2>1 DEF Init
  <2>3. Absent \in [mode : Modes, content : Seq(Versions)]
    BY DEF Absent, Modes
  <2>4. faults \in Counts
    BY <2>1 DEF Init, Counts
  <2>5. TypeInv
    BY <2>1, <2>2, <2>3, <2>4 DEF Init, TypeInv, ClientStates, Versions
  <2>6. LockInv
    BY <2>1, <2>2, ConstantsAssumption DEF Init, LockInv, Idle, Busy
  <2>7. PeerInv /\ ConnInv
    BY <2>2 DEF PeerInv, ConnInv, Conn, Idle
  <2>8. ClientInv
    BY <2>1 DEF Init, ClientInv, Untouched, NoTombs, Namespaces
  <2>9. AgreeInv
    BY <2>1 DEF Init, AgreeInv
  <2> QED
    BY <2>5, <2>6, <2>7, <2>8, <2>9 DEF BrokerInv
<1>2. BrokerInv /\ [Next]_vars => BrokerInv'
  <2>1. SUFFICES ASSUME BrokerInv, [Next]_vars PROVE BrokerInv'
    OBVIOUS
  <2>2. CASE UNCHANGED vars
    <3>1. TypeInv
      BY <2>1 DEF BrokerInv
    <3> QED
      BY <2>1, <2>2, <3>1, FrameStep DEF vars, outside, disk, memory, TypeInv
  <2>3. ASSUME NEW h \in Threads, Handle(h) PROVE BrokerInv'
    BY <2>1, <2>3, HandleStep
  <2>4. ASSUME NEW c \in Clients,
               \/ EditSource(c) \/ Acquire(c) \/ Release(c) \/ RetryRelease(c) \/ ClientTimeout(c)
               \/ Accept(c) \/ RecoverOpen(c) \/ RecoverDrop(c)
        PROVE  BrokerInv'
    BY <2>1, <2>4, EditStep, ClientAsks, TimeoutStep, AcceptStep, RecoverStep
  <2> QED
    BY <2>1, <2>2, <2>3, <2>4, StartStep, ServeStep, CrashStep, TickStep DEF Next
<1> QED
  BY <1>1, <1>2, PTL DEF Spec

\* HeldSnapshotIntact, however many clients and threads there are, whatever
\* fails and wherever the daemon dies: a lease that has not lapsed is the
\* declared tree, sealed, recorded and known.
THEOREM SnapshotsStayIntact == Spec => []HeldSnapshotIntact
<1>1. BrokerInv => HeldSnapshotIntact
  BY DEF BrokerInv, ClientInv, HeldSnapshotIntact, Intact, Whole
<1> QED
  BY <1>1, BrokerInvariant, PTL

\* ProofMeansGone in the same generality: a cleanup proof, the first one or one
\* from a tombstone, is only given once the namespace is gone.
THEOREM ProofsMeanGone == Spec => []ProofMeansGone
<1>1. BrokerInv => ProofMeansGone
  BY DEF BrokerInv, ClientInv, ProofMeansGone
<1> QED
  BY <1>1, BrokerInvariant, PTL

\* TablesAgree: without a failed file operation, a serving daemon between
\* operations has the same leases in memory, in its records and on disk, after
\* any number of crashes and recoveries.
THEOREM TablesStayEqual == Spec => []TablesAgree
<1>1. BrokerInv => TablesAgree
  <2>1. SUFFICES ASSUME BrokerInv, daemon = "up", lock = None, faults.failures = 0
                 PROVE  leases = records /\ leases = Namespaces
    BY DEF TablesAgree
  <2>2. \A h \in Threads : thread[h].pc \notin Busy
    BY <2>1, ConstantsAssumption DEF BrokerInv, LockInv
  <2>3. \A c \in Clients : Agree(c)
    BY <2>1, <2>2 DEF BrokerInv, AgreeInv
  <2>4. leases \subseteq Clients /\ records \subseteq Clients /\ Namespaces \subseteq Clients
    BY <2>1 DEF BrokerInv, TypeInv, Namespaces
  <2> QED
    BY <2>3, <2>4 DEF Agree
<1> QED
  BY <1>1, BrokerInvariant, PTL
=============================================================================
