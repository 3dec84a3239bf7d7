---------------------------- MODULE SidecarProofs ----------------------------
(***************************************************************************)
(* Proofs about the two programs that run beside the workspace.            *)
(*                                                                         *)
(* PairSidecar, for every set of brokers, every wait limit and any number  *)
(* of writes, crashes, failures and edits: the rounds of a task stay       *)
(* sound.                                                                  *)
(*                                                                         *)
(* Monitoring, for every set of schema ranks, every length of the history  *)
(* and any number of submissions and faults: the page never goes back.     *)
(*                                                                         *)
(* They share no state, and no name.                                       *)
(***************************************************************************)
EXTENDS PairSidecar, Monitoring, FiniteSetTheorems, TLAPS

\* What the variables hold; a directory is observed once both files are there.
Whole == {Box(r, d) : r \in Responses, d \in Responses}
Texts == Responses \union {None, Changed}
States == [phase : Phases, seen : Whole \union {Absent}, accepted : [Rounds -> Texts]]
Steps == {"idle", "stop", "prepare", "announce", "launch", "running", "called", "register", "publish",
          "observe", "hash", "move", "check", "copy", "seal", "decide"}
Places == [pc : Steps, k : Stages, st : States]
Call == [stage : Stages, saw : [Rounds -> Texts]]

TypeInv ==
    /\ state \in States
    /\ outbox \in [Rounds -> Boxes \union {Absent}] /\ imported \in [Rounds -> Boxes \union {Absent}]
    /\ canonical \in [Rounds -> Texts]
    /\ seals \in [Rounds -> Responses \union {None, Changed, Torn}]
    /\ broker \in [Brokers -> Places]
    /\ calls \in Seq(Call)

\* Only the broker that has the lock is in a pass.
LockInv == \A b \in Brokers : broker[b].pc # "idle" => lock = b

\* A round that may be accepted, once it is not a STOP.
Found(r) ==
    /\ imported[r].there /\ imported[r].response \in Responses \ {"bad"}
    /\ imported[r].done = imported[r].response
    /\ r \in ripe
Sound(accepted, r) ==
    accepted[r] # None =>
      /\ Found(r) /\ accepted[r] \in {imported[r].response, Changed} /\ imported[r].response # "stop"
      /\ canonical[r] \in {accepted[r], Changed}

\* The rounds that ended before stage k or with it were accepted, and no other.
Complete(accepted, k) == \A r \in Rounds : 2 * r <= k <=> accepted[r] # None
\* The answer of stage k is relied on in a phase
Reached(phase, k) == \E j \in Stages : (j >= k /\ phase = After[j]) \/ (j > k /\ phase = Running[j])
Saw(k, accepted) == \A r \in Rounds : 2 * r <= k => calls[k].saw[r] = accepted[r]

\* The phase tells how many stages have run.
CallsInv ==
    /\ state.phase = "NEW" => Len(calls) = 0 /\ \A r \in Rounds : state.accepted[r] = None
    /\ \A j \in Stages : state.phase = After[j] => Len(calls) = j
    /\ \A j \in Stages : state.phase = Running[j] => Len(calls) \in {j - 1, j}
    /\ \A i \in 1..Len(calls) : calls[i].stage = i
    /\ 2 \in told => Len(calls) >= 3
\* What the state says was accepted holds together, and was what Codex read.
AcceptInv ==
    /\ \A j \in Stages : state.phase \in {Running[j], After[j]} => Complete(state.accepted, j)
    /\ state.phase # "PAIR_SAFE_STOP" => \A r \in Rounds : Sound(state.accepted, r)
    /\ \A k \in {2, 4} : Reached(state.phase, k) => Saw(k, state.accepted)
\* A readable seal is that of the import, or of an edit of its copy, also before
\* the state records it.
SealInv ==
    \A r \in Rounds : seals[r] \notin {None, Torn} =>
      imported[r].there /\ seals[r] \in {imported[r].response, Changed}
\* What the state has seen, if DONE names the response, was shown in the outbox
\* of the round, and a period ago once it is settled; the outbox of a round not
\* asked for is empty.
Blank == {Absent, Box(None, None)}
Matched(s) == s # Absent /\ s.response = s.done
SeenInv ==
    /\ \A r \in Rounds : r \notin told => outbox[r] \in Blank
    /\ \A r \in Rounds : ~ imported[r].there => outbox[r] \in Blank \union shown
    /\ \A r \in Rounds : state.phase = After[2 * r - 1] =>
         /\ imported[r].there /\ imported[r] = state.seen /\ Matched(state.seen) => r \in ripe
         /\ ~ imported[r].there /\ Matched(state.seen) => state.seen \in shown
         /\ ~ imported[r].there /\ Matched(state.seen) /\ settled => state.seen \in old

\* What a pass has established where it is: what it read is still so, although
\* the agent writes, files are edited and time passes meanwhile.
Before == {"prepare", "observe", "hash", "move", "check", "copy", "seal"}
Importing == {"observe", "hash", "move", "check", "copy", "seal", "decide"}
Calling == {"running", "called", "register", "publish"}
Ready(k, st) ==
    /\ k = 1 => state.phase = "NEW"
    /\ k # 1 => state.phase = After[k - 1]
    /\ st.phase = state.phase
\* Between the two hashes of a round: DONE names the response only if both were
\* there at one time.
Hashing(box, r) ==
    /\ box \in Whole /\ ~ imported[r].there
    /\ outbox[r].there /\ outbox[r].response # None /\ outbox[r].done # None
    /\ outbox[r].done = box.response => Box(box.response, box.response) \in shown
Pass(pc, k, st) ==
    /\ pc \in Before \union {"decide", "announce"} => Ready(k, st)
    /\ pc \in Before => st.accepted = state.accepted
    /\ pc = "prepare" => IsAgent(k)
    /\ pc \in Importing => ~ IsAgent(k)
    /\ pc = "hash" => Hashing(st.seen, RoundOf(k))
    /\ pc = "move" => /\ outbox[RoundOf(k)].there /\ ~ imported[RoundOf(k)].there
                      /\ settled /\ state.seen # Absent
    /\ pc = "check" => imported[RoundOf(k)].there
    /\ pc \in {"copy", "seal", "decide"} => Found(RoundOf(k))
    /\ pc \in {"seal", "decide"} => canonical[RoundOf(k)] \in {imported[RoundOf(k)].response, Changed}
    /\ pc = "decide" => \E x \in {imported[RoundOf(k)].response, Changed} :
         /\ st.accepted = [state.accepted EXCEPT ![RoundOf(k)] = x]
         /\ canonical[RoundOf(k)] \in {x, Changed}
    /\ pc = "announce" =>
         /\ Complete(st.accepted, k) /\ \A r \in Rounds : Sound(st.accepted, r)
         /\ \A r \in Rounds : state.accepted[r] # None => st.accepted[r] = state.accepted[r]
    /\ pc \in {"launch"} \union Calling => state.phase = Running[k] /\ st.accepted = state.accepted
    /\ pc = "launch" => Len(calls) = k - 1
    /\ pc \in Calling => Len(calls) = k
    /\ pc \in {"running", "called"} => \A r \in Rounds :
         2 * r <= k => \/ calls[k].saw[r] = state.accepted[r]
                       \/ canonical[r] = Changed /\ state.accepted[r] # Changed
    /\ pc \in {"register", "publish"} => k = 4 /\ Saw(4, state.accepted)
PassInv == \A b \in Brokers : Pass(broker[b].pc, broker[b].k, broker[b].st)

PairInv == TypeInv /\ LockInv /\ CallsInv /\ AcceptInv /\ SealInv /\ SeenInv /\ PassInv

-----------------------------------------------------------------------------
(* Phases, stages and directories *)

\* The phases differ, and each of them is a phase.
LEMMA PhaseNames ==
  /\ \A j, k \in Stages : Running[j] # After[k]
  /\ \A j, k \in Stages : Running[j] = Running[k] => j = k
  /\ \A j, k \in Stages : After[j] = After[k] => j = k
  /\ \A j \in Stages : Running[j] \notin {"NEW", "PAIR_SAFE_STOP"} /\ After[j] \notin {"NEW", "PAIR_SAFE_STOP"}
  /\ \A j \in Stages : Running[j] \in Phases /\ After[j] \in Phases
  /\ After[4] = "PAIR_CANDIDATE"
<1>1. Stages = {1, 2, 3, 4}
  BY DEF Stages
<1>2. /\ Running[1] = "RUNNING_ANTIGRAVITY_R1" /\ Running[2] = "RUNNING_CODEX_R1"
      /\ Running[3] = "RUNNING_ANTIGRAVITY_R2" /\ Running[4] = "RUNNING_CODEX_CANDIDATE"
      /\ After[1] = "WAIT_ANTIGRAVITY_R1" /\ After[2] = "CODEX_R1_DONE"
      /\ After[3] = "WAIT_ANTIGRAVITY_R2" /\ After[4] = "PAIR_CANDIDATE"
  BY DEF Running, After
<1>3. \A j \in Stages : Running[j] \in Phases /\ After[j] \in Phases
  BY DEF Phases
<1> QED
  BY <1>1, <1>2, <1>3

\* The stages of a round: 2r - 1 is the agent's, 2r is Codex's.
LEMMA RoundNumbers ==
  /\ Rounds = {1, 2} /\ Stages = {1, 2, 3, 4}
  /\ RoundOf(1) = 1 /\ RoundOf(2) = 1 /\ RoundOf(3) = 2 /\ RoundOf(4) = 2
  /\ \A k \in Stages : RoundOf(k) \in Rounds
  /\ \A k \in Stages : IsAgent(k) <=> k \in {1, 3}
  /\ \A k \in Stages : ~ IsAgent(k) => k = 2 * RoundOf(k) /\ k - 1 = 2 * RoundOf(k) - 1 /\ k # 1
<1>1. Rounds = {1, 2} /\ Stages = {1, 2, 3, 4}
  BY DEF Rounds, Stages
<1>2. RoundOf(1) = 1 /\ RoundOf(2) = 1 /\ RoundOf(3) = 2 /\ RoundOf(4) = 2
  BY Z3 DEF RoundOf
<1> QED
  BY <1>1, <1>2 DEF IsAgent

\* The stage a pass starts follows the one its phase stands for.
LEMMA NextStages ==
  ASSUME NEW phase \in Phases, phase \notin {"PAIR_SAFE_STOP", "PAIR_CANDIDATE"},
         \A j \in Stages : phase # Running[j]
  PROVE  /\ NextStage(phase) \in Stages
         /\ NextStage(phase) = 1 => phase = "NEW"
         /\ NextStage(phase) # 1 => phase = After[NextStage(phase) - 1]
<1>1. CASE phase = "NEW"
  BY <1>1, RoundNumbers DEF NextStage
<1>2. ASSUME NEW j \in Stages, phase = After[j]
      PROVE  NextStage(phase) = j + 1 /\ j \in 1 .. 3
  <2>1. j # 4
    BY <1>2, PhaseNames
  <2>2. (CHOOSE k \in Stages : After[k] = phase) = j
    BY <1>2, PhaseNames
  <2>3. phase # "NEW"
    BY <1>2, PhaseNames
  <2>4. j \in 1 .. 3
    BY <2>1, RoundNumbers
  <2>5. NextStage(phase) = j + 1
    BY <2>2, <2>3 DEF NextStage
  <2> QED
    BY <2>4, <2>5
<1>3. ASSUME NEW j \in Stages, phase = After[j]
      PROVE  /\ NextStage(phase) \in Stages /\ NextStage(phase) # 1
             /\ phase = After[NextStage(phase) - 1]
  <2>1. j + 1 \in Stages /\ j + 1 # 1 /\ j + 1 - 1 = j
    BY <1>2, <1>3, RoundNumbers
  <2> QED
    BY <1>2, <1>3, <2>1
<1> QED
  BY <1>1, <1>3 DEF Phases

\* The fields of a directory, and the texts that are told apart.
LEMMA BoxFacts ==
  /\ \A x, y : Box(x, y).there = TRUE /\ Box(x, y).response = x /\ Box(x, y).done = y
  /\ Absent.there = FALSE
  /\ None \notin Responses /\ Changed \notin Responses /\ Torn \notin Responses /\ None # Changed /\ None # Torn
  /\ Changed # Torn /\ Responses = {"go", "revised", "stop", "bad"}
<1>1. \A x, y : Box(x, y).there = TRUE /\ Box(x, y).response = x /\ Box(x, y).done = y
  BY DEF Box
<1>2. Absent.there = FALSE
  BY DEF Absent
<1> QED
  BY <1>1, <1>2, ConstantsAssumption DEF Responses, Changed, Torn

\* A directory that is there is its response and its DONE.
LEMMA BoxTyped ==
  ASSUME NEW x \in Boxes \union {Absent}
  PROVE  /\ x.there \in BOOLEAN
         /\ x.there <=> x # Absent
         /\ x.there => /\ x \in Boxes /\ x.response \in Responses \union {None}
                       /\ x.done \in Responses \union {None}
                       /\ x = Box(x.response, x.done)
                       /\ x.response # None /\ x.done # None => x \in Whole
<1>1. CASE x = Absent
  BY <1>1, BoxFacts
<1>2. CASE x \in Boxes
  <2>1. PICK r \in Responses \union {None}, d \in Responses \union {None} : x = Box(r, d)
    BY <1>2 DEF Boxes
  <2>2. x.there = TRUE /\ x.response = r /\ x.done = d
    BY <2>1, BoxFacts
  <2>3. x # Absent
    BY <2>2, BoxFacts
  <2>4. r # None /\ d # None => x \in Whole
    BY <2>1 DEF Whole
  <2> QED
    BY <1>2, <2>1, <2>2, <2>3, <2>4
<1> QED
  BY <1>1, <1>2

\* While a broker has the lock, or nobody has, no other one is in a pass.
LEMMA Others ==
  ASSUME LockInv, NEW b \in Brokers, lock \in {b, None}, NEW c \in Brokers, c # b
  PROVE  broker[c].pc = "idle"
  BY ConstantsAssumption DEF LockInv

\* A broker between passes, or about to stop, has nothing to keep true.
LEMMA PassIdle ==
  ASSUME NEW CONSTANT pc \in {"idle", "stop"}, NEW CONSTANT k, NEW CONSTANT st
  PROVE  Pass(pc, k, st) /\ Pass(pc, k, st)'
  BY DEF Pass, Before, Importing, Calling

\* The state of a new task.
LEMMA NewTyped ==
  Idle(NewState) \in Places /\ Idle(NewState).pc = "idle" /\ NewState \in States
<1>1. NewState \in States
  BY RoundNumbers DEF NewState, States, Phases, Texts
<1>2. 1 \in Stages /\ "idle" \in Steps
  BY RoundNumbers DEF Steps
<1> QED
  BY <1>1, <1>2 DEF Idle, Places

\* What Go does to the brokers.
LEMMA GoEffect ==
  ASSUME TypeInv, NEW b \in Brokers, NEW pc \in Steps, Go(b, pc)
  PROVE  /\ broker' \in [Brokers -> Places] /\ lock' = lock
         /\ broker'[b].pc = pc /\ broker'[b].k = broker[b].k /\ broker'[b].st = broker[b].st
         /\ \A c \in Brokers : c # b => broker'[c] = broker[c]
<1>1. broker[b] \in Places /\ broker \in [Brokers -> Places]
  BY DEF TypeInv
<1>2. broker' = [broker EXCEPT ![b] = [broker[b] EXCEPT !.pc = pc]] /\ lock' = lock
  BY DEF Go
<1>3. PICK new : new = [broker[b] EXCEPT !.pc = pc]
  OBVIOUS
<1>4. new \in Places /\ new.pc = pc /\ new.k = broker[b].k /\ new.st = broker[b].st
  BY <1>1, <1>3 DEF Places
<1> QED
  BY <1>1, <1>2, <1>3, <1>4

\* What Leave does to the brokers.
LEMMA LeaveEffect ==
  ASSUME TypeInv, NEW b \in Brokers, Leave(b)
  PROVE  /\ broker' \in [Brokers -> Places] /\ lock' = None
         /\ broker'[b].pc = "idle"
         /\ \A c \in Brokers : c # b => broker'[c] = broker[c]
  BY NewTyped DEF TypeInv, Leave

-----------------------------------------------------------------------------
(* Steps of a pass, by what they change *)

\* The broker that has the lock moves to a place where its pass is sound.
LEMMA PassMoves ==
  ASSUME LockInv, NEW b \in Brokers, lock \in {b, None},
         \A c \in Brokers : c # b => broker'[c] = broker[c],
         broker'[b].pc # "idle" => lock' = b,
         NEW CONSTANT pc, NEW CONSTANT k, NEW CONSTANT st,
         broker'[b].pc = pc, broker'[b].k = k, broker'[b].st = st,
         Pass(pc, k, st)'
  PROVE  LockInv' /\ PassInv'
<1>1. ASSUME NEW c \in Brokers, c # b PROVE broker'[c].pc = "idle"
  BY <1>1, Others
<1>2. LockInv'
  BY <1>1 DEF LockInv
<1>3. ASSUME NEW c \in Brokers PROVE Pass(broker[c].pc, broker[c].k, broker[c].st)'
  <2>1. CASE c = b
    <3>1. (Pass(broker[c].pc, broker[c].k, broker[c].st))' <=> Pass(pc, k, st)'
      BY <2>1 DEF Pass, Ready, Hashing
    <3> QED
      BY <3>1
  <2>2. CASE c # b
    <3>1. broker'[c].pc = "idle"
      BY <1>1, <2>2
    <3> QED
      BY <3>1 DEF Pass, Before, Importing, Calling
  <2> QED
    BY <2>1, <2>2
<1> QED
  BY <1>2, <1>3 DEF PassInv

\* What the files may do under a pass without any effect on what was recorded.
Gentle ==
    /\ UNCHANGED <<state, settled, imported, calls, told, shown, old, ripe>>
    /\ canonical' \in [Rounds -> Texts]
    /\ \A r \in Rounds : \/ canonical'[r] \in {canonical[r], Changed}
                         \/ canonical[r] = None /\ canonical'[r] = imported[r].response
    /\ seals' \in [Rounds -> Responses \union {None, Changed, Torn}]
    /\ \A r \in Rounds : seals'[r] \in {seals[r], Torn} \/ (imported[r].there /\ seals'[r] \in {imported[r].response, Changed})
    /\ outbox' \in [Rounds -> Boxes \union {Absent}]
    /\ \A r \in Rounds : outbox'[r] \in {outbox[r]} \union Blank

\* What was recorded stands while the files are treated gently.
LEMMA GentleKeeps ==
  ASSUME PairInv, Gentle, broker' \in [Brokers -> Places]
  PROVE  TypeInv' /\ CallsInv' /\ AcceptInv' /\ SealInv' /\ SeenInv'
<1>0. TypeInv /\ CallsInv /\ AcceptInv /\ SealInv /\ SeenInv
  BY DEF PairInv
<1>1. TypeInv'
  BY <1>0 DEF TypeInv, Gentle
<1>2. CallsInv'
  BY <1>0 DEF CallsInv, Gentle
<1>3. SealInv'
  BY <1>0 DEF SealInv, Gentle
<1>4. AcceptInv'
  <2>1. ASSUME NEW r \in Rounds, Sound(state.accepted, r) PROVE Sound(state.accepted, r)'
    <3>1. Found(r) => Found(r)'
      BY DEF Found, Gentle
    <3> QED
      BY <2>1, <3>1 DEF Sound, Gentle
  <2>2. ASSUME NEW j \in Stages, Complete(state.accepted, j) PROVE Complete(state.accepted, j)'
    BY <2>2 DEF Complete, Gentle
  <2>3. ASSUME NEW k \in {2, 4}, Reached(state.phase, k)', Saw(k, state.accepted)
        PROVE  Reached(state.phase, k) /\ Saw(k, state.accepted)'
    BY <2>3 DEF Reached, Saw, Gentle
  <2>4. ASSUME NEW k \in {2, 4}, Reached(state.phase, k)' PROVE Reached(state.phase, k)
    BY <2>4 DEF Reached, Gentle
  <2>5. state' = state
    BY DEF Gentle
  <2> QED
    BY <1>0, <2>1, <2>2, <2>3, <2>4, <2>5 DEF AcceptInv
<1>5. SeenInv'
  BY <1>0 DEF SeenInv, Gentle
<1> QED
  BY <1>1, <1>2, <1>3, <1>4, <1>5

\* A step of the pass under the lock that is gentle to the files.
LEMMA GentleStep ==
  ASSUME PairInv, Gentle, NEW b \in Brokers, lock \in {b, None},
         broker' \in [Brokers -> Places],
         \A c \in Brokers : c # b => broker'[c] = broker[c],
         broker'[b].pc # "idle" => lock' = b,
         NEW CONSTANT pc, NEW CONSTANT k, NEW CONSTANT st,
         broker'[b].pc = pc, broker'[b].k = k, broker'[b].st = st,
         Pass(pc, k, st)'
  PROVE  PairInv'
<1>1. LockInv' /\ PassInv'
  BY PassMoves DEF PairInv
<1>2. TypeInv' /\ CallsInv' /\ AcceptInv' /\ SealInv' /\ SeenInv'
  BY GentleKeeps
<1> QED
  BY <1>1, <1>2 DEF PairInv

\* A pass may stop wherever it is.
LEMMA StopStep ==
  ASSUME PairInv, Gentle, NEW b \in Brokers, lock = b, Stop(b)
  PROVE  PairInv'
<1>1. /\ broker' \in [Brokers -> Places] /\ lock' = lock
      /\ broker'[b].pc = "stop" /\ \A c \in Brokers : c # b => broker'[c] = broker[c]
  BY GoEffect DEF Stop, PairInv, Steps
<1>2. PICK pc, k, st : pc = broker'[b].pc /\ k = broker'[b].k /\ st = broker'[b].st
  OBVIOUS
<1>3. Pass(pc, k, st)'
  BY <1>1, <1>2, PassIdle
<1> QED
  BY <1>1, <1>2, <1>3, GentleStep

\* A pass may end wherever it is.
LEMMA LeaveStep ==
  ASSUME PairInv, Gentle, NEW b \in Brokers, lock = b, Leave(b)
  PROVE  PairInv'
<1>1. /\ broker' \in [Brokers -> Places]
      /\ broker'[b].pc = "idle" /\ \A c \in Brokers : c # b => broker'[c] = broker[c]
  BY LeaveEffect DEF PairInv
<1>2. PICK pc, k, st : pc = broker'[b].pc /\ k = broker'[b].k /\ st = broker'[b].st
  OBVIOUS
<1>3. Pass(pc, k, st)'
  BY <1>1, <1>2, PassIdle
<1> QED
  BY <1>1, <1>2, <1>3, GentleStep

\* A pass goes on where it finds what the next step expects.
LEMMA GoStep ==
  ASSUME PairInv, Gentle, NEW b \in Brokers, lock = b, NEW CONSTANT pc \in Steps, Go(b, pc),
         NEW CONSTANT k, NEW CONSTANT st, k = broker[b].k, st = broker[b].st,
         Pass(pc, k, st)'
  PROVE  PairInv'
<1>1. /\ broker' \in [Brokers -> Places] /\ lock' = lock
      /\ broker'[b].pc = pc /\ broker'[b].k = k /\ broker'[b].st = st
      /\ \A c \in Brokers : c # b => broker'[c] = broker[c]
  BY GoEffect DEF PairInv
<1> QED
  BY <1>1, GentleStep

\* A broker in a pass has the lock.
LEMMA Held ==
  ASSUME PairInv, NEW b \in Brokers, broker[b].pc # "idle"
  PROVE  /\ lock = b /\ broker[b].k \in Stages /\ broker[b].st \in States
         /\ Pass(broker[b].pc, broker[b].k, broker[b].st)
  BY DEF PairInv, LockInv, PassInv, TypeInv, Places

\* Nothing the invariant speaks of changes.
LEMMA FilesStill ==
  ASSUME PairInv, UNCHANGED <<state, settled, rounds, calls, told, shown, old, ripe>>
  PROVE  Gentle
<1>1. UNCHANGED <<outbox, imported, canonical, seals>>
  BY DEF rounds
<1> QED
  BY <1>1 DEF Gentle, PairInv, TypeInv

\* The assertions, and the quarantine of a late result, only move an outbox away.
LEMMA AssertionsGentle ==
  ASSUME PairInv, UNCHANGED <<state, settled, imported, canonical, seals, calls, told, shown, old, ripe>>,
         NEW s, Assertions(s) \/ (\E r \in Rounds : Quarantine(r))
  PROVE  Gentle
<1>1. /\ outbox \in [Rounds -> Boxes \union {Absent}]
      /\ canonical \in [Rounds -> Texts] /\ seals \in [Rounds -> Responses \union {None, Changed, Torn}]
  BY DEF PairInv, TypeInv
<1>2. outbox' = outbox \/ \E r \in Rounds : outbox' = [outbox EXCEPT ![r] = Absent]
  <2>1. CASE \E r \in Rounds : Quarantine(r)
    BY <2>1 DEF Quarantine
  <2>2. CASE Assertions(s)
    <3>1. CASE outbox' = outbox
      BY <3>1
    <3>2. CASE Broken(s) # {} /\ Quarantine(Min(Broken(s)))
      <4>1. Broken(s) \subseteq Rounds
        BY DEF Broken
      <4>2. Min(Broken(s)) \in Broken(s)
        <5>1. \E x \in Broken(s) : \A y \in Broken(s) : x <= y
          BY <3>2, <4>1, RoundNumbers
        <5> QED
          BY <5>1 DEF Min
      <4> QED
        BY <3>2, <4>1, <4>2 DEF Quarantine
    <3> QED
      BY <2>2, <3>1, <3>2 DEF Assertions
  <2> QED
    BY <2>1, <2>2
<1>3. outbox' \in [Rounds -> Boxes \union {Absent}] /\ \A r \in Rounds : outbox'[r] \in {outbox[r]} \union Blank
  BY <1>1, <1>2 DEF Blank
<1> QED
  BY <1>1, <1>3 DEF Gentle

\* What a pass knows stays true while files and state stand still.
LEMMA PassStays ==
  ASSUME UNCHANGED <<state, settled, rounds, calls, shown, ripe>>,
         NEW CONSTANT pc, NEW CONSTANT k, NEW CONSTANT st, Pass(pc, k, st)
  PROVE  Pass(pc, k, st)'
<1>1. UNCHANGED <<outbox, imported, canonical, seals>>
  BY DEF rounds
<1>2. \A r : Found(r) => Found(r)'
  BY <1>1 DEF Found
<1>3. \A a, r : Sound(a, r) => Sound(a, r)'
  BY <1>1, <1>2 DEF Sound
<1>4. Ready(k, st) => Ready(k, st)'
  BY DEF Ready
<1>5. Complete(st.accepted, k) => Complete(st.accepted, k)'
  BY DEF Complete
<1>6. Saw(4, state.accepted) => Saw(4, state.accepted)'
  BY DEF Saw
<1>7. Hashing(st.seen, RoundOf(k)) => Hashing(st.seen, RoundOf(k))'
  BY <1>1 DEF Hashing
<1> QED
  BY <1>1, <1>2, <1>3, <1>4, <1>5, <1>6, <1>7 DEF Pass

-----------------------------------------------------------------------------
(* The steps of a pass *)

\* The start of a pass keeps the invariant.
LEMMA BeginStep ==
  ASSUME PairInv, NEW b \in Brokers, Begin(b)
  PROVE  PairInv'
<1>0. /\ lock = None /\ lock' = b /\ state \in States /\ broker \in [Brokers -> Places]
      /\ state.phase # "PAIR_SAFE_STOP"
  BY DEF Begin, PairInv, TypeInv
<1>1. UNCHANGED <<state, settled, imported, canonical, seals, calls, told, shown, old, ripe>>
  BY DEF Begin, clock, agent, history
<1>2. ASSUME NEW pc \in Steps, NEW k \in Stages,
             broker' = [broker EXCEPT ![b] = [pc |-> pc, k |-> k, st |-> state]]
      PROVE  /\ broker' \in [Brokers -> Places]
             /\ broker'[b].pc = pc /\ broker'[b].k = k /\ broker'[b].st = state
             /\ \A c \in Brokers : c # b => broker'[c] = broker[c]
  <2>1. [pc |-> pc, k |-> k, st |-> state] \in Places
    BY <1>0 DEF Places
  <2> QED
    BY <1>0, <1>2, <2>1
<1>3. CASE /\ broker' = [broker EXCEPT ![b] = [pc |-> "stop", k |-> 1, st |-> state]]
           /\ Assertions(state)
  <2>1. Gentle
    BY <1>1, <1>3, AssertionsGentle
  <2>2. "stop" \in Steps /\ 1 \in Stages
    BY RoundNumbers DEF Steps
  <2>3. /\ broker' \in [Brokers -> Places] /\ broker'[b].pc = "stop"
        /\ \A c \in Brokers : c # b => broker'[c] = broker[c]
    BY <1>2, <1>3, <2>2
  <2>4. PICK pc, k, st : pc = broker'[b].pc /\ k = broker'[b].k /\ st = broker'[b].st
    OBVIOUS
  <2>5. Pass(pc, k, st)'
    BY <2>3, <2>4, PassIdle
  <2> QED
    BY <1>0, <2>1, <2>3, <2>4, <2>5, GentleStep
<1>4. CASE /\ state.phase # "PAIR_CANDIDATE" /\ ~ MustStop(state)
           /\ LET k == NextStage(state.phase)
              IN  broker' = [broker EXCEPT ![b] =
                               [pc |-> IF IsAgent(k) THEN "prepare" ELSE "observe", k |-> k, st |-> state]]
           /\ UNCHANGED outbox
  <2>1. state.phase \in Phases /\ \A j \in Stages : state.phase # Running[j]
    BY <1>0, <1>4 DEF MustStop, InFlight, States
  <2>2. PICK k \in Stages : /\ k = NextStage(state.phase) /\ (k = 1 => state.phase = "NEW")
                            /\ (k # 1 => state.phase = After[k - 1])
    BY <1>0, <1>4, <2>1, NextStages
  <2>3. PICK pc \in Steps : pc = IF IsAgent(k) THEN "prepare" ELSE "observe"
    BY DEF Steps
  <2>4. PICK st \in States : st = state
    BY <1>0
  <2>5. /\ broker' \in [Brokers -> Places]
        /\ broker'[b].pc = pc /\ broker'[b].k = k /\ broker'[b].st = st
        /\ \A c \in Brokers : c # b => broker'[c] = broker[c]
    BY <1>2, <1>4, <2>2, <2>3, <2>4
  <2>6. Pass(pc, k, st)
    BY <2>2, <2>3, <2>4 DEF Pass, Before, Importing, Calling, Ready
  <2>7. UNCHANGED rounds
    BY <1>1, <1>4 DEF rounds
  <2>8. Pass(pc, k, st)'
    BY <1>1, <2>6, <2>7, PassStays
  <2>9. Gentle
    BY <1>1, <2>7, FilesStill
  <2> QED
    BY <1>0, <2>5, <2>8, <2>9, GentleStep
<1> QED
  BY <1>3, <1>4 DEF Begin

\* A step that changes nothing but the place of the broker.
LEMMA StillGo ==
  ASSUME PairInv, NEW b \in Brokers, broker[b].pc # "idle",
         UNCHANGED <<state, settled, rounds, calls, told, shown, old, ripe>>,
         NEW CONSTANT pc \in Steps, Go(b, pc),
         NEW CONSTANT k, NEW CONSTANT st, k = broker[b].k, st = broker[b].st, Pass(pc, k, st)
  PROVE  PairInv'
<1>1. Pass(pc, k, st)' /\ Gentle
  BY PassStays, FilesStill
<1>2. lock = b
  BY Held
<1> QED
  BY <1>1, <1>2, GoStep

\* A pass that stops or ends, with nothing written.
LEMMA StillStop ==
  ASSUME PairInv, NEW b \in Brokers, broker[b].pc # "idle",
         UNCHANGED <<state, settled, rounds, calls, told, shown, old, ripe>>, Stop(b) \/ Leave(b)
  PROVE  PairInv'
<1>1. Gentle
  BY FilesStill
<1>2. lock = b
  BY Held
<1> QED
  BY <1>1, <1>2, StopStep, LeaveStep

\* Initialize-AgentOutboxRound keeps the invariant.
LEMMA PrepareStep ==
  ASSUME PairInv, NEW b \in Brokers, Prepare(b)
  PROVE  PairInv'
<1>0. broker[b].pc = "prepare" /\ TypeInv /\ AcceptInv /\ CallsInv
  BY DEF Prepare, At, PairInv
<1>1. UNCHANGED <<state, settled, imported, canonical, seals, calls, told, shown, old, ripe>>
  BY DEF Prepare, clock, agent, history
<1>2. PICK k \in Stages, st \in States : k = broker[b].k /\ st = broker[b].st /\ Pass("prepare", k, st)
  BY <1>0, Held
<1>3. lock = b
  BY <1>0, Held
<1>4. CASE Stop(b) /\ UNCHANGED outbox
  <2>1. UNCHANGED rounds
    BY <1>1, <1>4 DEF rounds
  <2> QED
    BY <1>0, <1>1, <1>4, <2>1, StillStop
<1>5. CASE outbox' = [outbox EXCEPT ![RoundOf(broker[b].k)] = Box(None, None)] /\ Go(b, "announce")
  <2>0. RoundOf(k) \in Rounds /\ outbox \in [Rounds -> Boxes \union {Absent}]
    BY <1>0, RoundNumbers DEF TypeInv
  <2>1. Box(None, None) \in Boxes
    BY DEF Boxes
  <2>2. outbox' \in [Rounds -> Boxes \union {Absent}] /\ \A r \in Rounds : outbox'[r] \in {outbox[r]} \union Blank
    BY <1>2, <1>5, <2>0, <2>1 DEF Blank
  <2>3. Gentle
    BY <1>0, <1>1, <2>2 DEF Gentle, TypeInv
  <2>4. Ready(k, st) /\ st.accepted = state.accepted /\ IsAgent(k)
    BY <1>2 DEF Pass, Before
  <2>5. state.phase # "PAIR_SAFE_STOP" /\ Complete(state.accepted, k)
    <3>1. CASE k = 1
      <4>1. state.phase = "NEW" /\ \A r \in Rounds : state.accepted[r] = None /\ ~ (2 * r <= 1)
        BY <1>0, <2>4, <3>1, RoundNumbers DEF Ready, CallsInv
      <4> QED
        BY <3>1, <4>1 DEF Complete
    <3>2. CASE k = 3
      <4>1. state.phase = After[2] /\ 2 \in Stages
        BY <2>4, <3>2, RoundNumbers DEF Ready
      <4>2. Complete(state.accepted, 2)
        BY <1>0, <4>1 DEF AcceptInv
      <4>3. \A r \in Rounds : 2 * r <= 3 <=> 2 * r <= 2
        BY RoundNumbers
      <4> QED
        BY <3>2, <4>1, <4>2, <4>3, PhaseNames DEF Complete
    <3> QED
      BY <2>4, <3>1, <3>2, RoundNumbers
  <2>6. \A r \in Rounds : Sound(state.accepted, r)
    BY <1>0, <2>5 DEF AcceptInv
  <2>7. Pass("announce", k, st)'
    <3>1. \A r \in Rounds : Sound(st.accepted, r)'
      BY <1>1, <2>4, <2>6 DEF Sound, Found
    <3>2. Complete(st.accepted, k)'
      BY <2>4, <2>5 DEF Complete
    <3>3. Ready(k, st)'
      BY <1>1, <2>4 DEF Ready
    <3> QED
      BY <1>1, <2>4, <3>1, <3>2, <3>3 DEF Pass, Before, Importing, Calling
  <2>8. PICK pc \in Steps : pc = "announce"
    BY DEF Steps
  <2> QED
    BY <1>2, <1>3, <1>5, <2>3, <2>7, <2>8, GoStep
<1> QED
  BY <1>4, <1>5 DEF Prepare

\* A state is written that waits for nothing observed yet.
LEMMA WrittenStep ==
  ASSUME PairInv, NEW b \in Brokers, lock = b, state' \in States,
         UNCHANGED <<rounds, calls, told, shown, old, ripe>>,
         state'.seen = Absent \/ state'.phase = "PAIR_SAFE_STOP",
         CallsInv', AcceptInv',
         broker' \in [Brokers -> Places],
         \A c \in Brokers : c # b => broker'[c] = broker[c],
         broker'[b].pc # "idle" => lock' = b,
         NEW CONSTANT pc, NEW CONSTANT k, NEW CONSTANT st,
         broker'[b].pc = pc, broker'[b].k = k, broker'[b].st = st,
         Pass(pc, k, st)'
  PROVE  PairInv'
<1>0. UNCHANGED <<outbox, imported, canonical, seals>> /\ TypeInv /\ SealInv /\ SeenInv
  BY DEF rounds, PairInv
<1>1. LockInv' /\ PassInv'
  BY PassMoves DEF PairInv
<1>2. TypeInv'
  BY <1>0 DEF TypeInv
<1>3. SealInv'
  BY <1>0 DEF SealInv
<1>4. SeenInv'
  <2>1. ASSUME NEW r \in Rounds, state'.phase = After[2 * r - 1]
        PROVE  state'.seen = Absent /\ ~ (imported[r].there /\ imported[r] = Absent)
    <3>1. 2 * r - 1 \in Stages
      BY RoundNumbers
    <3>2. state'.seen = Absent
      BY <2>1, <3>1, PhaseNames
    <3>3. imported[r] \in Boxes \union {Absent}
      BY <1>0 DEF TypeInv
    <3> QED
      BY <3>2, <3>3, BoxTyped
  <2> QED
    BY <1>0, <2>1 DEF SeenInv, Matched
<1> QED
  BY <1>1, <1>2, <1>3, <1>4, <1>0 DEF PairInv

\* Set-PairSafeStop keeps the invariant.
LEMMA SafeStopStep ==
  ASSUME PairInv, NEW b \in Brokers, SafeStop(b)
  PROVE  PairInv'
<1>0. broker[b].pc = "stop" /\ state \in States /\ CallsInv /\ AcceptInv /\ TypeInv
  BY DEF SafeStop, At, PairInv, TypeInv
<1>1. /\ state' = [state EXCEPT !.phase = "PAIR_SAFE_STOP"] /\ Leave(b)
      /\ UNCHANGED <<rounds, calls, told, shown, old, ripe>>
  BY DEF SafeStop, SetState, agent, history
<1>2. state' \in States /\ state'.phase = "PAIR_SAFE_STOP"
  BY <1>0, <1>1 DEF States, Phases
<1>3. \A j \in Stages : state'.phase \notin {"NEW", Running[j], After[j]}
  BY <1>2, PhaseNames
<1>4. CallsInv'
  BY <1>0, <1>1, <1>3 DEF CallsInv
<1>5. AcceptInv'
  <2>1. \A k : ~ Reached(state.phase, k)'
    BY <1>3 DEF Reached
  <2> QED
    BY <1>2, <1>3, <2>1 DEF AcceptInv
<1>6. /\ broker' \in [Brokers -> Places]
      /\ broker'[b].pc = "idle" /\ \A c \in Brokers : c # b => broker'[c] = broker[c]
  BY <1>0, <1>1, LeaveEffect
<1>7. PICK pc, k, st : pc = broker'[b].pc /\ k = broker'[b].k /\ st = broker'[b].st
  OBVIOUS
<1>8. Pass(pc, k, st)'
  BY <1>6, <1>7, PassIdle
<1>9. lock = b
  BY <1>0, Held
<1> QED
  BY <1>1, <1>2, <1>4, <1>5, <1>6, <1>7, <1>8, <1>9, WrittenStep

\* The phase after a stage is written once its call has ended.
LEMMA AfterStep ==
  ASSUME PairInv, NEW b \in Brokers, lock = b, NEW k \in Stages, state.phase = Running[k], Len(calls) = k,
         k \in {2, 4} => Saw(k, state.accepted),
         state' \in States, state'.phase = After[k], state'.accepted = state.accepted,
         state'.seen = Absent, Leave(b),
         UNCHANGED <<rounds, calls, told, shown, old, ripe>>
  PROVE  PairInv'
<1>0. CallsInv /\ AcceptInv /\ TypeInv /\ UNCHANGED <<outbox, imported, canonical, seals>>
  BY DEF PairInv, rounds
<1>1. CallsInv'
  BY <1>0, PhaseNames DEF CallsInv
<1>2. AcceptInv'
  <2>1. ASSUME NEW j \in Stages, state'.phase \in {Running[j], After[j]} PROVE Complete(state.accepted, j)'
    <3>1. j = k
      BY <2>1, PhaseNames
    <3>2. Complete(state.accepted, j)
      BY <1>0, <3>1 DEF AcceptInv
    <3> QED
      BY <3>2 DEF Complete
  <2>2. ASSUME NEW r \in Rounds PROVE Sound(state.accepted, r)'
    <3>1. Sound(state.accepted, r)
      BY <1>0, PhaseNames DEF AcceptInv
    <3> QED
      BY <1>0, <3>1 DEF Sound, Found
  <2>3. ASSUME NEW m \in {2, 4}, Reached(state.phase, m)' PROVE Saw(m, state.accepted)'
    <3>1. m <= k
      BY <2>3, PhaseNames DEF Reached
    <3>2. m \in Stages /\ (m = k \/ m < k)
      BY <3>1, RoundNumbers
    <3>3. m < k => Reached(state.phase, m)
      BY DEF Reached
    <3>4. Saw(m, state.accepted)
      BY <1>0, <3>2, <3>3 DEF AcceptInv
    <3> QED
      BY <3>4 DEF Saw
  <2> QED
    BY <2>1, <2>2, <2>3 DEF AcceptInv
<1>3. /\ broker' \in [Brokers -> Places]
      /\ broker'[b].pc = "idle" /\ \A c \in Brokers : c # b => broker'[c] = broker[c]
  BY <1>0, LeaveEffect
<1>4. PICK pc, k1, st : pc = broker'[b].pc /\ k1 = broker'[b].k /\ st = broker'[b].st
  OBVIOUS
<1>5. Pass(pc, k1, st)'
  BY <1>3, <1>4, PassIdle
<1> QED
  BY <1>1, <1>2, <1>3, <1>4, <1>5, WrittenStep

\* The end of an adapter keeps the invariant.
LEMMA FinishStep ==
  ASSUME PairInv, NEW b \in Brokers, Finish(b)
  PROVE  PairInv'
<1>0. broker[b].pc = "running"
  BY DEF Finish, At
<1>1. UNCHANGED <<state, settled, rounds, calls, told, shown, old, ripe>>
  BY DEF Finish, clock, agent, history
<1>2. PICK k \in Stages, st \in States : k = broker[b].k /\ st = broker[b].st /\ Pass("running", k, st)
  BY <1>0, Held
<1>3. CASE Stop(b)
  BY <1>0, <1>1, <1>3, StillStop
<1>4. CASE Go(b, "called")
  <2>1. Pass("called", k, st)
    BY <1>2 DEF Pass, Before, Importing, Calling
  <2>2. PICK pc \in Steps : pc = "called"
    BY DEF Steps
  <2> QED
    BY <1>0, <1>1, <1>2, <1>4, <2>1, <2>2, StillGo
<1> QED
  BY <1>3, <1>4 DEF Finish

\* Seals that hold show that the call could read what was accepted.
LEMMA SealsShow ==
  ASSUME PairInv, NEW k \in Stages, NEW st \in States, Pass("called", k, st), SealsHold(st), k \in {2, 4}
  PROVE  Saw(k, state.accepted)
<1>1. /\ state.phase = Running[k] /\ st.accepted = state.accepted
      /\ \A r \in Rounds :
           2 * r <= k => \/ calls[k].saw[r] = state.accepted[r]
                         \/ canonical[r] = Changed /\ state.accepted[r] # Changed
  BY DEF Pass, Calling
<1>2. Complete(state.accepted, k) /\ \A r \in Rounds : Sound(state.accepted, r)
  BY <1>1, PhaseNames DEF PairInv, AcceptInv
<1>3. ASSUME NEW r \in Rounds, 2 * r <= k PROVE calls[k].saw[r] = state.accepted[r]
  <2>1. state.accepted[r] # None
    BY <1>2, <1>3 DEF Complete
  <2>2. ~ Unsealed(st, r)
    BY DEF SealsHold, Broken
  <2>3. canonical[r] = state.accepted[r]
    BY <1>1, <2>1, <2>2 DEF Unsealed
  <2> QED
    BY <1>1, <1>3, <2>3
<1> QED
  BY <1>3 DEF Saw

\* What follows a call keeps the invariant.
LEMMA CalledStep ==
  ASSUME PairInv, NEW b \in Brokers, Called(b)
  PROVE  PairInv'
<1>0. broker[b].pc = "called" /\ lock = b
  BY Held DEF Called, At
<1>1. UNCHANGED <<imported, canonical, seals, calls, told, shown, old, ripe>>
  BY DEF Called, agent, history
<1>2. PICK k \in Stages, st \in States : k = broker[b].k /\ st = broker[b].st /\ Pass("called", k, st)
  BY <1>0, Held
<1>3. state.phase = Running[k] /\ st.accepted = state.accepted /\ Len(calls) = k
  BY <1>2 DEF Pass, Calling
<1>4. CASE Stop(b) /\ Assertions(st) /\ UNCHANGED <<state, clock>>
  <2>1. UNCHANGED <<state, settled>>
    BY <1>4 DEF clock
  <2>2. Gentle
    BY <1>1, <1>4, <2>1, AssertionsGentle
  <2> QED
    BY <1>0, <1>4, <2>2, StopStep
<1>5. CASE /\ SealsHold(st) /\ UNCHANGED outbox
           /\ \/ k = 4 /\ Go(b, "register") /\ UNCHANGED <<state, clock>>
              \/ Stop(b) /\ UNCHANGED <<state, clock>>
              \/ k # 4 /\ SetState([broker[b].st EXCEPT !.phase = After[k], !.seen = Absent]) /\ Leave(b)
  <2>0. UNCHANGED rounds
    BY <1>1, <1>5 DEF rounds
  <2>1. CASE k = 4 /\ Go(b, "register") /\ UNCHANGED <<state, clock>>
    <3>1. Saw(4, state.accepted)
      BY <1>2, <1>5, <2>1, SealsShow
    <3>2. Pass("register", k, st)
      BY <1>3, <2>1, <3>1 DEF Pass, Before, Importing, Calling
    <3>3. PICK pc \in Steps : pc = "register"
      BY DEF Steps
    <3>4. UNCHANGED <<state, settled>>
      BY <2>1 DEF clock
    <3> QED
      BY <1>0, <1>1, <1>2, <2>0, <2>1, <3>2, <3>3, <3>4, StillGo
  <2>2. CASE Stop(b) /\ UNCHANGED <<state, clock>>
    <3>1. UNCHANGED <<state, settled>>
      BY <2>2 DEF clock
    <3> QED
      BY <1>0, <1>1, <2>0, <2>2, <3>1, StillStop
  <2>3. CASE k # 4 /\ SetState([broker[b].st EXCEPT !.phase = After[k], !.seen = Absent]) /\ Leave(b)
    <3>1. state' = [st EXCEPT !.phase = After[k], !.seen = Absent]
      BY <1>2, <2>3 DEF SetState
    <3>2. After[k] \in Phases
      BY PhaseNames
    <3>3. /\ state' \in States /\ state'.phase = After[k] /\ state'.accepted = state.accepted
          /\ state'.seen = Absent
      BY <1>3, <3>1, <3>2 DEF States
    <3>4. k \in {2, 4} => Saw(k, state.accepted)
      BY <1>2, <1>5, SealsShow
    <3> QED
      BY <1>0, <1>1, <1>3, <2>0, <2>3, <3>3, <3>4, AfterStep
  <2> QED
    BY <1>5, <2>1, <2>2, <2>3
<1>6. \/ Stop(b) /\ Assertions(st) /\ UNCHANGED <<state, clock>>
      \/ /\ SealsHold(st) /\ UNCHANGED outbox
         /\ CASE k = 4 -> Go(b, "register") /\ UNCHANGED <<state, clock>>
              [] k = 2 /\ answers[k] = "stop" -> Stop(b) /\ UNCHANGED <<state, clock>>
              [] OTHER -> SetState([broker[b].st EXCEPT !.phase = After[k], !.seen = Absent]) /\ Leave(b)
  BY <1>2 DEF Called, Asserted, Undisturbed
<1> QED
  BY <1>4, <1>5, <1>6

\* Register-PairCandidateSeal keeps the invariant.
LEMMA RegisterStep ==
  ASSUME PairInv, NEW b \in Brokers, Register(b)
  PROVE  PairInv'
<1>0. broker[b].pc = "register" /\ lock = b
  BY Held DEF Register, At
<1>1. UNCHANGED <<imported, canonical, seals, calls, told, shown, old, ripe>>
  BY DEF Register, agent, history
<1>2. PICK k \in Stages, st \in States : k = broker[b].k /\ st = broker[b].st /\ Pass("register", k, st)
  BY <1>0, Held
<1>3. UNCHANGED <<state, settled>>
  BY DEF Register, Asserted, clock
<1>4. CASE Stop(b) /\ Assertions(st)
  <2>1. Gentle
    BY <1>1, <1>3, <1>4, AssertionsGentle
  <2> QED
    BY <1>0, <1>4, <2>1, StopStep
<1>5. CASE Go(b, "publish") /\ UNCHANGED outbox
  <2>1. UNCHANGED rounds
    BY <1>1, <1>5 DEF rounds
  <2>2. Pass("publish", k, st)
    BY <1>2 DEF Pass, Before, Importing, Calling
  <2>3. PICK pc \in Steps : pc = "publish"
    BY DEF Steps
  <2> QED
    BY <1>0, <1>1, <1>2, <1>3, <1>5, <2>1, <2>2, <2>3, StillGo
<1> QED
  BY <1>2, <1>4, <1>5 DEF Register, Asserted

\* The publication of the candidate keeps the invariant.
LEMMA PublishStep ==
  ASSUME PairInv, NEW b \in Brokers, Publish(b)
  PROVE  PairInv'
<1>0. broker[b].pc = "publish" /\ lock = b
  BY Held DEF Publish, At
<1>1. UNCHANGED <<rounds, calls, told, shown, old, ripe>>
  BY DEF Publish, agent, history
<1>2. PICK k \in Stages, st \in States : k = broker[b].k /\ st = broker[b].st /\ Pass("publish", k, st)
  BY <1>0, Held
<1>3. /\ k = 4 /\ state.phase = Running[k] /\ st.accepted = state.accepted /\ Len(calls) = k
      /\ Saw(k, state.accepted)
  BY <1>2 DEF Pass, Calling
<1>4. CASE Stop(b) /\ UNCHANGED <<state, clock>>
  <2>1. UNCHANGED <<state, settled>>
    BY <1>4 DEF clock
  <2> QED
    BY <1>0, <1>1, <1>4, <2>1, StillStop
<1>5. CASE SetState([broker[b].st EXCEPT !.phase = "PAIR_CANDIDATE", !.seen = Absent]) /\ Leave(b)
  <2>1. After[k] \in Phases /\ After[k] = "PAIR_CANDIDATE"
    BY <1>3, PhaseNames
  <2>2. state' = [st EXCEPT !.phase = After[k], !.seen = Absent]
    BY <1>2, <1>5, <2>1 DEF SetState
  <2>3. /\ state' \in States /\ state'.phase = After[k] /\ state'.accepted = state.accepted
        /\ state'.seen = Absent
    BY <1>3, <2>1, <2>2 DEF States
  <2> QED
    BY <1>0, <1>1, <1>3, <1>5, <2>3, AfterStep
<1> QED
  BY <1>4, <1>5 DEF Publish

\* The check of an import keeps the invariant: only what had been observed for a
\* quiescence period before the move goes on.
LEMMA CheckStep ==
  ASSUME PairInv, NEW b \in Brokers, Check(b)
  PROVE  PairInv'
<1>0. broker[b].pc = "check" /\ lock = b /\ TypeInv /\ SeenInv
  BY Held DEF Check, At, PairInv
<1>1. UNCHANGED <<state, settled, rounds, calls, told, shown, old, ripe>>
  BY DEF Check, clock, agent, history
<1>2. PICK k \in Stages, st \in States : k = broker[b].k /\ st = broker[b].st /\ Pass("check", k, st)
  BY <1>0, Held
<1>3. CASE Stop(b)
  BY <1>0, <1>1, <1>3, StillStop
<1>4. CASE Acceptable(imported[RoundOf(broker[b].k)], state) /\ Go(b, "copy")
  <2>1. PICK r \in Rounds : r = RoundOf(k)
    BY RoundNumbers
  <2>2. /\ Ready(k, st) /\ ~ IsAgent(k) /\ imported[r].there /\ st.accepted = state.accepted
    BY <1>2, <2>1 DEF Pass, Before, Importing
  <2>3. /\ imported[r] = state.seen /\ imported[r].response = imported[r].done
        /\ imported[r].response # "bad"
    BY <1>2, <1>4, <2>1 DEF Acceptable
  <2>4. state.phase = After[2 * r - 1]
    BY <2>1, <2>2, RoundNumbers DEF Ready
  <2>5. imported[r].response \in Responses /\ state.seen # Absent
    <3>1. state.seen \in Whole
      <4>1. state.seen \in Whole \union {Absent} /\ imported[r] \in Boxes \union {Absent}
        BY <1>0 DEF TypeInv, States
      <4> QED
        BY <2>2, <2>3, <4>1, BoxTyped
    <3>2. PICK x \in Responses, y \in Responses : state.seen = Box(x, y)
      BY <3>1 DEF Whole
    <3> QED
      BY <2>3, <3>2, BoxFacts
  <2>6. r \in ripe
    BY <1>0, <2>2, <2>3, <2>4, <2>5 DEF SeenInv, Matched
  <2>7. Found(r)
    BY <2>2, <2>3, <2>5, <2>6 DEF Found
  <2>8. Pass("copy", k, st)
    BY <2>1, <2>2, <2>7 DEF Pass, Before, Importing, Calling
  <2>9. PICK pc \in Steps : pc = "copy"
    BY DEF Steps
  <2> QED
    BY <1>0, <1>1, <1>2, <1>4, <2>8, <2>9, StillGo
<1> QED
  BY <1>3, <1>4 DEF Check

\* The decision after an import keeps the invariant.
LEMMA DecideStep ==
  ASSUME PairInv, NEW b \in Brokers, Decide(b)
  PROVE  PairInv'
<1>0. broker[b].pc = "decide" /\ lock = b /\ TypeInv /\ AcceptInv
  BY Held DEF Decide, At, PairInv
<1>1. UNCHANGED <<state, settled, rounds, calls, told, shown, old, ripe>>
  BY DEF Decide, clock, agent, history
<1>2. PICK k \in Stages, st \in States : k = broker[b].k /\ st = broker[b].st /\ Pass("decide", k, st)
  BY <1>0, Held
<1>3. CASE Stop(b)
  BY <1>0, <1>1, <1>3, StillStop
<1>4. CASE imported[RoundOf(broker[b].k)].response # "stop" /\ Go(b, "announce")
  <2>1. PICK r \in Rounds : r = RoundOf(k)
    BY RoundNumbers
  <2>x. PICK x \in {imported[r].response, Changed} :
          st.accepted = [state.accepted EXCEPT ![r] = x] /\ canonical[r] \in {x, Changed}
    BY <1>2, <2>1 DEF Pass
  <2>2. Ready(k, st) /\ ~ IsAgent(k) /\ Found(r)
    BY <1>2, <2>1 DEF Pass, Importing
  <2>3. state.phase = After[k - 1] /\ k - 1 \in Stages /\ k = 2 * r /\ state.accepted \in [Rounds -> Texts]
    BY <1>0, <2>1, <2>2, RoundNumbers DEF Ready, TypeInv, States
  <2>4. Complete(state.accepted, k - 1) /\ \A q \in Rounds : Sound(state.accepted, q)
    BY <1>0, <2>3, PhaseNames DEF AcceptInv
  <2>5. st.accepted[r] = x /\ \A q \in Rounds : q # r => st.accepted[q] = state.accepted[q]
    BY <2>x, <2>3
  <2>6. imported[r].response # "stop" /\ imported[r].response \in Responses
    BY <1>2, <1>4, <2>1, <2>2 DEF Found
  <2>7. Complete(st.accepted, k)
    <3>1. \A q \in Rounds : q # r => (2 * q <= k <=> 2 * q <= k - 1)
      BY <2>3, RoundNumbers
    <3>2. x # None
      BY <2>x, <2>6, BoxFacts
    <3> QED
      BY <2>3, <2>4, <2>5, <3>1, <3>2, RoundNumbers DEF Complete
  <2>8. ASSUME NEW q \in Rounds PROVE Sound(st.accepted, q)
    <3>1. CASE q = r
      BY <2>x, <2>2, <2>5, <2>6, <3>1 DEF Sound
    <3>2. CASE q # r
      BY <2>4, <2>5, <3>2 DEF Sound
    <3> QED
      BY <3>1, <3>2
  <2>9. ASSUME NEW q \in Rounds, state.accepted[q] # None PROVE st.accepted[q] = state.accepted[q]
    <3>1. ~ (2 * r <= k - 1)
      BY <2>3, RoundNumbers
    <3> QED
      BY <2>4, <2>5, <2>9, <3>1 DEF Complete
  <2>10. Pass("announce", k, st)
    BY <2>2, <2>7, <2>8, <2>9 DEF Pass, Before, Importing, Calling
  <2>11. PICK pc \in Steps : pc = "announce"
    BY DEF Steps
  <2> QED
    BY <1>0, <1>1, <1>2, <1>4, <2>10, <2>11, StillGo
<1> QED
  BY <1>3, <1>4 DEF Decide

\* Copy-ArtifactImmutable keeps the invariant.
LEMMA CopyStep ==
  ASSUME PairInv, NEW b \in Brokers, Copy(b)
  PROVE  PairInv'
<1>0. broker[b].pc = "copy" /\ lock = b /\ TypeInv
  BY Held DEF Copy, At, PairInv
<1>1. UNCHANGED <<state, settled, outbox, imported, seals, calls, told, shown, old, ripe>>
  BY DEF Copy, clock, agent, history
<1>2. PICK k \in Stages, st \in States : k = broker[b].k /\ st = broker[b].st /\ Pass("copy", k, st)
  BY <1>0, Held
<1>3. PICK r \in Rounds : r = RoundOf(k)
  BY RoundNumbers
<1>4. CASE Stop(b) /\ UNCHANGED canonical
  <2>1. UNCHANGED rounds
    BY <1>1, <1>4 DEF rounds
  <2> QED
    BY <1>0, <1>1, <1>4, <2>1, StillStop
<1>5. CASE /\ canonical[r] \in {None, imported[r].response}
           /\ canonical' = [canonical EXCEPT ![r] = imported[r].response] /\ Go(b, "seal")
  <2>1. /\ Ready(k, st) /\ ~ IsAgent(k) /\ Found(r) /\ st.accepted = state.accepted
    BY <1>2, <1>3 DEF Pass, Before, Importing
  <2>2. imported[r].response \in Texts
    BY <2>1 DEF Found, Texts
  <2>3. Gentle /\ canonical'[r] = imported[r].response
    BY <1>0, <1>1, <1>5, <2>2 DEF Gentle, TypeInv
  <2>4. Ready(k, st)' /\ Found(r)'
    BY <1>1, <2>1 DEF Ready, Found
  <2>5. Pass("seal", k, st)'
    BY <1>1, <1>3, <2>1, <2>3, <2>4 DEF Pass, Before, Importing, Calling
  <2>6. PICK pc \in Steps : pc = "seal"
    BY DEF Steps
  <2> QED
    BY <1>0, <1>2, <1>5, <2>3, <2>5, <2>6, GoStep
<1> QED
  BY <1>2, <1>3, <1>4, <1>5 DEF Copy

\* Register-AcceptedAgentRound keeps the invariant.
LEMMA SealStep ==
  ASSUME PairInv, NEW b \in Brokers, Seal(b)
  PROVE  PairInv'
<1>0. broker[b].pc = "seal" /\ lock = b /\ TypeInv /\ broker \in [Brokers -> Places] /\ lock' = lock
  BY Held DEF Seal, At, PairInv, TypeInv
<1>1. UNCHANGED <<state, settled, outbox, imported, canonical, calls, told, shown, old, ripe>>
  BY DEF Seal, clock, agent, history
<1>2. PICK k \in Stages, st \in States : k = broker[b].k /\ st = broker[b].st /\ Pass("seal", k, st)
  BY <1>0, Held
<1>3. PICK r \in Rounds : r = RoundOf(k)
  BY RoundNumbers
<1>4. CASE broker' = [broker EXCEPT ![b].pc = "stop"] /\ UNCHANGED seals
  <2>1. UNCHANGED rounds /\ Stop(b)
    BY <1>0, <1>1, <1>4 DEF rounds, Stop, Go
  <2> QED
    BY <1>0, <1>1, <2>1, StillStop
<1>5. CASE /\ seals[r] \in {None, canonical[r]}
           /\ seals' = [seals EXCEPT ![r] = canonical[r]]
           /\ broker' = [broker EXCEPT ![b].pc = "decide", ![b].st.accepted[r] = canonical[r]]
  <2>1. /\ Ready(k, st) /\ ~ IsAgent(k) /\ Found(r) /\ st.accepted = state.accepted
        /\ canonical[r] \in {imported[r].response, Changed}
    BY <1>2, <1>3 DEF Pass, Before, Importing
  <2>2. imported[r].response \in Responses /\ imported[r].there
    BY <2>1 DEF Found
  <2>3. PICK x \in {imported[r].response, Changed} : x = canonical[r]
    BY <2>1
  <2>4. Gentle
    BY <1>0, <1>1, <1>5, <2>2, <2>3 DEF Gentle, TypeInv
  <2>5. PICK new : new = [st EXCEPT !.accepted = [st.accepted EXCEPT ![r] = x]]
    OBVIOUS
  <2>6. /\ new \in States /\ new.phase = st.phase
        /\ new.accepted = [st.accepted EXCEPT ![r] = x]
    <3>1. x \in Texts
      BY <2>2, <2>3 DEF Texts
    <3> QED
      BY <2>5, <3>1 DEF States
  <2>7. broker' = [broker EXCEPT ![b] = [broker[b] EXCEPT !.pc = "decide", !.st = new]]
    <3>1. broker[b] \in Places
      BY <1>0
    <3> QED
      BY <1>0, <1>2, <1>5, <2>3, <2>5, <3>1 DEF Places, States
  <2>8. PICK place : place = [broker[b] EXCEPT !.pc = "decide", !.st = new]
    OBVIOUS
  <2>9. place \in Places /\ place.pc = "decide" /\ place.k = k /\ place.st = new
    <3>1. broker[b] \in Places /\ "decide" \in Steps
      BY <1>0 DEF Steps
    <3> QED
      BY <1>2, <2>6, <2>8, <3>1 DEF Places
  <2>10. /\ broker' \in [Brokers -> Places] /\ broker'[b] = place
         /\ \A c \in Brokers : c # b => broker'[c] = broker[c]
    BY <1>0, <2>7, <2>8, <2>9
  <2>11. Ready(k, new)' /\ Found(r)'
    BY <1>1, <2>1, <2>6 DEF Ready, Found
  <2>12. Pass("decide", k, new)'
    <3>1. x \in {imported[r].response, Changed}'
      BY <1>1, <2>3
    <3>2. /\ new.accepted = [state.accepted EXCEPT ![r] = x]'
          /\ (canonical[r] \in {x, Changed})'
      BY <1>1, <2>1, <2>3, <2>6
    <3>3. (canonical[r] \in {imported[r].response, Changed})'
      BY <1>1, <2>1
    <3> QED
      BY <1>1, <1>3, <2>1, <2>6, <2>11, <3>1, <3>2, <3>3 DEF Pass, Before, Importing, Calling
  <2>13. PICK pc : pc = "decide"
    OBVIOUS
  <2> QED
    BY <1>0, <2>4, <2>9, <2>10, <2>12, <2>13, GentleStep
<1> QED
  BY <1>2, <1>3, <1>4, <1>5 DEF Seal

\* The RUNNING state keeps the invariant.
LEMMA AnnounceStep ==
  ASSUME PairInv, NEW b \in Brokers, Announce(b)
  PROVE  PairInv'
<1>0. broker[b].pc = "announce" /\ lock = b /\ TypeInv /\ AcceptInv /\ CallsInv
  BY Held DEF Announce, At, PairInv
<1>1. UNCHANGED <<rounds, calls, told, shown, old, ripe>> /\ Go(b, "launch")
  BY DEF Announce, agent, history
<1>2. PICK k \in Stages, st \in States : k = broker[b].k /\ st = broker[b].st /\ Pass("announce", k, st)
  BY <1>0, Held
<1>3. /\ Ready(k, st) /\ Complete(st.accepted, k) /\ \A r \in Rounds : Sound(st.accepted, r)
      /\ \A r \in Rounds : state.accepted[r] # None => st.accepted[r] = state.accepted[r]
  BY <1>2 DEF Pass
<1>4. state' = [st EXCEPT !.phase = Running[k], !.seen = Absent]
  BY <1>2 DEF Announce, SetState
<1>5. /\ state' \in States /\ state'.phase = Running[k] /\ state'.accepted = st.accepted
      /\ state'.seen = Absent
  <2>1. Running[k] \in Phases
    BY PhaseNames
  <2> QED
    BY <1>4, <2>1 DEF States
<1>6. k # 1 => k - 1 \in Stages /\ state.phase = After[k - 1]
  BY <1>3, RoundNumbers DEF Ready
<1>7. Len(calls) = k - 1
  <2>1. CASE k = 1
    BY <1>0, <1>3, <2>1 DEF Ready, CallsInv
  <2>2. CASE k # 1
    BY <1>0, <1>6, <2>2 DEF CallsInv
  <2> QED
    BY <2>1, <2>2
<1>8. CallsInv'
  <2>1. \A j \in Stages : state'.phase # After[j] /\ (state'.phase = Running[j] => j = k)
    BY <1>5, PhaseNames
  <2>2. state'.phase # "NEW"
    BY <1>5, PhaseNames
  <2> QED
    BY <1>0, <1>1, <1>7, <2>1, <2>2 DEF CallsInv
<1>9. UNCHANGED <<outbox, imported, canonical, seals>>
  BY <1>1 DEF rounds
<1>10. AcceptInv'
  <2>1. ASSUME NEW j \in Stages, state'.phase \in {Running[j], After[j]} PROVE Complete(state.accepted, j)'
    <3>1. j = k
      BY <1>5, <2>1, PhaseNames
    <3> QED
      BY <1>3, <1>5, <3>1 DEF Complete
  <2>2. ASSUME NEW r \in Rounds PROVE Sound(state.accepted, r)'
    BY <1>1, <1>3, <1>5, <1>9 DEF Sound, Found
  <2>3. ASSUME NEW m \in {2, 4}, Reached(state.phase, m)' PROVE Saw(m, state.accepted)'
    <3>1. m < k
      BY <1>5, <2>3, PhaseNames DEF Reached
    <3>2. k # 1 /\ k - 1 \in Stages /\ k - 1 >= m /\ state.phase = After[k - 1]
      BY <1>6, <3>1, RoundNumbers
    <3>3. Reached(state.phase, m)
      BY <3>2 DEF Reached
    <3>4. Saw(m, state.accepted) /\ Complete(state.accepted, k - 1)
      BY <1>0, <3>2, <3>3 DEF AcceptInv
    <3>5. ASSUME NEW r \in Rounds, 2 * r <= m PROVE st.accepted[r] = state.accepted[r]
      <4>1. 2 * r <= k - 1
        BY <3>1, <3>5, RoundNumbers
      <4> QED
        BY <1>3, <3>4, <4>1 DEF Complete
    <3> QED
      BY <1>1, <1>5, <3>4, <3>5 DEF Saw
  <2> QED
    BY <2>1, <2>2, <2>3 DEF AcceptInv
<1>11. PICK pc \in Steps : pc = "launch"
  BY DEF Steps
<1>12. /\ broker' \in [Brokers -> Places] /\ lock' = lock
       /\ broker'[b].pc = pc /\ broker'[b].k = k /\ broker'[b].st = st
       /\ \A c \in Brokers : c # b => broker'[c] = broker[c]
  BY <1>0, <1>1, <1>2, <1>11, GoEffect
<1>13. Pass(pc, k, st)'
  BY <1>1, <1>5, <1>7, <1>11 DEF Pass, Before, Importing, Calling
<1> QED
  BY <1>0, <1>1, <1>5, <1>8, <1>10, <1>12, <1>13, WrittenStep

\* The start of an adapter keeps the invariant: it is the next stage, and can
\* read what was accepted.
LEMMA LaunchStep ==
  ASSUME PairInv, NEW b \in Brokers, Launch(b)
  PROVE  PairInv'
<1>0. /\ broker[b].pc = "launch" /\ lock = b /\ TypeInv /\ AcceptInv /\ CallsInv /\ SealInv /\ SeenInv
      /\ LockInv
  BY Held DEF Launch, At, PairInv
<1>1. UNCHANGED <<state, settled, rounds, shown, old, ripe>> /\ Go(b, "running")
  BY DEF Launch, clock
<1>2. PICK k \in Stages, st \in States : k = broker[b].k /\ st = broker[b].st /\ Pass("launch", k, st)
  BY <1>0, Held
<1>3. UNCHANGED <<outbox, imported, canonical, seals>>
  BY <1>1 DEF rounds
<1>4. state.phase = Running[k] /\ st.accepted = state.accepted /\ Len(calls) = k - 1
  BY <1>2 DEF Pass
<1>5. PICK x : x = [stage |-> k, saw |-> canonical]
  OBVIOUS
<1>6. x \in Call /\ x.stage = k /\ x.saw = canonical /\ calls' = Append(calls, x) /\ calls \in Seq(Call)
  <2>1. canonical \in [Rounds -> Texts] /\ calls \in Seq(Call)
    BY <1>0 DEF TypeInv
  <2> QED
    BY <1>2, <1>5, <2>1 DEF Launch, Call
<1>7. /\ calls' \in Seq(Call) /\ Len(calls') = k /\ calls'[k] = x
      /\ \A i \in 1 .. (k - 1) : calls'[i] = calls[i]
  <2>1. /\ calls' \in Seq(Call) /\ Len(calls') = Len(calls) + 1 /\ calls'[Len(calls) + 1] = x
        /\ \A i \in 1 .. Len(calls) : calls'[i] = calls[i]
    BY <1>6
  <2>2. Len(calls) + 1 = k
    BY <1>4, RoundNumbers
  <2> QED
    BY <1>4, <2>1, <2>2
<1>8. told' = told \/ (IsAgent(k) /\ told' = told \union {RoundOf(k)})
  BY <1>2 DEF Launch
<1>9. CallsInv'
  <2>1. \A j \in Stages : state'.phase # After[j] /\ (state'.phase = Running[j] => j = k)
    BY <1>1, <1>4, PhaseNames
  <2>2. state'.phase # "NEW"
    BY <1>1, <1>4, PhaseNames
  <2>3. ASSUME NEW i \in 1 .. Len(calls') PROVE calls'[i].stage = i
    <3>1. i = k \/ i \in 1 .. (k - 1)
      BY <1>7, RoundNumbers
    <3>2. i \in 1 .. (k - 1) => calls[i].stage = i
      BY <1>0, <1>4 DEF CallsInv
    <3> QED
      BY <1>6, <1>7, <3>1, <3>2
  <2>4. 2 \in told' => Len(calls') >= 3
    <3>1. 2 \in told => k >= 4
      BY <1>0, <1>4, RoundNumbers DEF CallsInv
    <3>2. IsAgent(k) /\ RoundOf(k) = 2 => k >= 3
      BY RoundNumbers
    <3> QED
      BY <1>7, <1>8, <3>1, <3>2, RoundNumbers
  <2> QED
    BY <1>7, <2>1, <2>2, <2>3, <2>4 DEF CallsInv
<1>10. AcceptInv'
  <2>1. ASSUME NEW j \in Stages, state'.phase \in {Running[j], After[j]} PROVE Complete(state.accepted, j)'
    BY <1>0, <1>1, <2>1 DEF AcceptInv, Complete
  <2>2. ASSUME NEW r \in Rounds PROVE Sound(state.accepted, r)'
    <3>1. Sound(state.accepted, r)
      BY <1>0, <1>4, PhaseNames DEF AcceptInv
    <3> QED
      BY <1>1, <1>3, <3>1 DEF Sound, Found
  <2>3. ASSUME NEW m \in {2, 4}, Reached(state.phase, m)' PROVE Saw(m, state.accepted)'
    <3>1. m < k
      BY <1>1, <1>4, <2>3, PhaseNames DEF Reached
    <3>2. Reached(state.phase, m)
      BY <1>4, <3>1 DEF Reached
    <3>3. Saw(m, state.accepted)
      BY <1>0, <3>2 DEF AcceptInv
    <3>4. calls'[m] = calls[m]
      <4>1. m \in 1 .. (k - 1)
        BY <3>1, RoundNumbers
      <4> QED
        BY <1>7, <4>1
    <3> QED
      BY <1>1, <3>3, <3>4 DEF Saw
  <2> QED
    BY <2>1, <2>2, <2>3 DEF AcceptInv
<1>11. SealInv' /\ SeenInv'
  <2>1. told \subseteq told'
    BY <1>8
  <2> QED
    BY <1>0, <1>1, <1>3, <2>1 DEF SealInv, SeenInv
<1>12. PICK pc \in Steps : pc = "running"
  BY DEF Steps
<1>13. /\ broker' \in [Brokers -> Places] /\ lock' = lock
       /\ broker'[b].pc = pc /\ broker'[b].k = k /\ broker'[b].st = st
       /\ \A c \in Brokers : c # b => broker'[c] = broker[c]
  BY <1>0, <1>1, <1>2, <1>12, GoEffect
<1>14. TypeInv'
  BY <1>0, <1>1, <1>3, <1>7, <1>13 DEF TypeInv
<1>15. Pass(pc, k, st)'
  <2>1. ASSUME NEW r \in Rounds, 2 * r <= k
        PROVE  \/ calls'[k].saw[r] = state.accepted[r]
               \/ canonical[r] = Changed /\ state.accepted[r] # Changed
    <3>1. Complete(state.accepted, k) /\ Sound(state.accepted, r)
      BY <1>0, <1>4, PhaseNames DEF AcceptInv
    <3>2. canonical[r] \in {state.accepted[r], Changed}
      BY <2>1, <3>1 DEF Complete, Sound
    <3> QED
      BY <1>6, <1>7, <3>2
  <2> QED
    BY <1>1, <1>3, <1>4, <1>7, <1>12, <2>1 DEF Pass, Before, Importing, Calling
<1>16. LockInv' /\ PassInv'
  BY <1>0, <1>13, <1>15, PassMoves
<1> QED
  BY <1>9, <1>10, <1>11, <1>14, <1>16 DEF PairInv

\* The move out of the outbox keeps the invariant.
LEMMA MoveStep ==
  ASSUME PairInv, NEW b \in Brokers, Move(b)
  PROVE  PairInv'
<1>0. /\ broker[b].pc = "move" /\ lock = b /\ TypeInv /\ AcceptInv /\ CallsInv /\ SealInv /\ SeenInv
      /\ LockInv
  BY Held DEF Move, At, PairInv
<1>1. UNCHANGED <<state, settled, canonical, seals, calls, told>> /\ Go(b, "check")
  BY DEF Move, clock, agent
<1>2. PICK k \in Stages, st \in States : k = broker[b].k /\ st = broker[b].st /\ Pass("move", k, st)
  BY <1>0, Held
<1>3. PICK r \in Rounds : r = RoundOf(k)
  BY RoundNumbers
<1>4. /\ Ready(k, st) /\ ~ IsAgent(k) /\ st.accepted = state.accepted
      /\ outbox[r].there /\ ~ imported[r].there /\ settled /\ state.seen # Absent
  BY <1>2, <1>3 DEF Pass, Before, Importing
<1>5. /\ imported' = [imported EXCEPT ![r] = outbox[r]] /\ outbox' = [outbox EXCEPT ![r] = Absent]
      /\ ripe' = IF outbox[r] \in old THEN ripe \union {r} ELSE ripe
      /\ shown' = {} /\ old' = {}
  BY <1>2, <1>3 DEF Move
<1>6. /\ imported'[r] = outbox[r] /\ outbox'[r] = Absent
      /\ \A q \in Rounds : q # r => imported'[q] = imported[q] /\ outbox'[q] = outbox[q]
      /\ imported' \in [Rounds -> Boxes \union {Absent}] /\ outbox' \in [Rounds -> Boxes \union {Absent}]
  BY <1>0, <1>5 DEF TypeInv
<1>7. state.phase = After[2 * r - 1] /\ 2 * r - 1 \in Stages /\ k = 2 * r
  BY <1>3, <1>4, RoundNumbers DEF Ready
<1>8. Complete(state.accepted, 2 * r - 1) /\ (\A q \in Rounds : Sound(state.accepted, q)) /\ Len(calls) = 2 * r - 1
  BY <1>0, <1>7, PhaseNames DEF AcceptInv, CallsInv
<1>9. CallsInv'
  BY <1>0, <1>1 DEF CallsInv
<1>10. AcceptInv'
  <2>1. ASSUME NEW j \in Stages, state'.phase \in {Running[j], After[j]} PROVE Complete(state.accepted, j)'
    BY <1>0, <1>1, <2>1 DEF AcceptInv, Complete
  <2>2. ASSUME NEW q \in Rounds PROVE Sound(state.accepted, q)'
    <3>1. CASE q = r
      <4>1. state.accepted[r] = None
        BY <1>4, <1>8 DEF Sound, Found
      <4> QED
        BY <1>1, <3>1, <4>1 DEF Sound
    <3>2. CASE q # r
      BY <1>1, <1>5, <1>6, <1>8, <3>2 DEF Sound, Found
    <3> QED
      BY <3>1, <3>2
  <2>3. ASSUME NEW m \in {2, 4}, Reached(state.phase, m)' PROVE Saw(m, state.accepted)'
    <3>1. Reached(state.phase, m)
      BY <1>1, <2>3 DEF Reached
    <3>2. Saw(m, state.accepted)
      BY <1>0, <3>1 DEF AcceptInv
    <3> QED
      BY <1>1, <3>2 DEF Saw
  <2> QED
    BY <2>1, <2>2, <2>3 DEF AcceptInv
<1>11. SealInv'
  <2>1. seals[r] \in {None, Torn}
    BY <1>0, <1>4 DEF SealInv
  <2> QED
    BY <1>0, <1>1, <1>6, <2>1 DEF SealInv
<1>12. SeenInv'
  <2>1. ASSUME NEW q \in Rounds, q \notin told' PROVE outbox'[q] \in Blank
    BY <1>0, <1>1, <1>6, <2>1 DEF SeenInv, Blank
  <2>2. ASSUME NEW q \in Rounds, ~ imported'[q].there PROVE outbox'[q] \in Blank
    <3>1. q # r /\ ~ imported[q].there
      BY <1>4, <1>6, <2>2
    <3>2. CASE r = 1
      <4>1. q = 2 /\ 2 \notin told
        BY <1>0, <1>8, <3>1, <3>2, RoundNumbers DEF CallsInv
      <4> QED
        BY <1>0, <1>6, <3>1, <4>1 DEF SeenInv
    <3>3. CASE r = 2
      <4>1. q = 1 /\ 2 * q <= 2 * r - 1
        BY <3>1, <3>3, RoundNumbers
      <4>2. Found(q)
        BY <1>8, <4>1 DEF Complete, Sound
      <4> QED
        BY <3>1, <4>2 DEF Found
    <3> QED
      BY <3>2, <3>3, RoundNumbers
  <2>3. ASSUME NEW q \in Rounds, state'.phase = After[2 * q - 1]
        PROVE  imported'[q].there /\ (imported'[q] = state'.seen /\ Matched(state.seen) => q \in ripe')
    <3>1. q = r
      <4>1. 2 * q - 1 \in Stages /\ 2 * q - 1 = 2 * r - 1
        BY <1>1, <1>7, <2>3, PhaseNames, RoundNumbers
      <4> QED
        BY <4>1, RoundNumbers
    <3>2. Matched(state.seen) => state.seen \in old
      BY <1>0, <1>4, <1>7 DEF SeenInv
    <3> QED
      BY <1>1, <1>4, <1>5, <1>6, <3>1, <3>2
  <2>4. Matched(state.seen)' => Matched(state.seen)
    BY <1>1 DEF Matched
  <2> QED
    BY <2>1, <2>2, <2>3, <2>4 DEF SeenInv
<1>13. PICK pc \in Steps : pc = "check"
  BY DEF Steps
<1>14. /\ broker' \in [Brokers -> Places] /\ lock' = lock
       /\ broker'[b].pc = pc /\ broker'[b].k = k /\ broker'[b].st = st
       /\ \A c \in Brokers : c # b => broker'[c] = broker[c]
  BY <1>0, <1>1, <1>2, <1>13, GoEffect
<1>15. TypeInv'
  BY <1>0, <1>1, <1>6, <1>14 DEF TypeInv
<1>16. Pass(pc, k, st)'
  <2>1. Ready(k, st)'
    BY <1>1, <1>4 DEF Ready
  <2> QED
    BY <1>1, <1>3, <1>4, <1>6, <1>13, <2>1 DEF Pass, Before, Importing, Calling
<1>17. LockInv' /\ PassInv'
  BY <1>0, <1>14, <1>16, PassMoves
<1> QED
  BY <1>9, <1>10, <1>11, <1>12, <1>15, <1>17 DEF PairInv

\* What a pass finds in an outbox, before it looks closer, keeps the invariant.
LEMMA ObserveStep ==
  ASSUME PairInv, NEW b \in Brokers, Observe(b)
  PROVE  PairInv'
<1>0. broker[b].pc = "observe" /\ lock = b /\ TypeInv /\ SeenInv /\ broker \in [Brokers -> Places]
  BY Held DEF Observe, At, PairInv, TypeInv
<1>1. UNCHANGED <<state, settled, imported, canonical, seals, calls, told, shown, old, ripe>>
  BY DEF Observe, clock, agent, history
<1>2. PICK k \in Stages, st \in States : k = broker[b].k /\ st = broker[b].st /\ Pass("observe", k, st)
  BY <1>0, Held
<1>3. PICK r \in Rounds : r = RoundOf(k)
  BY RoundNumbers
<1>4. Ready(k, st) /\ ~ IsAgent(k) /\ st.accepted = state.accepted
  BY <1>2 DEF Pass, Before, Importing
<1>5. PICK box \in Boxes \union {Absent} : box = outbox[r]
  BY <1>0 DEF TypeInv
<1>6. CASE Stop(b) /\ Quarantine(r)
  <2>1. Gentle
    BY <1>1, <1>6, AssertionsGentle
  <2> QED
    BY <1>0, <1>6, <2>1, StopStep
<1>7. CASE imported[r].there /\ Go(b, "check") /\ UNCHANGED outbox
  <2>1. UNCHANGED rounds
    BY <1>1, <1>7 DEF rounds
  <2>2. Pass("check", k, st)
    BY <1>3, <1>4, <1>7 DEF Pass, Before, Importing, Calling
  <2>3. PICK pc \in Steps : pc = "check"
    BY DEF Steps
  <2> QED
    BY <1>0, <1>1, <1>2, <1>7, <2>1, <2>2, <2>3, StillGo
<1>8. CASE /\ ~ imported[r].there /\ box.there /\ box.done # None /\ box.response # None
           /\ broker' = [broker EXCEPT ![b].pc = "hash", ![b].st.seen = box] /\ UNCHANGED <<lock, outbox>>
  <2>1. box \in Whole /\ box = Box(box.response, box.done)
    BY <1>8, BoxTyped
  <2>2. box \in shown
    <3>1. box \notin Blank
      BY <1>8, <2>1, BoxFacts DEF Blank
    <3> QED
      BY <1>0, <1>5, <1>8, <3>1 DEF SeenInv
  <2>3. PICK new : new = [st EXCEPT !.seen = box]
    OBVIOUS
  <2>4. new \in States /\ new.phase = st.phase /\ new.accepted = st.accepted /\ new.seen = box
    BY <2>1, <2>3 DEF States
  <2>5. PICK place : place = [broker[b] EXCEPT !.pc = "hash", !.st = new]
    OBVIOUS
  <2>6. broker[b] \in Places /\ "hash" \in Steps
    BY <1>0 DEF Steps
  <2>7. place \in Places /\ place.pc = "hash" /\ place.k = k /\ place.st = new
    BY <1>2, <2>4, <2>5, <2>6 DEF Places
  <2>8. broker' = [broker EXCEPT ![b] = place]
    BY <1>0, <1>2, <1>8, <2>3, <2>5, <2>6 DEF Places, States
  <2>9. /\ broker' \in [Brokers -> Places] /\ broker'[b] = place /\ lock' = lock
        /\ \A c \in Brokers : c # b => broker'[c] = broker[c]
    BY <1>0, <1>8, <2>7, <2>8
  <2>10. UNCHANGED rounds
    BY <1>1, <1>8 DEF rounds
  <2>11. Hashing(box, r)
    BY <1>5, <1>8, <2>1, <2>2 DEF Hashing
  <2>12. Pass("hash", k, new)
    BY <1>3, <1>4, <2>4, <2>11 DEF Pass, Before, Importing, Calling, Ready
  <2>13. Pass("hash", k, new)' /\ Gentle
    BY <1>1, <2>10, <2>12, PassStays, FilesStill
  <2>14. PICK pc : pc = "hash"
    OBVIOUS
  <2> QED
    BY <1>0, <2>7, <2>9, <2>13, <2>14, GentleStep
<1>9. CASE (Stop(b) \/ Leave(b)) /\ UNCHANGED outbox
  <2>1. UNCHANGED rounds
    BY <1>1, <1>9 DEF rounds
  <2> QED
    BY <1>0, <1>1, <1>9, <2>1, StillStop
<1> QED
  BY <1>2, <1>3, <1>5, <1>6, <1>7, <1>8, <1>9 DEF Observe

\* The observation of an outbox keeps the invariant.
LEMMA HashStep ==
  ASSUME PairInv, NEW b \in Brokers, Hash(b)
  PROVE  PairInv'
<1>0. /\ broker[b].pc = "hash" /\ lock = b /\ TypeInv /\ AcceptInv /\ CallsInv /\ SealInv /\ SeenInv
      /\ LockInv
  BY Held DEF Hash, At, PairInv
<1>1. UNCHANGED <<outbox, imported, canonical, seals, rounds, calls, told, shown, old, ripe>>
  BY DEF Hash, rounds, agent, history
<1>2. PICK k \in Stages, st \in States : k = broker[b].k /\ st = broker[b].st /\ Pass("hash", k, st)
  BY <1>0, Held
<1>3. PICK r \in Rounds : r = RoundOf(k)
  BY RoundNumbers
<1>4. Ready(k, st) /\ ~ IsAgent(k) /\ st.accepted = state.accepted /\ Hashing(st.seen, r)
  BY <1>2, <1>3 DEF Pass, Before, Importing
<1>5. PICK box : box = Box(st.seen.response, outbox[r].done)
  OBVIOUS
<1>6. /\ box \in Whole /\ box # Absent /\ ~ imported[r].there /\ outbox[r].there
      /\ Matched(box) => box \in shown
  <2>1. outbox[r].done \in Responses
    <3>1. outbox[r] \in Boxes \union {Absent}
      BY <1>0 DEF TypeInv
    <3> QED
      BY <1>4, <3>1, BoxTyped DEF Hashing
  <2>2. PICK x \in Responses, y \in Responses : st.seen = Box(x, y)
    BY <1>4 DEF Hashing, Whole
  <2>3. st.seen.response = x
    BY <2>2, BoxFacts
  <2>4. box \in Whole /\ box.there = TRUE /\ box.response = x /\ box.done = outbox[r].done
    BY <1>5, <2>1, <2>3, BoxFacts DEF Whole
  <2> QED
    BY <1>4, <1>5, <2>3, <2>4, BoxFacts DEF Hashing, Matched
<1>7. CASE Leave(b) /\ UNCHANGED <<state, clock>>
  BY <1>0, <1>1, <1>7, StillStop DEF clock
<1>8. CASE box # state.seen /\ SetState([state EXCEPT !.seen = box]) /\ Leave(b)
  <2>4. state' = [state EXCEPT !.seen = box]
    BY <1>8 DEF SetState
  <2>5. state' \in States /\ state'.phase = state.phase /\ state'.accepted = state.accepted /\ state'.seen = box
    <3>1. state \in States
      BY <1>0 DEF TypeInv
    <3> QED
      BY <1>6, <2>4, <3>1 DEF States
  <2>6. settled' = FALSE
    BY <1>8, <2>4, <2>5 DEF SetState
  <2>7. state.phase = After[2 * r - 1] /\ 2 * r - 1 \in Stages
    BY <1>3, <1>4, RoundNumbers DEF Ready
  <2>9. CallsInv'
    BY <1>0, <1>1, <2>5 DEF CallsInv
  <2>10. AcceptInv'
    <3>1. ASSUME NEW j \in Stages, state'.phase \in {Running[j], After[j]} PROVE Complete(state.accepted, j)'
      BY <1>0, <2>5, <3>1 DEF AcceptInv, Complete
    <3>2. ASSUME NEW q \in Rounds PROVE Sound(state.accepted, q)'
      <4>1. Sound(state.accepted, q)
        BY <1>0, <2>7, PhaseNames DEF AcceptInv
      <4> QED
        BY <1>1, <2>5, <4>1 DEF Sound, Found
    <3>3. ASSUME NEW m \in {2, 4}, Reached(state.phase, m)' PROVE Saw(m, state.accepted)'
      <4>1. Reached(state.phase, m)
        BY <2>5, <3>3 DEF Reached
      <4>2. Saw(m, state.accepted)
        BY <1>0, <4>1 DEF AcceptInv
      <4> QED
        BY <1>1, <2>5, <4>2 DEF Saw
    <3> QED
      BY <3>1, <3>2, <3>3 DEF AcceptInv
  <2>11. SealInv'
    BY <1>0, <1>1 DEF SealInv
  <2>12. SeenInv'
    <3>1. ASSUME NEW q \in Rounds, state'.phase = After[2 * q - 1] PROVE q = r
      <4>1. 2 * q - 1 \in Stages /\ 2 * q - 1 = 2 * r - 1
        BY <2>5, <2>7, <3>1, PhaseNames, RoundNumbers
      <4> QED
        BY <4>1, RoundNumbers
    <3> QED
      BY <1>0, <1>1, <1>6, <2>5, <2>6, <3>1 DEF SeenInv, Matched
  <2>13. /\ broker' \in [Brokers -> Places] /\ broker'[b].pc = "idle"
         /\ \A c \in Brokers : c # b => broker'[c] = broker[c]
    BY <1>0, <1>8, LeaveEffect
  <2>14. TypeInv'
    BY <1>0, <1>1, <2>5, <2>13 DEF TypeInv
  <2>15. PICK pc, j, s : pc = broker'[b].pc /\ j = broker'[b].k /\ s = broker'[b].st
    OBVIOUS
  <2>16. Pass(pc, j, s)'
    BY <2>13, <2>15, PassIdle
  <2>17. LockInv' /\ PassInv'
    BY <1>0, <2>13, <2>15, <2>16, PassMoves
  <2> QED
    BY <2>9, <2>10, <2>11, <2>12, <2>14, <2>17 DEF PairInv
<1>9. CASE box = state.seen /\ settled /\ Go(b, "move") /\ UNCHANGED <<state, clock>>
  <2>1. UNCHANGED <<state, settled>>
    BY <1>9 DEF clock
  <2>2. Pass("move", k, st)
    BY <1>3, <1>4, <1>6, <1>9 DEF Pass, Before, Importing, Calling
  <2>3. PICK pc \in Steps : pc = "move"
    BY DEF Steps
  <2> QED
    BY <1>0, <1>1, <1>2, <1>9, <2>1, <2>2, <2>3, StillGo
<1> QED
  BY <1>2, <1>3, <1>5, <1>7, <1>8, <1>9 DEF Hash, Observation

-----------------------------------------------------------------------------
(* Crashes, and everything around the broker *)

\* A crash keeps the invariant, and the file it tears.
LEMMA CrashStep ==
  ASSUME PairInv, NEW b \in Brokers, Crash(b)
  PROVE  PairInv'
<1>0. lock = b /\ TypeInv /\ Leave(b)
  BY DEF Crash, PairInv
<1>1. UNCHANGED <<state, settled, outbox, imported, calls, told, shown, old, ripe>>
  BY DEF Crash, clock, agent, history
<1>2. broker[b].k \in Stages
  BY <1>0 DEF TypeInv, Places
<1>3. PICK r \in Rounds : r = RoundOf(broker[b].k)
  BY <1>2, RoundNumbers
<1>4. \/ UNCHANGED <<canonical, seals>>
      \/ canonical' = [canonical EXCEPT ![r] = Changed] /\ UNCHANGED seals
      \/ seals' = [seals EXCEPT ![r] = Torn] /\ UNCHANGED canonical
  BY <1>3 DEF Crash
<1>5. /\ canonical' \in [Rounds -> Texts] /\ \A q \in Rounds : canonical'[q] \in {canonical[q], Changed}
      /\ seals' \in [Rounds -> Responses \union {None, Changed, Torn}]
      /\ \A q \in Rounds : seals'[q] \in {seals[q], Torn}
  BY <1>0, <1>4 DEF TypeInv, Texts
<1>6. Gentle
  BY <1>0, <1>1, <1>5 DEF Gentle, TypeInv
<1> QED
  BY <1>0, <1>6, LeaveStep

\* A STATE.json that is lost keeps the invariant.
LEMMA DropStateStep ==
  ASSUME PairInv, NEW b \in Brokers, DropState(b)
  PROVE  PairInv'
<1>1. lock = b /\ Leave(b) /\ UNCHANGED <<state, settled, rounds, calls, told, shown, old, ripe>>
  BY DEF DropState, clock, agent, history
<1>2. Gentle
  BY <1>1, FilesStill
<1> QED
  BY <1>1, <1>2, LeaveStep

\* A failed file operation keeps the invariant.
LEMMA IOFailsStep ==
  ASSUME PairInv, NEW b \in Brokers, IOFails(b)
  PROVE  PairInv'
<1>1. lock = b /\ UNCHANGED <<state, settled, rounds, calls, told, shown, old, ripe>>
  BY DEF IOFails, clock, agent, history
<1>2. Gentle
  BY <1>1, FilesStill
<1> QED
  BY <1>1, <1>2, StopStep, LeaveStep DEF IOFails

\* What happens outside the brokers: a published response may be edited, an outbox
\* written, time may pass.
LEMMA OutsideStep ==
  ASSUME PairInv, UNCHANGED <<state, imported, seals, calls, told, ripe, lock, broker>>,
         canonical' \in [Rounds -> Texts],
         \A r \in Rounds : canonical'[r] \in {canonical[r], Changed},
         outbox' \in [Rounds -> Boxes \union {Absent}],
         \A r \in Rounds : outbox[r].there => outbox'[r].there,
         state.seen # Absent /\ settled => settled',
         \A box \in Whole : \A r \in Rounds : Hashing(box, r) => Hashing(box, r)',
         SeenInv'
  PROVE  PairInv'
<1>0. TypeInv /\ LockInv /\ CallsInv /\ AcceptInv /\ SealInv /\ PassInv
  BY DEF PairInv
<1>1. TypeInv' /\ LockInv' /\ CallsInv' /\ SealInv'
  BY <1>0 DEF TypeInv, LockInv, CallsInv, SealInv
<1>2. \A r : Found(r) => Found(r)'
  BY DEF Found
<1>3. \A a : \A r \in Rounds : Sound(a, r) => Sound(a, r)'
  BY <1>2 DEF Sound
<1>4. AcceptInv'
  <2>1. ASSUME NEW j \in Stages, state'.phase \in {Running[j], After[j]} PROVE Complete(state.accepted, j)'
    BY <1>0, <2>1 DEF AcceptInv, Complete
  <2>2. ASSUME NEW q \in Rounds, state'.phase # "PAIR_SAFE_STOP" PROVE Sound(state.accepted, q)'
    <3>1. Sound(state.accepted, q)
      BY <1>0, <2>2 DEF AcceptInv
    <3> QED
      BY <3>1 DEF Sound, Found
  <2>3. ASSUME NEW m \in {2, 4}, Reached(state.phase, m)' PROVE Saw(m, state.accepted)'
    <3>1. Reached(state.phase, m)
      BY <2>3 DEF Reached
    <3>2. Saw(m, state.accepted)
      BY <1>0, <3>1 DEF AcceptInv
    <3> QED
      BY <3>2 DEF Saw
  <2> QED
    BY <2>1, <2>2, <2>3 DEF AcceptInv
<1>5. PassInv'
  <2>1. ASSUME NEW c \in Brokers PROVE Pass(broker[c].pc, broker[c].k, broker[c].st)'
    <3>1. PICK pc, k, st : pc = broker[c].pc /\ k = broker[c].k /\ st = broker[c].st
      OBVIOUS
    <3>2. Pass(pc, k, st) /\ k \in Stages /\ RoundOf(k) \in Rounds
      BY <1>0, <3>1, RoundNumbers DEF PassInv, TypeInv, Places
    <3>3. Ready(k, st) => Ready(k, st)'
      BY DEF Ready
    <3>4. Complete(st.accepted, k) => Complete(st.accepted, k)'
      BY DEF Complete
    <3>5. Saw(4, state.accepted) => Saw(4, state.accepted)'
      BY DEF Saw
    <3>x. Hashing(st.seen, RoundOf(k)) => Hashing(st.seen, RoundOf(k))'
      <4>1. Hashing(st.seen, RoundOf(k)) => st.seen \in Whole
        BY DEF Hashing
      <4> QED
        BY <3>2, <4>1
    <3>6. Pass(pc, k, st)'
      BY <1>2, <1>3, <3>2, <3>3, <3>4, <3>5, <3>x DEF Pass
    <3>7. (Pass(broker[c].pc, broker[c].k, broker[c].st))' <=> Pass(pc, k, st)'
      BY <3>1 DEF Pass, Ready, Hashing
    <3> QED
      BY <3>6, <3>7
  <2> QED
    BY <2>1 DEF PassInv
<1> QED
  BY <1>1, <1>4, <1>5 DEF PairInv

\* A quiescence period keeps the invariant.
LEMMA TickStep ==
  ASSUME PairInv, Tick
  PROVE  PairInv'
<1>1. /\ UNCHANGED <<state, outbox, imported, canonical, seals, calls, told, shown, ripe, lock, broker>>
      /\ old' = shown /\ settled' = (state.seen # Absent)
  BY DEF Tick, rounds, agent
<1>2. TypeInv /\ SeenInv
  BY DEF PairInv
<1>3. SeenInv'
  BY <1>1, <1>2 DEF SeenInv, Matched
<1>4. \A box \in Whole : \A r \in Rounds : Hashing(box, r) => Hashing(box, r)'
  BY <1>1 DEF Hashing
<1> QED
  BY <1>1, <1>2, <1>3, <1>4, OutsideStep DEF TypeInv

\* A write of the agent keeps the invariant.
LEMMA AgentStep ==
  ASSUME PairInv, NEW r \in Rounds, AgentWrites(r)
  PROVE  PairInv'
<1>1. /\ UNCHANGED <<state, settled, imported, canonical, seals, calls, told, old, ripe, lock, broker>>
      /\ r \in told
  BY DEF AgentWrites, clock
<1>2. TypeInv /\ SeenInv /\ outbox \in [Rounds -> Boxes \union {Absent}]
  BY DEF PairInv, TypeInv
<1>3. PICK box : box = IF outbox[r].there THEN outbox[r] ELSE Box(None, None)
  OBVIOUS
<1>4. /\ box.there /\ box.response \in Responses \union {None} /\ box.done \in Responses \union {None}
      /\ ~ outbox[r].there => box = Box(None, None)
      /\ box \in Boxes
  <2>1. Box(None, None) \in Boxes
    BY DEF Boxes
  <2>2. outbox[r] \in Boxes \union {Absent}
    BY <1>2
  <2> QED
    BY <1>3, <2>1, <2>2, BoxTyped, BoxFacts
<1>5. \/ /\ ~ imported[r].there
         /\ \E new \in Boxes :
              /\ outbox' = [outbox EXCEPT ![r] = new] /\ shown' = shown \union {new}
              /\ \/ \E x \in Responses : new = Box(x, box.done)
                 \/ new = Box(box.response, IF box.response = None THEN "go" ELSE box.response)
      \/ /\ imported[r].there /\ ~ outbox[r].there
         /\ outbox' = [outbox EXCEPT ![r] = box] /\ UNCHANGED shown
  <2>1. \A x \in Responses : Box(x, box.done) \in Boxes
    BY <1>4 DEF Boxes
  <2>2. PICK names : names = IF box.response = None THEN "go" ELSE box.response
    OBVIOUS
  <2>3. Box(box.response, names) \in Boxes
    BY <1>4, <2>2, BoxFacts DEF Boxes
  <2> QED
    BY <1>3, <2>1, <2>2, <2>3 DEF AgentWrites
<1>6. PICK new \in Boxes : /\ outbox' = [outbox EXCEPT ![r] = new] /\ shown \subseteq shown'
                           /\ ~ imported[r].there => new \in shown'
  BY <1>4, <1>5
<1>7. new.there
  BY BoxFacts DEF Boxes
<1>8. /\ outbox' \in [Rounds -> Boxes \union {Absent}] /\ outbox'[r] = new
      /\ \A q \in Rounds : q # r => outbox'[q] = outbox[q]
  BY <1>2, <1>6
<1>9. SeenInv'
  BY <1>1, <1>2, <1>6, <1>8 DEF SeenInv
<1>10. ASSUME NEW seen \in Whole, NEW q \in Rounds, Hashing(seen, q) PROVE Hashing(seen, q)'
  <2>1. CASE q # r
    BY <1>1, <1>6, <1>8, <1>10, <2>1 DEF Hashing
  <2>2. CASE q = r
    <3>1. /\ ~ imported[r].there /\ box = outbox[r] /\ box.response # None /\ box.done # None
          /\ box.done = seen.response => Box(seen.response, seen.response) \in shown
      BY <1>3, <1>10, <2>2 DEF Hashing
    <3>2. /\ new \in shown'
          /\ (\E x \in Responses : new = Box(x, box.done)) \/ new = Box(box.response, box.response)
      <4>1. PICK y \in Boxes : /\ outbox' = [outbox EXCEPT ![r] = y] /\ shown' = shown \union {y}
                               /\ \/ \E x \in Responses : y = Box(x, box.done)
                                  \/ y = Box(box.response, box.response)
        BY <1>5, <3>1
      <4>2. y = new
        BY <1>2, <1>8, <4>1
      <4> QED
        BY <4>1, <4>2
    <3>3. /\ new.there /\ new.response # None /\ new.done # None
          /\ new.done = seen.response => Box(seen.response, seen.response) \in shown'
      BY <1>6, <1>7, <3>1, <3>2, BoxFacts
    <3> QED
      BY <1>1, <1>8, <1>10, <2>2, <3>1, <3>3 DEF Hashing
  <2> QED
    BY <2>1, <2>2
<1> QED
  BY <1>1, <1>2, <1>7, <1>8, <1>9, <1>10, OutsideStep DEF TypeInv

\* An edit keeps the invariant.
LEMMA EditStep ==
  ASSUME PairInv, Edit
  PROVE  PairInv'
<1>1. UNCHANGED <<state, settled, outbox, imported, seals, calls, told, shown, old, ripe, lock, broker>>
  BY DEF Edit, clock, agent, history
<1>2. TypeInv /\ SeenInv
  BY DEF PairInv
<1>3. SeenInv'
  BY <1>1, <1>2 DEF SeenInv
<1>4. canonical' = canonical \/ \E r \in Rounds : canonical' = [canonical EXCEPT ![r] = Changed]
  BY DEF Edit
<1>5. canonical' \in [Rounds -> Texts] /\ \A r \in Rounds : canonical'[r] \in {canonical[r], Changed}
  BY <1>2, <1>4 DEF TypeInv, Texts
<1>6. \A box \in Whole : \A r \in Rounds : Hashing(box, r) => Hashing(box, r)'
  BY <1>1 DEF Hashing
<1> QED
  BY <1>1, <1>2, <1>3, <1>5, <1>6, OutsideStep DEF TypeInv

\* The stop command, a changed target and a removed brief keep the invariant.
LEMMA StillStep ==
  ASSUME PairInv, UNCHANGED <<state, settled, rounds, lock, broker, agent, history>> \/ UNCHANGED vars
         \/ AskStop \/ WriteStop \/ ChangeTarget \/ RemoveBrief
  PROVE  PairInv'
<1>1. UNCHANGED <<state, settled, outbox, imported, canonical, seals, calls, told, shown, old, ripe, lock, broker>>
  BY DEF AskStop, WriteStop, ChangeTarget, RemoveBrief, vars, clock, rounds, agent, history
<1>2. TypeInv /\ SeenInv
  BY DEF PairInv
<1>3. SeenInv'
  BY <1>1, <1>2 DEF SeenInv
<1>4. \A box \in Whole : \A r \in Rounds : Hashing(box, r) => Hashing(box, r)'
  BY <1>1 DEF Hashing
<1> QED
  BY <1>1, <1>2, <1>3, <1>4, OutsideStep DEF TypeInv

-----------------------------------------------------------------------------
(* The theorem *)

\* The invariant holds of a new task.
LEMMA InitiallyInv ==
  ASSUME Init
  PROVE  PairInv
<1>1. /\ state = NewState /\ settled = FALSE
      /\ outbox = [r \in Rounds |-> Absent] /\ imported = [r \in Rounds |-> Absent]
      /\ canonical = [r \in Rounds |-> None] /\ seals = [r \in Rounds |-> None]
      /\ broker = [b \in Brokers |-> Idle(NewState)]
      /\ told = {} /\ calls = <<>>
  BY DEF Init
<1>2. state \in States /\ state.phase = "NEW" /\ state.seen = Absent /\ \A r \in Rounds : state.accepted[r] = None
  BY <1>1, NewTyped DEF NewState
<1>3. Idle(NewState) \in Places /\ \A b \in Brokers : broker[b].pc = "idle"
  BY <1>1, NewTyped
<1>4. TypeInv
  BY <1>1, <1>2, <1>3 DEF TypeInv, Texts
<1>5. LockInv
  BY <1>3 DEF LockInv
<1>6. CallsInv
  BY <1>1, <1>2, PhaseNames DEF CallsInv
<1>7. AcceptInv
  <2>1. \A j \in Stages : state.phase \notin {Running[j], After[j]}
    BY <1>2, PhaseNames
  <2>2. \A r \in Rounds : Sound(state.accepted, r)
    BY <1>2 DEF Sound
  <2>3. \A k \in {2, 4} : ~ Reached(state.phase, k)
    BY <2>1 DEF Reached
  <2> QED
    BY <2>1, <2>2, <2>3 DEF AcceptInv
<1>8. SealInv
  BY <1>1 DEF SealInv
<1>9. SeenInv
  <2>1. \A r \in Rounds : state.phase # After[2 * r - 1]
    BY <1>2, PhaseNames, RoundNumbers
  <2> QED
    BY <1>1, <2>1 DEF SeenInv, Blank
<1>10. PassInv
  BY <1>3 DEF PassInv, Pass, Before, Importing, Calling
<1> QED
  BY <1>4, <1>5, <1>6, <1>7, <1>8, <1>9, <1>10 DEF PairInv

\* Every step keeps the invariant.
LEMMA NextInv ==
  ASSUME PairInv, [Next]_vars
  PROVE  PairInv'
<1>1. ASSUME NEW b \in Brokers, Work(b) PROVE PairInv'
  BY <1>1, BeginStep, SafeStopStep, PrepareStep, AnnounceStep, LaunchStep, FinishStep, CalledStep,
     RegisterStep, PublishStep, ObserveStep, HashStep, MoveStep, CheckStep, CopyStep, SealStep, DecideStep DEF Work
<1>2. ASSUME NEW b \in Brokers, Crash(b) \/ DropState(b) \/ IOFails(b) PROVE PairInv'
  BY <1>2, CrashStep, DropStateStep, IOFailsStep
<1>3. ASSUME NEW r \in Rounds, AgentWrites(r) PROVE PairInv'
  BY <1>3, AgentStep
<1>4. CASE Tick \/ AskStop \/ WriteStop \/ ChangeTarget \/ RemoveBrief \/ Edit \/ UNCHANGED vars
  BY <1>4, TickStep, EditStep, StillStep
<1> QED
  BY <1>1, <1>2, <1>3, <1>4 DEF Next

\* The invariant gives RoundsSound.
LEMMA InvSound ==
  ASSUME PairInv
  PROVE  RoundsSound
<1>0. TypeInv /\ CallsInv /\ AcceptInv
  BY DEF PairInv
<1>1. \A i \in DOMAIN calls : calls[i].stage = i
  BY <1>0 DEF CallsInv, TypeInv
<1>2. ASSUME state.phase # "PAIR_SAFE_STOP", NEW r \in Rounds, state.accepted[r] # None
      PROVE  /\ \E x \in {"go", "revised"} : imported[r] = Box(x, x) /\ state.accepted[r] \in {x, Changed}
             /\ r \in ripe
  <2>1. /\ Found(r) /\ state.accepted[r] \in {imported[r].response, Changed}
        /\ imported[r].response # "stop"
    BY <1>0, <1>2 DEF AcceptInv, Sound
  <2>2. imported[r] \in Boxes \union {Absent}
    BY <1>0 DEF TypeInv
  <2>3. imported[r] = Box(imported[r].response, imported[r].done)
    BY <2>1, <2>2, BoxTyped DEF Found
  <2> QED
    BY <2>1, <2>3, BoxFacts DEF Found
<1>3. ASSUME NEW k \in Completed, NEW r \in 1 .. RoundOf(k)
      PROVE  calls[k].saw[r] = state.accepted[r]
  <2>1. k \in {2, 4} /\ Reached(state.phase, k)
    <3>1. k \in {2, 4} /\ \E j \in k .. 4 : state.phase = After[j] \/ (j > k /\ state.phase = Running[j])
      BY <1>3 DEF Completed
    <3> QED
      BY <3>1 DEF Reached, Stages
  <2>2. r \in Rounds /\ 2 * r <= k
    BY <1>3, <2>1, RoundNumbers
  <2>3. Saw(k, state.accepted)
    BY <1>0, <2>1 DEF AcceptInv
  <2> QED
    BY <2>2, <2>3 DEF Saw
<1> QED
  BY <1>1, <1>2, <1>3 DEF RoundsSound

\* However many brokers take turns, wherever they crash, whatever the agent
\* writes and when, and whatever is edited: no stage runs twice or out of order;
\* until the task is stopped, an accepted round is one response with its own
\* DONE, observed for a quiescence period and not a STOP, or an edit of it from
\* before its seal; and every Codex answer the state relies on was written by a
\* call that read the accepted responses.
THEOREM RoundsStaySound == Spec => []RoundsSound
<1>1. Init => PairInv
  BY InitiallyInv
<1>2. PairInv /\ [Next]_vars => PairInv'
  BY NextInv
<1>3. PairInv => RoundsSound
  BY InvSound
<1> QED
  BY <1>1, <1>2, <1>3, PTL DEF Spec

-----------------------------------------------------------------------------
(* The publisher and the ingest function *)

\* A snapshot under construction, and those that are sent or kept
Building == {"tasks", "verify", "events", "tree", "project", "compare", "evidence", "send"}
Requests == net \union rows

\* A request says no more than was there, and is of a sequence that was reserved.
RequestInv ==
    \A s \in Requests : /\ Coherent(s) /\ s.epoch <= epoch /\ s.tasks <= tasks /\ s.events <= events
                        /\ s.epoch = epoch => s.sequence <= last
\* The requests of one sequence file are in the order they were read in.
SequenceInv ==
    \A s, t \in Requests : s.epoch = t.epoch /\ s.sequence < t.sequence => s.tasks <= t.tasks /\ s.events <= t.events
\* The snapshot under construction has a sequence of its own; its parts are read
\* one after the other, each after those of every request.
DraftInv ==
    /\ at \in Building =>
         /\ draft.epoch = epoch /\ draft.sequence = last
         /\ \A s \in Requests : s.epoch = epoch => s.sequence < last
    /\ at \in Building \ {"tasks"} => draft.tasks <= tasks /\ \A s \in Requests : s.tasks <= draft.tasks
    /\ at \in Building \ {"tasks", "verify"} => draft.tasks <= draft.verified /\ draft.verified <= events
    /\ at \in Building \ {"tasks", "verify", "events"} =>
         /\ draft.verified <= draft.events /\ draft.events <= events
         /\ \A s \in Requests : s.events <= draft.events
    /\ at = "send" => ~ draft.missing
\* The row shown is the newest kept, its schema is the floor, and the schemas of
\* the rows kept do not go back.
TableInv ==
    /\ stored = NoSnapshot => rows = {}
    /\ stored # NoSnapshot => /\ stored \in rows /\ floor = stored.rank
                              /\ \A s \in rows : s.sequence <= stored.sequence /\ s.rank <= floor
    /\ \A s, t \in rows : s.sequence < t.sequence => s.rank <= t.rank

MonitorInv == MonitorTypeOK /\ epoch <= mishaps /\ RequestInv /\ SequenceInv /\ DraftInv /\ TableInv

\* The numbers of a snapshot
LEMMA SnapshotFields ==
  ASSUME NEW s \in Snapshots
  PROVE  /\ s.sequence \in Nat /\ s.rank \in Nat /\ s.epoch \in Nat /\ s.tasks \in Nat
         /\ s.verified \in Nat /\ s.events \in Nat /\ s.missing \in BOOLEAN /\ s # NoSnapshot
<1>1. Ranks \union {0} \subseteq Nat /\ 0..MaxEvents \subseteq Nat /\ 0..MaxSequence \subseteq Nat /\ 0..MaxFaults \subseteq Nat
  BY MonitorAssumption
<1>2. /\ s.sequence \in 0..MaxSequence /\ s.rank \in Ranks \union {0} /\ s.epoch \in 0..MaxFaults
      /\ s.tasks \in 0..MaxEvents /\ s.verified \in 0..MaxEvents /\ s.events \in 0..MaxEvents
      /\ s.missing \in BOOLEAN
  BY DEF Snapshots
<1>3. s # NoSnapshot
  BY MonitorAssumption
<1> QED
  BY <1>1, <1>2, <1>3

\* The types, in the form the steps use
LEMMA MonitorTypes ==
  ASSUME MonitorTypeOK
  PROVE  /\ tasks \in Nat /\ events \in Nat /\ files \in Nat /\ tasks <= events /\ events <= files /\ files <= MaxEvents
         /\ last \in Nat /\ epoch \in Nat /\ mishaps \in Nat /\ floor \in Nat /\ rank \in Nat
         /\ MaxEvents \in Nat /\ MaxSequence \in Nat /\ MaxFaults \in Nat
         /\ draft \in Snapshots /\ Requests \subseteq Snapshots
BY MonitorAssumption DEF MonitorTypeOK, Requests

\* The types of a step
LEMMA MonitorTypeStep ==
  ASSUME MonitorInv, MonitorNext
  PROVE  MonitorTypeOK' /\ (epoch <= mishaps)'
<1> DEFINE places == {"off", "cycle", "send", "wait", "check", "sleep"} \union {BuildSteps[i] : i \in 1..7}
<1>0. /\ tasks \in 0..events /\ events \in 0..files /\ files \in 0..MaxEvents
      /\ last \in 0..MaxSequence /\ publisherLock \in {"free", "held", "dead", "stale"} /\ at \in places
      /\ rank \in Ranks \union {0} /\ draft \in Snapshots /\ net \subseteq Snapshots
      /\ reply \in {"none", "accepted", "refused"} /\ stored \in Snapshots \union {NoSnapshot}
      /\ rows \subseteq Snapshots /\ floor \in Ranks \union {0}
      /\ epoch \in 0..MaxFaults /\ mishaps \in 0..MaxFaults /\ epoch <= mishaps
  BY DEF MonitorInv, MonitorTypeOK
<1>1. {MaxEvents, MaxSequence, MaxFaults} \subseteq Nat
  BY MonitorAssumption
<1>2. {"off", "cycle", "send", "wait", "check", "sleep", "tasks", "verify", "events", "tree", "project",
       "compare", "evidence"} \subseteq places
  <2>1. /\ BuildSteps[1] = "tasks" /\ BuildSteps[2] = "verify" /\ BuildSteps[3] = "events"
        /\ BuildSteps[4] = "tree" /\ BuildSteps[5] = "project" /\ BuildSteps[6] = "compare"
        /\ BuildSteps[7] = "evidence"
    BY DEF BuildSteps
  <2> QED
    BY <2>1
<1> HIDE DEF places
<1> DEFINE goal ==
      /\ tasks' \in 0..events' /\ events' \in 0..files' /\ files' \in 0..MaxEvents
      /\ last' \in 0..MaxSequence /\ publisherLock' \in {"free", "held", "dead", "stale"} /\ at' \in places
      /\ rank' \in Ranks \union {0} /\ draft' \in Snapshots /\ net' \subseteq Snapshots
      /\ reply' \in {"none", "accepted", "refused"} /\ stored' \in Snapshots \union {NoSnapshot}
      /\ rows' \subseteq Snapshots /\ floor' \in Ranks \union {0}
      /\ epoch' \in 0..MaxFaults /\ mishaps' \in 0..MaxFaults /\ epoch' <= mishaps'
<1>3. SUFFICES goal
  <2>1. goal => MonitorTypeOK'
    BY DEF MonitorTypeOK, places
  <2> QED
    BY <2>1
<1>4. CASE Archive \/ AppendEvent \/ WriteTask
  <2>1. /\ UNCHANGED <<last, publisherLock, at, rank, draft, reply, net, stored, rows, floor, epoch, mishaps>>
        /\ \/ files < MaxEvents /\ files' = files + 1 /\ events' = events /\ tasks' = tasks
           \/ events < files /\ events' = events + 1 /\ files' = files /\ tasks' = tasks
           \/ tasks < events /\ tasks' = tasks + 1 /\ events' = events /\ files' = files
    BY <1>4 DEF Archive, AppendEvent, WriteTask, publisher, server
  <2> QED
    BY <1>0, <1>1, <2>1
<1>5. CASE Start \/ AgeLock \/ LockTimeout \/ Answered \/ Confirm \/ Wake
  <2>1. /\ UNCHANGED <<files, events, tasks, last, draft, reply, net, stored, rows, floor, epoch, mishaps>>
        /\ at' \in {at, "cycle", "sleep", "check"} /\ publisherLock' \in {publisherLock, "stale"} /\ rank' \in Ranks \union {rank}
    BY <1>5 DEF Start, AgeLock, LockTimeout, Answered, Confirm, Wake, workspace, server
  <2> QED
    BY <1>0, <1>2, <2>1
<1>6. CASE Reserve
  <2>1. /\ UNCHANGED <<files, events, tasks, rank, reply, net, stored, rows, floor, epoch, mishaps>>
        /\ last + 1 <= MaxSequence /\ last' = last + 1 /\ publisherLock' = "held" /\ at' = "tasks"
        /\ draft' = [Empty EXCEPT !.sequence = last + 1, !.rank = rank, !.epoch = epoch]
    BY <1>6 DEF Reserve, Reserved, PeekNext, workspace, server
  <2>2. draft' \in Snapshots
    <3>1. last + 1 \in 0..MaxSequence /\ 0 \in 0..MaxEvents
      BY <1>0, <1>1, <2>1
    <3> QED
      BY <1>0, <2>1, <3>1 DEF Snapshots, Empty
  <2>3. last' \in 0..MaxSequence
    BY <1>0, <1>1, <2>1
  <2> QED
    BY <1>0, <1>2, <2>1, <2>2, <2>3
<1>7. CASE Build
  <2>1. /\ UNCHANGED <<files, events, tasks, last, rank, reply, net, stored, rows, floor, epoch, mishaps>>
        /\ publisherLock' \in {publisherLock, "free"}
        /\ at' \in {"verify", "events", "tree", "project", "compare", "evidence", "send"}
    BY <1>7 DEF Build, ReadTasks, VerifyLedger, ReadEvents, ReadTree, Project, Compare,
                AuditEvidence, Read, workspace, server
  <2>2. draft' \in Snapshots
    <3>1. tasks \in 0..MaxEvents /\ events \in 0..MaxEvents /\ files \in 0..MaxEvents
      BY <1>0, <1>1
    <3>2. \/ draft' = [draft EXCEPT !.tasks = tasks] \/ draft' = [draft EXCEPT !.verified = events]
          \/ draft' = [draft EXCEPT !.events = events] \/ draft' = [draft EXCEPT !.tree = files]
          \/ draft' = [draft EXCEPT !.projected = events]
          \/ draft' = [draft EXCEPT !.consistent = (tasks = draft.projected)]
          \/ draft' = [draft EXCEPT !.missing = ~ (References(draft.events) \subseteq 1..files)]
      BY <1>7 DEF Build, ReadTasks, VerifyLedger, ReadEvents, ReadTree, Project, Compare,
                  AuditEvidence, Read
    <3>3. ASSUME NEW b \in BOOLEAN
          PROVE  [draft EXCEPT !.consistent = b] \in Snapshots /\ [draft EXCEPT !.missing = b] \in Snapshots
      BY <1>0 DEF Snapshots
    <3>4. (tasks = draft.projected) \in BOOLEAN /\ (~ (References(draft.events) \subseteq 1..files)) \in BOOLEAN
      OBVIOUS
    <3>5. ASSUME NEW n \in 0..MaxEvents
          PROVE  /\ [draft EXCEPT !.tasks = n] \in Snapshots /\ [draft EXCEPT !.verified = n] \in Snapshots
                 /\ [draft EXCEPT !.events = n] \in Snapshots /\ [draft EXCEPT !.tree = n] \in Snapshots
                 /\ [draft EXCEPT !.projected = n] \in Snapshots
      BY <1>0 DEF Snapshots
    <3> QED
      BY <3>1, <3>2, <3>3, <3>4, <3>5
  <2> QED
    BY <1>0, <1>2, <2>1, <2>2
<1>8. CASE Send
  <2>1. /\ UNCHANGED <<files, events, tasks, last, publisherLock, rank, draft, stored, rows, floor, epoch, mishaps>>
        /\ net' = net \union {draft} /\ reply' = "none" /\ at' = "wait"
    BY <1>8 DEF Send, workspace, server
  <2> QED
    BY <1>0, <1>2, <2>1
<1>9. CASE Fail \/ Exit \/ Kill
  <2>1. /\ UNCHANGED <<files, events, tasks, last, rank, draft, reply, net, stored, rows, floor, epoch>>
        /\ at' \in {"sleep", "off"} /\ publisherLock' \in {publisherLock, "free", "dead"}
        /\ mishaps < MaxFaults /\ mishaps' = mishaps + 1
    BY <1>9 DEF Fail, Exit, Kill, Mishap, workspace, server
  <2> QED
    BY <1>0, <1>1, <1>2, <2>1
<1>10. CASE LoseState
  <2>1. /\ UNCHANGED <<files, events, tasks, publisherLock, at, rank, draft, reply, net, stored, rows, floor>>
        /\ last' = 0 /\ epoch' = epoch + 1 /\ mishaps < MaxFaults /\ mishaps' = mishaps + 1
    BY <1>10 DEF LoseState, Mishap, workspace, server
  <2> QED
    BY <1>0, <1>1, <2>1
<1>11. CASE \E s \in net : Lose(s)
  <2>1. /\ UNCHANGED <<files, events, tasks, last, publisherLock, at, rank, draft, stored, rows, floor, epoch>>
        /\ net' \subseteq net /\ reply' \in {reply, "refused"} /\ mishaps < MaxFaults /\ mishaps' = mishaps + 1
    BY <1>11 DEF Lose, Mishap, workspace, server
  <2> QED
    BY <1>0, <1>1, <2>1
<1>12. CASE \E s \in net : Ingest(s)
  <2>1. PICK s \in net : Ingest(s)
    BY <1>12
  <2>2. /\ UNCHANGED <<files, events, tasks, last, publisherLock, at, rank, draft, epoch>>
        /\ net' \subseteq net /\ (mishaps' = mishaps \/ (mishaps < MaxFaults /\ mishaps' = mishaps + 1))
        /\ floor' \in {floor, s.rank} /\ stored' \in {stored, s} /\ rows' \subseteq rows \union {s}
        /\ reply' \in {reply, "accepted", "refused"}
    BY <2>1 DEF Ingest, Mishap, Trimmed, workspace
  <2>3. s \in Snapshots /\ s.rank \in Ranks \union {0}
    BY <1>0 DEF Snapshots
  <2> QED
    BY <1>0, <1>1, <2>2, <2>3
<1> QED
  BY <1>4, <1>5, <1>6, <1>7, <1>8, <1>9, <1>10, <1>11, <1>12 DEF MonitorNext, Cycle

\* No request is new, and the workspace has only grown: what the requests say
\* still holds, and a snapshot under construction is still in order.
LEMMA RequestsStay ==
  ASSUME MonitorInv, Requests' \subseteq Requests, UNCHANGED <<epoch, last>>,
         tasks' \in Nat, events' \in Nat, tasks <= tasks', events <= events'
  PROVE  RequestInv' /\ SequenceInv'
<1>1. /\ MonitorTypeOK /\ RequestInv /\ SequenceInv /\ tasks \in Nat /\ events \in Nat
      /\ \A s \in Requests : s.tasks \in Nat /\ s.events \in Nat
  BY MonitorTypes, SnapshotFields DEF MonitorInv
<1>2. RequestInv'
  <2> SUFFICES ASSUME NEW s \in Requests'
               PROVE  /\ Coherent(s) /\ s.epoch <= epoch' /\ s.tasks <= tasks' /\ s.events <= events'
                      /\ s.epoch = epoch' => s.sequence <= last'
    BY DEF RequestInv, Coherent
  <2>1. s \in Requests
    OBVIOUS
  <2>2. /\ Coherent(s) /\ s.epoch <= epoch /\ s.tasks <= tasks /\ s.events <= events
        /\ s.epoch = epoch => s.sequence <= last
    BY <1>1, <2>1 DEF RequestInv
  <2> QED
    BY <1>1, <2>1, <2>2
<1>3. SequenceInv'
  BY <1>1 DEF SequenceInv
<1> QED
  BY <1>2, <1>3

LEMMA DraftStays ==
  ASSUME MonitorInv, Requests' \subseteq Requests, UNCHANGED <<epoch, last, draft>>,
         tasks' \in Nat, events' \in Nat, tasks <= tasks', events <= events',
         at' = at \/ at' \notin Building
  PROVE  DraftInv'
<1>1. CASE at' \notin Building
  BY <1>1 DEF DraftInv, Building
<1>2. CASE at' = at
  <2>1. /\ DraftInv /\ tasks \in Nat /\ events \in Nat
        /\ draft.tasks \in Nat /\ draft.verified \in Nat /\ draft.events \in Nat
    BY MonitorTypes, SnapshotFields DEF MonitorInv
  <2> QED
    BY <1>2, <2>1 DEF DraftInv
<1> QED
  BY <1>1, <1>2

\* The tables stand still.
LEMMA TableStays ==
  ASSUME TableInv, UNCHANGED <<stored, rows, floor>>
  PROVE  TableInv'
BY DEF TableInv

\* A step that touches no table, reads nothing for the snapshot and sends nothing
LEMMA QuietStep ==
  ASSUME MonitorInv, UNCHANGED <<epoch, last, draft, stored, rows, floor>>, net' \subseteq net,
         tasks' \in Nat, events' \in Nat, tasks <= tasks', events <= events',
         at' = at \/ at' \notin Building
  PROVE  RequestInv' /\ SequenceInv' /\ DraftInv' /\ TableInv'
<1>1. Requests' \subseteq Requests
  BY DEF Requests
<1> QED
  BY <1>1, RequestsStay, DraftStays, TableStays DEF MonitorInv

\* The sequence file is lost: the requests are of an earlier one.
LEMMA LoseStateStep ==
  ASSUME MonitorInv, LoseState
  PROVE  RequestInv' /\ SequenceInv' /\ DraftInv' /\ TableInv'
<1>1. UNCHANGED <<tasks, events, net, draft, stored, rows, floor, at>> /\ epoch' = epoch + 1 /\ at = "off"
  BY DEF LoseState, workspace, server
<1>2. /\ RequestInv /\ SequenceInv /\ TableInv /\ Requests' = Requests /\ epoch \in Nat
      /\ \A s \in Requests : s.epoch \in Nat
  BY <1>1, MonitorTypes, SnapshotFields DEF MonitorInv, Requests
<1>3. RequestInv'
  <2> SUFFICES ASSUME NEW s \in Requests
               PROVE  /\ Coherent(s) /\ s.epoch <= epoch' /\ s.tasks <= tasks' /\ s.events <= events'
                      /\ s.epoch # epoch'
    BY <1>2 DEF RequestInv, Coherent
  <2>1. Coherent(s) /\ s.epoch <= epoch /\ s.tasks <= tasks /\ s.events <= events
    BY <1>2 DEF RequestInv
  <2> QED
    BY <1>1, <1>2, <2>1
<1>4. SequenceInv'
  BY <1>2 DEF SequenceInv
<1>5. DraftInv'
  BY <1>1 DEF DraftInv, Building
<1> QED
  BY <1>1, <1>2, <1>3, <1>4, <1>5, TableStays

\* The sequence of a snapshot is above those of all requests of this file.
LEMMA ReserveStep ==
  ASSUME MonitorInv, Reserve
  PROVE  RequestInv' /\ SequenceInv' /\ DraftInv' /\ TableInv'
<1>1. /\ UNCHANGED <<tasks, events, net, stored, rows, floor, epoch>> /\ last' = last + 1 /\ at' = "tasks"
      /\ draft' = [Empty EXCEPT !.sequence = last + 1, !.rank = rank, !.epoch = epoch]
  BY DEF Reserve, Reserved, PeekNext, workspace, server
<1>2. /\ RequestInv /\ SequenceInv /\ TableInv /\ Requests' = Requests /\ last \in Nat
      /\ \A s \in Requests : s.sequence \in Nat
  BY <1>1, MonitorTypes, SnapshotFields DEF MonitorInv, Requests
<1>3. draft'.sequence = last' /\ draft'.epoch = epoch'
  BY <1>1 DEF Empty
<1>4. \A s \in Requests : s.epoch = epoch => s.sequence < last'
  BY <1>1, <1>2 DEF RequestInv
<1>5. RequestInv'
  <2> SUFFICES ASSUME NEW s \in Requests
               PROVE  /\ Coherent(s) /\ s.epoch <= epoch' /\ s.tasks <= tasks' /\ s.events <= events'
                      /\ s.epoch = epoch' => s.sequence <= last'
    BY <1>2 DEF RequestInv, Coherent
  <2>1. Coherent(s) /\ s.epoch <= epoch /\ s.tasks <= tasks /\ s.events <= events
    BY <1>2 DEF RequestInv
  <2> QED
    BY <1>1, <1>2, <1>4, <2>1
<1>6. SequenceInv'
  BY <1>2 DEF SequenceInv
<1>7. DraftInv'
  BY <1>1, <1>2, <1>3, <1>4 DEF DraftInv, Building
<1> QED
  BY <1>1, <1>2, <1>5, <1>6, <1>7, TableStays

\* Each read takes what is there now, which is no less than any request says.
LEMMA BuildStep ==
  ASSUME MonitorInv, Build
  PROVE  RequestInv' /\ SequenceInv' /\ DraftInv' /\ TableInv'
<1>1. UNCHANGED <<files, tasks, events, net, stored, rows, floor, epoch, last>>
  BY DEF Build, ReadTasks, VerifyLedger, ReadEvents, ReadTree, Project, Compare,
         AuditEvidence, Read, workspace, server
<1>2. /\ RequestInv /\ DraftInv /\ TableInv /\ Requests' = Requests /\ draft \in Snapshots
      /\ tasks \in Nat /\ events \in Nat /\ files \in Nat /\ tasks <= events /\ events <= files
      /\ draft.tasks \in Nat /\ draft.verified \in Nat /\ draft.events \in Nat
      /\ \A s \in Requests : s.tasks <= tasks /\ s.events <= events
  BY <1>1, MonitorTypes, SnapshotFields DEF MonitorInv, Requests, RequestInv
<1>3. RequestInv' /\ SequenceInv'
  BY <1>1, <1>2, RequestsStay
<1>4. ASSUME NEW v PROVE
        /\ [draft EXCEPT !.tasks = v].tasks = v /\ [draft EXCEPT !.verified = v].verified = v
        /\ [draft EXCEPT !.events = v].events = v /\ [draft EXCEPT !.missing = v].missing = v
  BY <1>2 DEF Snapshots
<1>5. DraftInv'
  <2>1. CASE ReadTasks
    <3>1. at = "tasks" /\ at' = "verify" /\ draft' = [draft EXCEPT !.tasks = tasks]
      BY <2>1 DEF ReadTasks, Read
    <3>2. draft'.tasks = tasks /\ draft'.epoch = draft.epoch /\ draft'.sequence = draft.sequence
      BY <1>4, <3>1
    <3> QED
      BY <1>1, <1>2, <3>1, <3>2 DEF DraftInv, Building
  <2>2. CASE VerifyLedger
    <3>1. at = "verify" /\ at' = "events" /\ draft' = [draft EXCEPT !.verified = events]
      BY <2>2 DEF VerifyLedger, Read
    <3>2. /\ draft'.verified = events /\ draft'.tasks = draft.tasks
          /\ draft'.epoch = draft.epoch /\ draft'.sequence = draft.sequence
      BY <1>4, <3>1
    <3> QED
      BY <1>1, <1>2, <3>1, <3>2 DEF DraftInv, Building
  <2>3. CASE ReadEvents
    <3>1. at = "events" /\ at' = "tree" /\ draft' = [draft EXCEPT !.events = events]
      BY <2>3 DEF ReadEvents, Read
    <3>2. /\ draft'.events = events /\ draft'.tasks = draft.tasks /\ draft'.verified = draft.verified
          /\ draft'.epoch = draft.epoch /\ draft'.sequence = draft.sequence
      BY <1>4, <3>1
    <3> QED
      BY <1>1, <1>2, <3>1, <3>2 DEF DraftInv, Building
  <2>4. CASE ReadTree \/ Project \/ Compare
    <3>1. /\ at \in {"tree", "project", "compare"} /\ at' \in {"project", "compare", "evidence"}
          /\ \E v : \/ draft' = [draft EXCEPT !.tree = v] \/ draft' = [draft EXCEPT !.projected = v]
                    \/ draft' = [draft EXCEPT !.consistent = v]
      BY <2>4 DEF ReadTree, Project, Compare, Read
    <3>2. /\ draft'.events = draft.events /\ draft'.tasks = draft.tasks /\ draft'.verified = draft.verified
          /\ draft'.epoch = draft.epoch /\ draft'.sequence = draft.sequence
      <4>1. PICK v : \/ draft' = [draft EXCEPT !.tree = v] \/ draft' = [draft EXCEPT !.projected = v]
                     \/ draft' = [draft EXCEPT !.consistent = v]
        BY <3>1
      <4>2. CASE draft' = [draft EXCEPT !.tree = v]
        BY <4>2
      <4>3. CASE draft' = [draft EXCEPT !.projected = v]
        BY <4>3
      <4>4. CASE draft' = [draft EXCEPT !.consistent = v]
        BY <4>4
      <4> QED
        BY <4>1, <4>2, <4>3, <4>4
    <3> QED
      BY <1>1, <1>2, <3>1, <3>2 DEF DraftInv, Building
  <2>5. CASE AuditEvidence
    <3>1. /\ at = "evidence" /\ at' = "send"
          /\ draft' = [draft EXCEPT !.missing = ~ (References(draft.events) \subseteq 1..files)]
      BY <2>5 DEF AuditEvidence
    <3>2. draft.events <= events
      BY <1>2, <3>1 DEF DraftInv, Building
    <3>3. 1..draft.events \subseteq 1..files
      BY <1>2, <3>2
    <3>4. draft'.missing = FALSE
      BY <1>4, <3>1, <3>3 DEF References
    <3>5. /\ draft'.events = draft.events /\ draft'.tasks = draft.tasks /\ draft'.verified = draft.verified
          /\ draft'.epoch = draft.epoch /\ draft'.sequence = draft.sequence
      BY <3>1
    <3> QED
      BY <1>1, <1>2, <3>1, <3>4, <3>5 DEF DraftInv, Building
  <2> QED
    BY <2>1, <2>2, <2>3, <2>4, <2>5 DEF Build
<1> QED
  BY <1>1, <1>2, <1>3, <1>5, TableStays

\* The snapshot that is sent is the last of its sequence file.
LEMMA SendStep ==
  ASSUME MonitorInv, Send
  PROVE  RequestInv' /\ SequenceInv' /\ DraftInv' /\ TableInv'
<1>1. /\ UNCHANGED <<tasks, events, last, draft, stored, rows, floor, epoch>>
      /\ at = "send" /\ at' = "wait" /\ net' = net \union {draft}
  BY DEF Send, workspace, server
<1>2. /\ RequestInv /\ SequenceInv /\ DraftInv /\ TableInv /\ Requests' = Requests \union {draft}
      /\ tasks \in Nat /\ events \in Nat /\ epoch \in Nat /\ last \in Nat
      /\ draft.tasks \in Nat /\ draft.verified \in Nat /\ draft.events \in Nat
      /\ \A s \in Requests : s.sequence \in Nat
  BY <1>1, MonitorTypes, SnapshotFields DEF MonitorInv, Requests
<1>3. /\ draft.epoch = epoch /\ draft.sequence = last /\ draft.tasks <= tasks
      /\ draft.tasks <= draft.verified /\ draft.verified <= draft.events /\ draft.events <= events /\ ~ draft.missing
      /\ \A s \in Requests : /\ s.tasks <= draft.tasks /\ s.events <= draft.events
                             /\ s.epoch = epoch => s.sequence < last
  BY <1>1, <1>2 DEF DraftInv, Building
<1>4. RequestInv'
  <2> SUFFICES ASSUME NEW s \in Requests \union {draft}
               PROVE  /\ Coherent(s) /\ s.epoch <= epoch /\ s.tasks <= tasks /\ s.events <= events
                      /\ s.epoch = epoch => s.sequence <= last
    BY <1>1, <1>2 DEF RequestInv, Coherent
  <2>1. CASE s \in Requests
    BY <1>2, <2>1 DEF RequestInv
  <2>2. CASE s = draft
    BY <1>2, <1>3, <2>2 DEF Coherent
  <2> QED
    BY <2>1, <2>2
<1>5. SequenceInv'
  <2> SUFFICES ASSUME NEW s \in Requests \union {draft}, NEW t \in Requests \union {draft},
                      s.epoch = t.epoch, s.sequence < t.sequence
               PROVE  s.tasks <= t.tasks /\ s.events <= t.events
    BY <1>2 DEF SequenceInv
  <2>1. CASE s \in Requests /\ t \in Requests
    BY <1>2, <2>1 DEF SequenceInv
  <2>2. CASE s \in Requests /\ t = draft
    BY <1>3, <2>2
  <2>3. CASE s = draft
    <3>1. s.sequence = last /\ (t.sequence < last \/ t.sequence = last)
      BY <1>3, <2>3
    <3>2. t.sequence \in Nat
      BY <1>2, <1>3
    <3> QED
      BY <1>2, <3>1, <3>2
  <2> QED
    BY <2>1, <2>2, <2>3
<1>6. DraftInv'
  BY <1>1 DEF DraftInv, Building
<1> QED
  BY <1>1, <1>2, <1>4, <1>5, <1>6, TableStays

\* A request that is accepted is newer than every row kept and of no older schema;
\* the trimming keeps it.
LEMMA IngestStep ==
  ASSUME MonitorInv, NEW s \in net, Ingest(s)
  PROVE  RequestInv' /\ SequenceInv' /\ DraftInv' /\ TableInv'
<1>1. /\ UNCHANGED <<tasks, events, last, at, draft, epoch>> /\ net' \subseteq net
      /\ \/ UNCHANGED <<floor, stored, rows>>
         \/ /\ Newer(s) /\ Admitted(s)
            /\ floor' = s.rank /\ stored' = s /\ rows' = Trimmed(rows \union {s})
  BY DEF Ingest, workspace
<1>2. /\ TableInv /\ tasks \in Nat /\ events \in Nat /\ floor \in Nat
      /\ s.sequence \in Nat /\ s.rank \in Nat /\ s # NoSnapshot
      /\ \A t \in rows : t.sequence \in Nat /\ t.rank \in Nat
  BY MonitorTypes, SnapshotFields DEF MonitorInv, Requests
<1>3. rows' \subseteq rows \union {s}
  BY <1>1 DEF Trimmed
<1>4. Requests' \subseteq Requests
  BY <1>1, <1>3 DEF Requests
<1>5. RequestInv' /\ SequenceInv' /\ DraftInv'
  BY <1>1, <1>2, <1>4, RequestsStay, DraftStays
<1>6. CASE UNCHANGED <<floor, stored, rows>>
  BY <1>2, <1>5, <1>6, TableStays
<1>7. CASE /\ Newer(s) /\ Admitted(s)
           /\ floor' = s.rank /\ stored' = s /\ rows' = Trimmed(rows \union {s})
  <2>1. \A t \in rows : t.sequence < s.sequence /\ t.rank <= s.rank
    <3>1. CASE stored = NoSnapshot
      BY <1>2, <3>1 DEF TableInv
    <3>2. CASE stored # NoSnapshot
      <4>1. /\ stored.sequence \in Nat /\ stored.sequence < s.sequence /\ floor <= s.rank
            /\ \A t \in rows : t.sequence <= stored.sequence /\ t.rank <= floor
        BY <1>2, <1>7, <3>2 DEF TableInv, Newer, Admitted
      <4> QED
        BY <1>2, <4>1
    <3> QED
      BY <3>1, <3>2
  <2>2. s \in rows'
    <3> DEFINE above == {t \in rows \union {s} : t.sequence > s.sequence}
    <3>1. above = {}
      BY <1>2, <2>1
    <3>2. Cardinality({}) = 0 /\ HistoryLimit \in Nat \ {0}
      BY FS_EmptySet, MonitorAssumption
    <3>3. Cardinality(above) < HistoryLimit
      <4> HIDE DEF above
      <4> QED
        BY <3>1, <3>2
    <3> QED
      BY <1>7, <3>3 DEF Trimmed
  <2>3. \A t \in rows' : t.sequence <= s.sequence /\ t.rank <= s.rank
    BY <1>2, <1>3, <2>1
  <2>4. \A t, u \in rows' : t.sequence < u.sequence => t.rank <= u.rank
    <3> SUFFICES ASSUME NEW t \in rows', NEW u \in rows', t.sequence < u.sequence PROVE t.rank <= u.rank
      OBVIOUS
    <3>1. CASE u = s
      BY <2>3, <3>1
    <3>2. CASE u \in rows /\ t = s
      BY <1>2, <2>1, <3>2
    <3>3. CASE u \in rows /\ t \in rows
      BY <1>2, <3>3 DEF TableInv
    <3> QED
      BY <1>3, <3>1, <3>2, <3>3
  <2>5. TableInv'
    BY <1>2, <1>7, <2>2, <2>3, <2>4 DEF TableInv
  <2> QED
    BY <1>5, <2>5
<1> QED
  BY <1>1, <1>6, <1>7

\* Every step keeps the invariant.
LEMMA MonitorStep ==
  ASSUME MonitorInv, MonitorNext
  PROVE  MonitorInv'
<1>0. tasks \in Nat /\ events \in Nat /\ MonitorTypeOK' /\ (epoch <= mishaps)' /\ tasks' \in Nat /\ events' \in Nat
  <2>1. MonitorTypeOK' /\ (epoch <= mishaps)'
    BY MonitorTypeStep
  <2>2. tasks \in Nat /\ events \in Nat
    BY MonitorTypes DEF MonitorInv
  <2>3. tasks' \in Nat /\ events' \in Nat
    BY <2>1, MonitorAssumption DEF MonitorTypeOK
  <2> QED
    BY <2>1, <2>2, <2>3
<1>1. SUFFICES RequestInv' /\ SequenceInv' /\ DraftInv' /\ TableInv'
  BY <1>0 DEF MonitorInv
<1>2. CASE Archive \/ AppendEvent \/ WriteTask
  <2>1. /\ UNCHANGED <<epoch, last, draft, stored, rows, floor, net, at>>
        /\ tasks' \in {tasks, tasks + 1} /\ events' \in {events, events + 1}
    BY <1>2 DEF Archive, AppendEvent, WriteTask, publisher, server
  <2>2. tasks <= tasks' /\ events <= events'
    BY <1>0, <2>1
  <2> QED
    BY <1>0, <2>1, <2>2, QuietStep
<1>3. CASE \/ Start \/ AgeLock \/ LockTimeout \/ Answered \/ Confirm \/ Wake
           \/ Fail \/ Exit \/ Kill
  <2>1. /\ UNCHANGED <<epoch, last, draft, stored, rows, floor, net, tasks, events>>
        /\ at' = at \/ at' \in {"cycle", "sleep", "check", "off"}
    BY <1>3 DEF Start, AgeLock, LockTimeout, Answered, Confirm, Wake, Fail, Exit,
                Kill, workspace, server
  <2>2. (at' = at \/ at' \notin Building) /\ tasks <= tasks' /\ events <= events'
    BY <1>0, <2>1 DEF Building
  <2> QED
    BY <1>0, <2>1, <2>2, QuietStep
<1>4. CASE \E s \in net : Lose(s)
  <2>1. UNCHANGED <<epoch, last, draft, stored, rows, floor, at, tasks, events>> /\ net' \subseteq net
    BY <1>4 DEF Lose, workspace, server
  <2>2. tasks <= tasks' /\ events <= events'
    BY <1>0, <2>1
  <2> QED
    BY <1>0, <2>1, <2>2, QuietStep
<1>5. CASE LoseState
  BY <1>5, LoseStateStep
<1>6. CASE Reserve
  BY <1>6, ReserveStep
<1>7. CASE Build
  BY <1>7, BuildStep
<1>8. CASE Send
  BY <1>8, SendStep
<1>9. CASE \E s \in net : Ingest(s)
  BY <1>9, IngestStep
<1> QED
  BY <1>2, <1>3, <1>4, <1>5, <1>6, <1>7, <1>8, <1>9 DEF MonitorNext, Cycle

\* Nothing has been read, sent or stored.
LEMMA MonitorStart ==
  ASSUME MonitorInit
  PROVE  MonitorInv
<1>1. /\ files = 0 /\ events = 0 /\ tasks = 0 /\ last = 0 /\ publisherLock = "free" /\ at = "off" /\ rank = 0
      /\ draft = Empty /\ reply = "none" /\ net = {} /\ stored = NoSnapshot /\ rows = {} /\ floor = 0
      /\ epoch = 0 /\ mishaps = 0
  BY DEF MonitorInit
<1>2. 0 \in 0..MaxEvents /\ 0 \in 0..MaxSequence /\ 0 \in 0..MaxFaults /\ 0 \in 0..0
  BY MonitorAssumption
<1>3. Empty \in Snapshots
  BY <1>2 DEF Empty, Snapshots
<1>4. MonitorTypeOK
  BY <1>1, <1>2, <1>3 DEF MonitorTypeOK
<1> QED
  BY <1>1, <1>4 DEF MonitorInv, RequestInv, SequenceInv, DraftInv, TableInv, Requests, Building

\* Whatever is lost, late, doubled, killed or restarted, the invariant holds.
THEOREM MonitorInvariant == MonitorSpec => []MonitorInv
<1>1. MonitorInit => MonitorInv
  BY MonitorStart
<1>2. MonitorInv /\ [MonitorNext]_monitorVars => MonitorInv'
  <2>1. ASSUME MonitorInv, UNCHANGED monitorVars PROVE MonitorInv'
    <3>1. UNCHANGED <<files, events, tasks, last, publisherLock, at, rank, draft, reply, net, stored, rows, floor, epoch, mishaps>>
      BY <2>1 DEF monitorVars, workspace, publisher, server
    <3> QED
      BY <2>1, <3>1 DEF MonitorInv, MonitorTypeOK, RequestInv, SequenceInv, DraftInv, TableInv, Requests, Coherent
  <2> QED
    BY <2>1, MonitorStep
<1> QED
  BY <1>1, <1>2, PTL DEF MonitorSpec

\* DashboardInOrder for every set of schema ranks, every length of the history and
\* any number of submissions, sequences and faults: the page never goes back.
THEOREM PageNeverGoesBack == MonitorSpec => []DashboardInOrder
<1>1. MonitorInv => DashboardInOrder
  <2> SUFFICES ASSUME MonitorInv PROVE DashboardInOrder
    OBVIOUS
  <2>1. RequestInv /\ SequenceInv /\ TableInv /\ rows \subseteq Requests
    BY DEF MonitorInv, Requests
  <2>2. \A s, t \in rows : InOrder(s, t)
    BY <2>1 DEF InOrder, SequenceInv, TableInv
  <2>3. \A s \in rows : Coherent(s)
    BY <2>1 DEF RequestInv
  <2>4. stored # NoSnapshot => stored \in rows /\ \A s \in rows : s.sequence <= stored.sequence
    BY <2>1 DEF TableInv
  <2> QED
    BY <2>2, <2>3, <2>4 DEF DashboardInOrder
<1> QED
  BY <1>1, MonitorInvariant, PTL
==============================================================================
