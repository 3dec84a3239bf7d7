---------------------------- MODULE PairSidecar ----------------------------
(***************************************************************************)
(* orchestrator/pair-sidecar.ps1 and the stop command of pair.ps1: one     *)
(* pair task.  Brokers take turns in passes (Process-OneTask) under an     *)
(* exclusive lock file.  A pass asks the agent for a round, imports what   *)
(* it left in its outbox, or has Codex answer; everything ends in          *)
(* PAIR_CANDIDATE or PAIR_SAFE_STOP.  The agent runs on a server: it       *)
(* cannot be cancelled, and writes whenever and whatever it likes.         *)
(*                                                                         *)
(* A response stands for its hash; a DONE file is the hash it names.       *)
(***************************************************************************)
EXTENDS Naturals, Sequences, FiniteSets, FiniteSetsExt

CONSTANTS
    Brokers,     \* sidecar processes
    None,
    WaitLimit,   \* WaitTimeoutMinutes, in quiescence periods
    Budgets      \* the bounds: the agent's writes, and the crashes, failures and edits

ASSUME ConstantsAssumption ==
    /\ None \notin Brokers \union {"go", "revised", "stop", "bad", "changed", "torn"}
    /\ WaitLimit \in Nat /\ Budgets \subseteq [writes : Nat, faults : Nat]

VARIABLES
    state,      \* STATE.json, as it was last written
    envelope,   \* of the task: "whole", "stateless" without STATE.json, "unfit" without BRIEF.md
    age,        \* quiescence periods since phase_entered_at
    settled,    \* one has passed since first_observed_at
    outbox,     \* the writable directory of each round
    imported,   \* .antigravity-imports
    canonical,  \* the published responses
    seals,      \* .antigravity-seals
    answers,    \* what Codex wrote, by stage
    bundle,     \* PAIR_CANDIDATE_SEAL.json
    stop,       \* the stop command: "no", "asked", "written"
    pinned,     \* the target is as the task found it
    lock,       \* the broker that has .broker.lock open
    broker,     \* where each broker is, and the state it has read
    told,       \* the rounds whose prompt reached the agent
    writes,     \* the writes left to the agent, in both rounds
    calls,      \* the adapters started, with the responses they could read
    shown, old, \* what was in the outbox of a round, ever and a quiescence period ago
    ripe,       \* the rounds whose import had been there that long
    faults

rounds == <<outbox, imported, canonical, seals>>
codex == <<answers, bundle>>
agent == <<told, writes>>
clock == <<age, settled>>
history == <<calls, shown, old, ripe>>
vars == <<state, envelope, clock, rounds, codex, stop, pinned, lock, broker, agent, history, faults>>

\* The stages in their order: agent and Codex, twice.  Stage k belongs to
\* round RoundOf(k).
Stages == 1..4
Rounds == 1..2
Running == <<"RUNNING_ANTIGRAVITY_R1", "RUNNING_CODEX_R1",
             "RUNNING_ANTIGRAVITY_R2", "RUNNING_CODEX_CANDIDATE">>
After == <<"WAIT_ANTIGRAVITY_R1", "CODEX_R1_DONE", "WAIT_ANTIGRAVITY_R2", "PAIR_CANDIDATE">>
Phases == {"NEW", "PAIR_SAFE_STOP"} \union {Running[k] : k \in Stages} \union {After[k] : k \in Stages}
Terminal == {"PAIR_CANDIDATE", "PAIR_SAFE_STOP"}
Waiting(s) == s.phase \in {After[1], After[3]}
InFlight(s) == \E k \in Stages : s.phase = Running[k]
RoundOf(k) == (k + 1) \div 2
IsAgent(k) == k \in {1, 3}

\* The stage a pass starts from a phase
NextStage(phase) == IF phase = "NEW" THEN 1 ELSE (CHOOSE k \in Stages : After[k] = phase) + 1

\* What the front matter of a response recommends; "bad" has none.
Responses == {"go", "revised", "stop", "bad"}
Changed == "changed"   \* a response torn by a crash, or edited
Torn == "torn"         \* a seal torn by a crash is not JSON
Absent == [there |-> FALSE]
Box(response, done) == [there |-> TRUE, response |-> response, done |-> done]
Boxes == {Box(r, d) : r \in Responses \union {None}, d \in Responses \union {None}}

TypeOK ==
    /\ state \in [phase : Phases, seen : Boxes \union {Absent},
                  accepted : [Rounds -> Responses \union {None, Changed}]]
    /\ envelope \in {"whole", "stateless", "unfit"}
    /\ age \in 0..(WaitLimit + 1) /\ settled \in BOOLEAN
    /\ outbox \in [Rounds -> Boxes \union {Absent}] /\ imported \in [Rounds -> Boxes \union {Absent}]
    /\ canonical \in [Rounds -> Responses \union {None, Changed}]
    /\ seals \in [Rounds -> Responses \union {None, Changed, Torn}]
    /\ answers \in [Stages -> Responses \union {None, Changed}]
    /\ stop \in {"no", "asked", "written"} /\ pinned \in BOOLEAN
    /\ lock \in Brokers \union {None} /\ told \subseteq Rounds
    /\ \A b \in Brokers : broker[b].k \in Stages

Idle(s) == [pc |-> "idle", k |-> 1, st |-> s]
NewState == [phase |-> "NEW", seen |-> Absent, accepted |-> [r \in Rounds |-> None]]

\* New-PairTask
Init ==
    /\ state = NewState /\ envelope = "whole" /\ age = 0 /\ settled = FALSE
    /\ outbox = [r \in Rounds |-> Absent] /\ imported = [r \in Rounds |-> Absent]
    /\ canonical = [r \in Rounds |-> None] /\ seals = [r \in Rounds |-> None]
    /\ answers = [k \in Stages |-> None] /\ bundle = None
    /\ stop = "no" /\ pinned = TRUE /\ lock = None
    /\ broker = [b \in Brokers |-> Idle(NewState)]
    /\ told = {} /\ \E q \in Budgets : writes = q.writes /\ faults = q.faults
    /\ calls = <<>> /\ shown = {} /\ old = {} /\ ripe = {}

Fault == faults > 0 /\ faults' = faults - 1

-----------------------------------------------------------------------------
(* A pass *)

At(b, pc) == broker[b].pc = pc
Go(b, pc) == broker' = [broker EXCEPT ![b].pc = pc] /\ UNCHANGED lock
Leave(b) == broker' = [broker EXCEPT ![b] = Idle(NewState)] /\ lock' = None

\* Set-State
SetState(s) ==
    /\ state' = s
    /\ age' = IF s.phase = state.phase THEN age ELSE 0
    /\ settled' = IF s.seen = state.seen THEN settled ELSE FALSE

\* Mutant: a wait has no limit
Expired_Never(s) == FALSE

\* Test-WaitExpired
Expired(s) == Waiting(s) /\ age > WaitLimit

\* Assert-AcceptedAgentRoundSeals: a round whose outbox is back, or whose
\* files differ from its seal
Late(s, r) == s.accepted[r] # None /\ outbox[r].there
Unsealed(s, r) == s.accepted[r] # None /\ ~ (seals[r] = s.accepted[r] /\ canonical[r] = seals[r])
Broken(s) == {r \in Rounds : Late(s, r) \/ Unsealed(s, r)}

SealsHold(s) == Broken(s) = {}

\* Assert-PairCandidateSeal
CandidateSealHolds(s) ==
    envelope = "whole" /\ bundle = [answers |-> answers, accepted |-> s.accepted]

\* Quarantine-LateAgentRound moves the directory away, unless the agent has a
\* file open.
Quarantine(r) ==
    \/ outbox' = [outbox EXCEPT ![r] = Absent] /\ UNCHANGED faults
    \/ Fault /\ UNCHANGED outbox

\* The assertions raise, having moved the first late round away.
Assertions(s) ==
    IF Broken(s) # {} /\ Late(s, Min(Broken(s))) THEN Quarantine(Min(Broken(s)))
    ELSE UNCHANGED <<outbox, faults>>

\* What a pass refuses to continue from
MustStop(s) == stop = "written" \/ InFlight(s) \/ Expired(s) \/ ~ pinned

\* Process-OneTask up to the phases.  Invoke-Reconcile passes over a task
\* without STATE.json, and Assert-TaskEnvelope raises before the pass has the
\* lock, so that the catch changes nothing.  A pass over a closed task that
\* still holds together changes nothing and is left out as well.
Begin(b) ==
    LET candidate == state.phase = "PAIR_CANDIDATE"
        sound == SealsHold(state) /\ (candidate => CandidateSealHolds(state))
        refused == IF candidate THEN stop = "written" ELSE MustStop(state)
        step(pc, k) == broker' = [broker EXCEPT ![b] = [pc |-> pc, k |-> k, st |-> state]]
    IN  /\ At(b, "idle") /\ lock = None /\ envelope = "whole" /\ state.phase # "PAIR_SAFE_STOP"
        /\ \/ /\ ~ sound \/ refused
              /\ step("stop", 1) /\ Assertions(state)
           \/ /\ sound /\ ~ refused /\ ~ candidate
              /\ LET k == NextStage(state.phase)
                 IN  step(IF IsAgent(k) THEN "prepare" ELSE "observe", k)
              /\ UNCHANGED <<outbox, faults>>
        /\ lock' = b
        /\ UNCHANGED <<state, clock, imported, canonical, seals, codex, stop, pinned, agent, history>>

\* Set-PairSafeStop, at once or from the catch of Process-OneTask
SafeStop(b) ==
    /\ At(b, "stop")
    /\ SetState([state EXCEPT !.phase = "PAIR_SAFE_STOP"]) /\ Leave(b)
    /\ UNCHANGED <<rounds, codex, stop, pinned, agent, history, faults>>

Stop(b) == Go(b, "stop")

\* A failed assertion ends the pass in the catch of Process-OneTask, unless
\* "after" is all that follows it.
Asserted(b, holds, after) ==
    \/ holds /\ after /\ UNCHANGED <<outbox, faults>>
    \/ ~ holds /\ Stop(b) /\ Assertions(broker[b].st) /\ UNCHANGED <<state, clock, bundle>>

\* Initialize-AgentOutboxRound and the Assert-PathsAbsent before it
Prepare(b) ==
    LET r == RoundOf(broker[b].k)
    IN  /\ At(b, "prepare")
        /\ IF outbox[r] = Absent /\ imported[r] = Absent /\ canonical[r] = None
           THEN outbox' = [outbox EXCEPT ![r] = Box(None, None)] /\ Go(b, "announce")
           ELSE Stop(b) /\ UNCHANGED outbox
        /\ UNCHANGED <<state, clock, imported, canonical, seals, codex, stop, pinned, agent, history, faults>>

\* The RUNNING_* state is on disk before the adapter starts.
Announce(b) ==
    /\ At(b, "announce")
    /\ SetState([broker[b].st EXCEPT !.phase = Running[broker[b].k], !.seen = Absent])
    /\ Go(b, "launch")
    /\ UNCHANGED <<rounds, codex, stop, pinned, agent, history, faults>>

\* Invoke-BoundedAdapter: the adapter has been let past its gate.
Launch(b) ==
    LET k == broker[b].k
    IN  /\ At(b, "launch") /\ Go(b, "running")
        /\ calls' = Append(calls, [stage |-> k, saw |-> canonical])
        /\ told' = IF IsAgent(k) THEN told \union {RoundOf(k)} ELSE told
        /\ UNCHANGED <<state, clock, rounds, codex, stop, pinned, writes, shown, old, ripe, faults>>

\* It ends with an answer, in failure, at its deadline or by the stop request.
Finish(b) ==
    LET k == broker[b].k
    IN  /\ At(b, "running")
        /\ \/ stop # "written" /\ IsAgent(k) /\ Go(b, "called") /\ UNCHANGED answers
           \/ /\ stop # "written" /\ ~ IsAgent(k) /\ Go(b, "called")
              /\ \E x \in Responses \ {"revised"} : answers' = [answers EXCEPT ![k] = x]
           \/ Stop(b) /\ UNCHANGED answers
        /\ UNCHANGED <<state, clock, rounds, bundle, stop, pinned, agent, history, faults>>

\* What follows the call asserts that nothing changed meanwhile.
Undisturbed(b) ==
    SealsHold(broker[b].st) /\ pinned /\ answers[broker[b].k] \notin {"bad", Changed}

Called(b) ==
    LET k == broker[b].k
        next == SetState([broker[b].st EXCEPT !.phase = After[k], !.seen = Absent]) /\ Leave(b)
        same == UNCHANGED <<state, clock>>
    IN  /\ At(b, "called")
        /\ Asserted(b, Undisturbed(b),
               /\ UNCHANGED bundle
               /\ CASE k = 4 -> Go(b, "register") /\ same
                    [] k = 2 /\ answers[k] = "stop" -> Stop(b) /\ same
                    [] OTHER -> next)
        /\ UNCHANGED <<imported, canonical, seals, answers, stop, pinned, agent, history>>

\* Register-PairCandidateSeal, after the assertions once more
Register(b) ==
    /\ At(b, "register")
    /\ Asserted(b, SealsHold(broker[b].st) /\ pinned,
           /\ bundle' = [answers |-> answers, accepted |-> broker[b].st.accepted]
           /\ Go(b, "publish") /\ UNCHANGED <<state, clock>>)
    /\ UNCHANGED <<imported, canonical, seals, answers, stop, pinned, agent, history>>

Publish(b) ==
    /\ At(b, "publish")
    /\ IF CandidateSealHolds(broker[b].st) /\ answers[4] # "stop"
       THEN SetState([broker[b].st EXCEPT !.phase = "PAIR_CANDIDATE", !.seen = Absent]) /\ Leave(b)
       ELSE Stop(b) /\ UNCHANGED <<state, clock>>
    /\ UNCHANGED <<rounds, codex, stop, pinned, agent, history, faults>>

-----------------------------------------------------------------------------
(* Get-ImportedAgentEnvelope *)

\* Up to the observation: both files are there.  The pass notes what it finds
\* in its own copy of the state.
Observe(b) ==
    LET r == RoundOf(broker[b].k)
        box == outbox[r]
        fresh == ~ imported[r].there
        complete == box.there /\ box.done # None /\ box.response # None
    IN  /\ At(b, "observe")
        /\ CASE box.there /\ imported[r].there -> Stop(b) /\ Quarantine(r)
             [] imported[r].there /\ ~ box.there -> Go(b, "check") /\ UNCHANGED <<outbox, faults>>
             [] fresh /\ complete ->
                  /\ broker' = [broker EXCEPT ![b].pc = "hash", ![b].st.seen = box]
                  /\ UNCHANGED <<lock, outbox, faults>>
             [] fresh /\ box.there /\ box.done # None /\ box.response = None ->
                  Stop(b) /\ UNCHANGED <<outbox, faults>>
             [] OTHER -> Leave(b) /\ UNCHANGED <<outbox, faults>>
        /\ UNCHANGED <<state, clock, imported, canonical, seals, codex, stop, pinned, agent, history>>

\* Get-AgentRoundObservation hashes the response first and DONE after it, and
\* may notice by a length that one was rewritten meanwhile.
Observation(b) == Box(broker[b].st.seen.response, outbox[RoundOf(broker[b].k)].done)

\* An outbox is imported when two passes, a quiescence period apart, have made
\* the same observation.
Hash(b) ==
    LET seen == Observation(b)
    IN  /\ At(b, "hash")
        /\ \/ outbox[RoundOf(broker[b].k)] # broker[b].st.seen /\ Leave(b) /\ UNCHANGED <<state, clock>>
           \/ seen # state.seen /\ SetState([state EXCEPT !.seen = seen]) /\ Leave(b)
           \/ seen = state.seen /\ settled /\ Go(b, "move") /\ UNCHANGED <<state, clock>>
           \/ seen = state.seen /\ ~ settled /\ Leave(b) /\ UNCHANGED <<state, clock>>
        /\ UNCHANGED <<rounds, codex, stop, pinned, agent, history, faults>>

\* The directory as it is now, not as it was observed
Move(b) ==
    LET r == RoundOf(broker[b].k)
    IN  /\ At(b, "move") /\ Go(b, "check")
        /\ imported' = [imported EXCEPT ![r] = outbox[r]]
        /\ outbox' = [outbox EXCEPT ![r] = Absent]
        /\ ripe' = IF outbox[r] \in old THEN ripe \union {r} ELSE ripe
        /\ shown' = {} /\ old' = {}
        /\ UNCHANGED <<state, clock, canonical, seals, codex, stop, pinned, agent, calls, faults>>

\* Mutant: what was moved is not compared with what was observed
Acceptable_Unobserved(box, s) == box.response = box.done /\ box.response # "bad"

Acceptable(box, s) == box = s.seen /\ box.response = box.done /\ box.response # "bad"

Check(b) ==
    /\ At(b, "check")
    /\ IF /\ Acceptable(imported[RoundOf(broker[b].k)], state)
          /\ stop # "written" /\ ~ Expired(state)
       THEN Go(b, "copy") ELSE Stop(b)
    /\ UNCHANGED <<state, clock, rounds, codex, stop, pinned, agent, history, faults>>

\* Copy-ArtifactImmutable and New-DoneSentinel
Copy(b) ==
    LET r == RoundOf(broker[b].k)
        x == imported[r].response
    IN  /\ At(b, "copy")
        /\ IF canonical[r] \in {None, x}
           THEN canonical' = [canonical EXCEPT ![r] = x] /\ Go(b, "seal")
           ELSE Stop(b) /\ UNCHANGED canonical
        /\ UNCHANGED <<state, clock, outbox, imported, seals, codex, stop, pinned, agent, history, faults>>

\* Register-AcceptedAgentRound.  The state that records it is not on disk yet.
Seal(b) ==
    LET r == RoundOf(broker[b].k)
    IN  /\ At(b, "seal") /\ UNCHANGED lock
        /\ IF seals[r] \in {None, canonical[r]}
           THEN /\ seals' = [seals EXCEPT ![r] = canonical[r]]
                /\ broker' = [broker EXCEPT ![b].pc = "decide", ![b].st.accepted[r] = canonical[r]]
           ELSE broker' = [broker EXCEPT ![b].pc = "stop"] /\ UNCHANGED seals
        /\ UNCHANGED <<state, clock, outbox, imported, canonical, codex, stop, pinned, agent, history, faults>>

\* Back in Process-OneTask: does Codex go on?
Decide(b) ==
    LET k == broker[b].k
    IN  /\ At(b, "decide")
        /\ IF pinned /\ imported[RoundOf(k)].response # "stop" /\ answers[k] = None
           THEN Go(b, "announce") ELSE Stop(b)
        /\ UNCHANGED <<state, clock, rounds, codex, stop, pinned, agent, history, faults>>

\* What a broker does; none of it removes a file of the envelope.
Work(b) ==
    /\ \/ Begin(b) \/ SafeStop(b) \/ Prepare(b) \/ Announce(b) \/ Launch(b) \/ Finish(b) \/ Called(b)
       \/ Register(b) \/ Publish(b) \/ Observe(b) \/ Hash(b) \/ Move(b) \/ Check(b) \/ Copy(b) \/ Seal(b)
       \/ Decide(b)
    /\ UNCHANGED envelope

-----------------------------------------------------------------------------
(* Everything around the broker, as long as it can matter *)

Open == state.phase # "PAIR_SAFE_STOP"

\* A broker dies: Windows closes its lock file, and its Job object ends the
\* adapter.  The file it was writing may be left torn.
Crash(b) ==
    LET r == RoundOf(broker[b].k)
    IN  /\ Fault /\ lock = b /\ Leave(b)
        /\ \/ UNCHANGED <<canonical, seals>>
           \/ /\ At(b, "copy") /\ canonical[r] = None
              /\ canonical' = [canonical EXCEPT ![r] = Changed] /\ UNCHANGED seals
           \/ /\ At(b, "seal") /\ seals[r] = None
              /\ seals' = [seals EXCEPT ![r] = Torn] /\ UNCHANGED canonical
        /\ UNCHANGED <<state, envelope, clock, outbox, imported, codex, stop, pinned, agent, history>>

\* The places where a pass goes on to replace STATE.json
Replacing(b) ==
    \/ broker[b].pc \in {"stop", "announce", "publish", "hash"}
    \/ At(b, "called") /\ broker[b].k # 4 /\ Undisturbed(b)

\* Write-JsonAtomic: Move-Item -Force deletes STATE.json before it moves the
\* new one in its place.  The broker dies in between; or the move raises, and
\* the catch of Process-OneTask has no state to stop.
DropState(b) ==
    /\ Fault /\ lock = b /\ Replacing(b) /\ Leave(b) /\ envelope' = "stateless"
    /\ UNCHANGED <<state, clock, rounds, codex, stop, pinned, agent, history>>

\* A file operation raises; when it is that of the safe stop, it is only logged.
IOFails(b) ==
    /\ Fault /\ lock = b
    /\ IF At(b, "stop") THEN Leave(b) ELSE Stop(b)
    /\ UNCHANGED <<state, envelope, clock, rounds, codex, stop, pinned, agent, history>>

\* A quiescence period passes.
Tick ==
    /\ Open
    /\ age' = IF age > WaitLimit THEN age ELSE age + 1
    /\ settled' = (state.seen # Absent)
    /\ old' = shown
    /\ UNCHANGED <<state, envelope, rounds, codex, stop, pinned, lock, broker, agent, calls, shown, ripe, faults>>

\* Stop-PairTask checks the phase, and only then writes its request.
AskStop ==
    /\ stop = "no" /\ envelope # "stateless" /\ state.phase \notin Terminal /\ stop' = "asked"
    /\ UNCHANGED <<state, envelope, clock, rounds, codex, pinned, lock, broker, agent, history, faults>>

WriteStop ==
    /\ Open /\ stop = "asked" /\ stop' = "written"
    /\ UNCHANGED <<state, envelope, clock, rounds, codex, pinned, lock, broker, agent, history, faults>>

ChangeTarget ==
    /\ Open /\ Fault /\ pinned /\ pinned' = FALSE
    /\ UNCHANGED <<state, envelope, clock, rounds, codex, stop, lock, broker, agent, history>>

\* BRIEF.md, which belongs to what a task pins, is removed.
RemoveBrief ==
    /\ Open /\ Fault /\ envelope = "whole" /\ envelope' = "unfit" /\ pinned' = FALSE
    /\ UNCHANGED <<state, clock, rounds, codex, stop, lock, broker, agent, history>>

\* Somebody edits a published file, once.
Edit ==
    /\ Open /\ Fault
    /\ \/ \E r \in Rounds :
            canonical[r] \notin {None, Changed} /\ canonical' = [canonical EXCEPT ![r] = Changed] /\ UNCHANGED answers
       \/ bundle # None /\ answers' = [answers EXCEPT ![4] = Changed] /\ UNCHANGED canonical
    /\ UNCHANGED <<state, envelope, clock, outbox, imported, seals, bundle, stop, pinned, lock, broker, agent, history>>

\* The agent writes one of its two files, creating the directory when it has
\* been moved away.  Nothing reads a directory that comes back after its
\* import, only that it is there; and a response without front matter is
\* refused where one whose DONE names another is.
AgentWrites(r) ==
    LET box == IF outbox[r].there THEN outbox[r] ELSE Box(None, None)
        names == IF box.response = None THEN "go" ELSE box.response
        put(new) == outbox' = [outbox EXCEPT ![r] = new] /\ shown' = shown \union {new}
    IN  /\ Open /\ r \in told /\ writes > 0
        /\ \/ ~ imported[r].there /\ \E x \in Responses \ {box.response, "bad"} : put(Box(x, box.done))
           \/ ~ imported[r].there /\ box.done # names /\ put(Box(box.response, names))
           \/ /\ imported[r].there /\ ~ outbox[r].there
              /\ outbox' = [outbox EXCEPT ![r] = box] /\ UNCHANGED shown
        /\ writes' = writes - 1
        /\ UNCHANGED <<state, envelope, clock, imported, canonical, seals, codex, stop, pinned, lock, broker,
                       told, calls, old, ripe, faults>>

Next ==
    \/ \E b \in Brokers : Work(b) \/ Crash(b) \/ DropState(b) \/ IOFails(b)
    \/ \E r \in Rounds : AgentWrites(r)
    \/ Tick \/ AskStop \/ WriteStop \/ ChangeTarget \/ RemoveBrief \/ Edit

\* The broker loop reconciles every few seconds and is started again when it
\* dies; an adapter has a deadline.  The agent and the user owe nothing.
Fairness == WF_vars(\E b \in Brokers : Work(b)) /\ WF_vars(Tick)

Spec == Init /\ [][Next]_vars /\ Fairness

-----------------------------------------------------------------------------
(* Properties *)

\* The Codex stages whose answer the state says was accepted
Completed == {k \in {2, 4} : \E j \in k..4 : state.phase = After[j] \/ (j > k /\ state.phase = Running[j])}

\* Whatever crashes, restarts and late writes come between: no stage of a
\* task ever runs twice or out of its order (Process-OneTask refuses to replay
\* a RUNNING phase); and as long as the task is not stopped, a round it has
\* accepted is one response with its own DONE, found unchanged for a
\* quiescence period and not a STOP, and every Codex answer it relies on was
\* written by a call that could read exactly the accepted responses.  What was
\* accepted is that response, or an edit of the published copy that came
\* before Register-AcceptedAgentRound hashed it for the seal.
RoundsSound ==
    /\ \A i \in DOMAIN calls : calls[i].stage = i
    /\ state.phase # "PAIR_SAFE_STOP" =>
         /\ \A r \in Rounds : state.accepted[r] # None =>
              /\ \E x \in {"go", "revised"} : imported[r] = Box(x, x) /\ state.accepted[r] \in {x, Changed}
              /\ r \in ripe
         /\ \A k \in Completed : \A r \in 1..RoundOf(k) : calls[k].saw[r] = state.accepted[r]

\* Invoke-Reconcile skips the task, or Assert-TaskEnvelope refuses it, for ever.
Abandoned == envelope # "whole"

\* Every task comes to an end whatever the agent does, by the wait limit of
\* Test-WaitExpired if nothing else, and a stop request that was written
\* revokes it, the finished candidate included; unless STATE.json or BRIEF.md
\* is gone, and with it every pass over the task.
PairCloses ==
    /\ <>(state.phase \in Terminal \/ Abandoned)
    /\ stop = "written" ~> state.phase = "PAIR_SAFE_STOP" \/ Abandoned

\* What PAIR_FAST_START_KO.md says of a broker that ends abnormally: the call
\* it leaves behind is closed with PAIR_SAFE_STOP.
OrphansClose == lock = None /\ InFlight(state) ~> state.phase = "PAIR_SAFE_STOP"

\* What PAIR_FAST_START_KO.md says of a late result: the round it reappears in
\* invalidates even the finished candidate.
LateRevokes == \A r \in Rounds : Late(state, r) ~> state.phase = "PAIR_SAFE_STOP"
=============================================================================
