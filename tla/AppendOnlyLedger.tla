------------------------- MODULE AppendOnlyLedger -------------------------
(***************************************************************************)
(* What ledger.py promises its callers: one hash-chained log that grows by *)
(* one whole event at a time, and a call that returns only once its event  *)
(* is in the log.  A caller that dies in mid-write seals the log: what was *)
(* in it stays, nothing is added any more.  The promise is void once a     *)
(* live caller has lost its lock.  Locks, files and time do not appear     *)
(* here; LedgerAppend is shown to implement this specification.            *)
(***************************************************************************)
EXTENDS Naturals, Sequences

CONSTANTS Procs,    \* callers; each appends one event
          Genesis   \* GENESIS_HASH

VARIABLES log,      \* the signed events, oldest first
          returned, \* callers whose append has returned
          sealed,   \* a caller has died in the middle of its line
          void      \* a live caller has lost its lock

absVars == <<log, returned, sealed, void>>

\* event_hash of the last event; an event is named by its caller.
LastHash == IF log = <<>> THEN Genesis ELSE log[Len(log)].actor

Writers == {log[i].actor : i \in DOMAIN log}

AbsInit == log = <<>> /\ returned = {} /\ sealed = FALSE /\ void = FALSE

AppendEvent(p) ==
    /\ ~sealed
    /\ p \notin Writers
    /\ log' = Append(log, [sequence |-> Len(log) + 1,
                           actor |-> p,
                           previous_hash |-> LastHash])
    /\ UNCHANGED <<returned, sealed, void>>

\* Only a sealed log can lose the event of a caller that returns: it went into
\* the line that the dead caller left open.
ReturnEvent(p) ==
    /\ p \notin returned
    /\ p \in Writers \/ sealed
    /\ returned' = returned \union {p}
    /\ UNCHANGED <<log, sealed, void>>

Seal ==
    /\ sealed' = TRUE
    /\ UNCHANGED <<log, returned, void>>

\* Two callers write at once.
Forfeit == void' = TRUE

AbsNext == Seal \/ Forfeit \/ \E p \in Procs : AppendEvent(p) \/ ReturnEvent(p)

AbsSpec == AbsInit /\ [][AbsNext]_absVars
=============================================================================
