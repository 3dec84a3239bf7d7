-------------------------- MODULE ExactlyOnceLog --------------------------
(***************************************************************************)
(* What ledger v2 promises the callers of append and                       *)
(* reconcile_transaction: a transaction is applied at most once, a result  *)
(* is returned only for a transaction that was applied, and whatever is    *)
(* lost, no transaction with a returned result is.  The promise is void    *)
(* once power has taken what a caller had already built on.                *)
(***************************************************************************)
EXTENDS Naturals, Sequences

CONSTANT Txs

VARIABLES
    entries,    \* the transactions whose event is in the log, in order
    acked,      \* the transactions a DurableV2Append was returned for
    void        \* the promise no longer holds

Applied(s) == {s[k] : k \in 1..Len(s)}

Init == entries = <<>> /\ acked = {} /\ void = FALSE

Apply(tx) ==
    /\ tx \notin Applied(entries)
    /\ entries' = Append(entries, tx)
    /\ UNCHANGED <<acked, void>>

Ack(tx) ==
    /\ tx \in Applied(entries)
    /\ acked' = acked \union {tx}
    /\ UNCHANGED <<entries, void>>

\* Events at the end that nobody was told of may vanish.
Lose ==
    /\ \E n \in 0..Len(entries) :
         /\ entries' = SubSeq(entries, 1, n)
         /\ acked \subseteq Applied(entries')
    /\ UNCHANGED <<acked, void>>

Forfeit == void' = TRUE

Next == Lose \/ Forfeit \/ \E tx \in Txs : Apply(tx) \/ Ack(tx)

Spec == Init /\ [][Next]_<<entries, acked, void>>
=============================================================================
