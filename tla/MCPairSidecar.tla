--------------------------- MODULE MCPairSidecar ---------------------------
(* Two rounds take four writes.                                              *)
EXTENDS PairSidecar

\* A late result and a crash, a failure or an edit
LateBudgets == {[writes |-> 5, faults |-> 1]}

\* Either of them
MCBudgets == {[writes |-> 5, faults |-> 0], [writes |-> 4, faults |-> 1]}

\* A broker that dies in its first call
OrphanBudgets == {[writes |-> 0, faults |-> 1]}
=============================================================================
