-------------------------- MODULE MCLedgerAppend --------------------------
(* LedgerAppend for TLC: the processes are interchangeable. *)
EXTENDS LedgerAppend, TLC

Symmetric == Permutations(Procs)
=============================================================================
