-------------------------- MODULE MCSnapshotBroker --------------------------
(* Two clients of one account and three slots' worth of time. *)
EXTENDS SnapshotBroker, TLC

OneAccount(c) == "uid"
\* A crash, a failed operation or an edit, with a timeout before or after it
Faults == {[crashes |-> 1, failures |-> 0, timeouts |-> 1, edits |-> 0],
           [crashes |-> 0, failures |-> 1, timeouts |-> 1, edits |-> 0],
           [crashes |-> 0, failures |-> 0, timeouts |-> 1, edits |-> 1]}
ThreadSymmetry == Permutations(Threads)
=============================================================================
