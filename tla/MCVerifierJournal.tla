------------------------- MODULE MCVerifierJournal -------------------------
(* VerifierJournal for TLC: the threads of one process.                    *)
EXTENDS VerifierJournal, TLC

CONSTANT verifier

MCProcesses == {verifier}
MCProcessOf == [th \in Threads |-> verifier]
=============================================================================
