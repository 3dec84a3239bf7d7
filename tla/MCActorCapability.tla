------------------------- MODULE MCActorCapability -------------------------
(* Two processes, two keys, three tokens; a process dies or the clock is    *)
(* set back once.                                                           *)
EXTENDS ActorCapability, TLC

Symmetric == Permutations(Procs) \union Permutations(Secrets)
=============================================================================
