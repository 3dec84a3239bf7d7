---------------------------- MODULE Independence ----------------------------
(***************************************************************************)
(* independence.py: when two signed identity snapshots are independent.  A *)
(* model family label is the sequence of its parts ("openai-codex" is two  *)
(* parts); an agent that declared no identity has known = FALSE.           *)
(***************************************************************************)
EXTENDS Naturals, Sequences

MODEL_ROLE_SUFFIXES == {"advisor", "auditor", "checker", "executant", "executor",
                        "reviewer", "verifier", "worker"}

\* Terminal role labels are stripped one by one, but the first part stays.
canonical_model_family(family) ==
    LET Kept(n) == \A k \in (n + 1)..Len(family) : family[k] \in MODEL_ROLE_SUFFIXES
        shortest == CHOOSE n \in 1..Len(family) : Kept(n) /\ \A m \in 1..(n - 1) : ~Kept(m)
    IN SubSeq(family, 1, shortest)

\* The agent and every agent it is declared an alias of.
Lineage(identity) == identity.alias_chain \union {identity.actor}

\* evaluate_independence(worker, verifier)["independent"]
evaluate_independence(worker, verifier) ==
    /\ worker.known /\ verifier.known
    /\ worker.actor # verifier.actor
    /\ worker.control_principal # verifier.control_principal
    /\ canonical_model_family(worker.model_family)
         # canonical_model_family(verifier.model_family)
    /\ Lineage(worker) \intersect Lineage(verifier) = {}
=============================================================================
