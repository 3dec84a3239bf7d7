---------------------------- MODULE MCWorkspace ----------------------------
(* Workspace for TLC: one worker, one verifier that is not independent of it *)
(* (the same model family), and the orchestrator, which is.                  *)
EXTENDS TrustProjection, IdentityRegistry, TLC

CONSTANTS worker, verifier, orchestrator, t1, t2

MCAgents == {worker, verifier, orchestrator}
MCVerifiers == {verifier, orchestrator}

MCIdentity ==
    LET Id(a, principal, family, chain) ==
          [known |-> TRUE, actor |-> a, control_principal |-> principal,
           model_family |-> family, alias_chain |-> chain]
    IN (worker :> Id(worker, "alice", <<"openai", "codex", "worker">>, {}))
       @@ (verifier :> Id(verifier, "bob", <<"openai", "codex", "verifier">>, {}))
       @@ (orchestrator :> Id(orchestrator, "carol", <<"anthropic">>, {}))

\* Every task is the worker's; t2 depends on t1.
MCOwner == [t \in Tasks |-> worker]
MCPrereqs == [t \in Tasks |-> IF t = t2 THEN {t1} ELSE {}]

-----------------------------------------------------------------------------
(* The identities themselves, over every small registry. *)

Names == {"a", "b", "c"}
Own == {Declaration(NoAlias, principal, family, <<>>) :
            principal \in {"alice", "bob"}, family \in {<<"x">>, <<"x", "verifier">>, <<"y">>}}

\* Every registry that add_agent can build, a first, then b, then c
Register(registries, name) ==
    UNION {{(name :> d) @@ r : d \in {Undeclared} \union Own} \union
           {(name :> AliasOf(r, target)) @@ r : target \in {n \in DOMAIN r : MayAlias(r, n)}} :
           r \in registries}
Registries == Register(Register(Register({<<>>}, "a"), "b"), "c")

\* Every set of declarations with at most one own identity each, as a policy
\* may declare them: aliases that end nowhere or go round included
Declared == [Names -> {Undeclared, Declaration(NoAlias, "alice", <<"x">>, <<>>)} \union
                      {Declaration(n, "alice", <<"x">>, <<>>) : n \in Names \union {"gone"}}]

\* add_agent and resolve_identity_registry flatten aliases to the same
\* identities, and agents that share an alias lineage, however long, are never
\* independent of each other.
ASSUME AliasesNeverIndependent ==
    \A r \in Registries :
        /\ Resolves(r)
        /\ \A n \in Names : resolve_identity_registry(r)[n] = identity_snapshot(n, r[n])
        /\ \A n, k \in Names :
             r[n].declared /\ r[k].declared /\ ToSet(Path(r, n)) \intersect ToSet(Path(r, k)) # {} =>
                 ~ evaluate_independence(Resolved(r, n), Resolved(r, k))

\* With a policy, which never replaces the identity of a, the registry is
\* refused exactly when some agents are only aliases of each other.
ASSUME CyclesRefused ==
    \A d \in Declared, a \in {Undeclared, Declaration(NoAlias, "bob", <<"y">>, <<>>)} :
        LET all == WithPolicy([n \in Names |-> IF n = "a" THEN a ELSE Undeclared], d)
        IN  /\ Resolves(all) <=>
                 ~ \E s \in (SUBSET Names) \ {{}} :
                       \A n \in s : all[n].declared /\ all[n].alias_of \in s
            /\ a.declared /\ Resolves(all) => Resolved(all, "a") = identity_snapshot("a", a)

Symmetric == Permutations(Procs)
=============================================================================
