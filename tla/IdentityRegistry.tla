-------------------------- MODULE IdentityRegistry --------------------------
(***************************************************************************)
(* Where the identities come from that evaluate_independence compares:     *)
(* Workspace.add_agent, which flattens an alias when it is registered, and *)
(* resolve_identity_registry of independence.py, which follows the aliases *)
(* of the registered agents and of an audit policy when events are read    *)
(* again.  A registry maps agents to declarations.                         *)
(***************************************************************************)
EXTENDS Independence, FiniteSets, SequencesExt

\* alias_of is another agent, or NoAlias for None.
NoAlias == ""
Undeclared == [declared |-> FALSE]
Declaration(alias, principal, family, chain) ==
    [declared |-> TRUE, alias_of |-> alias, control_principal |-> principal,
     model_family |-> family, alias_chain |-> chain]

\* build_identity refuses a chain that names an agent twice.
Buildable(chain) == IsInjective(chain)

\* identity_snapshot of a declaration, as evaluate_independence reads it
identity_snapshot(actor, d) ==
    IF ~ d.declared THEN [known |-> FALSE]
    ELSE [known |-> TRUE, actor |-> actor, control_principal |-> d.control_principal,
          model_family |-> d.model_family, alias_chain |-> ToSet(d.alias_chain)]

\* What add_agent writes for a new agent: its own identity, or its target's
\* with the target put in front of the chain.
MayAlias(registry, target) ==
    /\ target \in DOMAIN registry /\ registry[target].declared
    /\ Buildable(<<target>> \o registry[target].alias_chain)
AliasOf(registry, target) ==
    [registry[target] EXCEPT !.alias_of = target, !.alias_chain = <<target>> \o @]

\* A policy declares only agents whose record has no identity.
WithPolicy(registry, policy) ==
    [a \in DOMAIN registry \union DOMAIN policy |->
        IF a \in DOMAIN registry /\ registry[a].declared THEN registry[a]
        ELSE IF a \in DOMAIN policy THEN policy[a] ELSE registry[a]]

\* The aliases from an agent on, as far as they are declared: resolve's stack
Path(d, agent) ==
    LET next(a) == IF d[a].declared THEN d[a].alias_of ELSE NoAlias
        at[k \in 0..Cardinality(DOMAIN d)] ==
            IF k = 0 THEN agent
            ELSE IF at[k - 1] \in DOMAIN d THEN next(at[k - 1]) ELSE NoAlias
        named == {k \in DOMAIN at : at[k] # NoAlias}
    IN  [k \in 1..Cardinality(named) |-> at[k - 1]]

\* resolve: an agent met again is a cycle, and a chain that ends at an
\* undeclared agent resolves to nothing.
Cyclic(d, agent) == ~ IsInjective(Path(d, agent))
Resolved(d, agent) ==
    LET path == Path(d, agent)
        end == Last(path)
    IN  IF end \in DOMAIN d /\ d[end].declared
        THEN identity_snapshot(agent, [d[end] EXCEPT !.alias_chain = Tail(path) \o @])
        ELSE [known |-> FALSE]

\* resolve_identity_registry, which raises for the whole registry
Resolves(d) ==
    \A a \in DOMAIN d :
        /\ ~ Cyclic(d, a)
        /\ LET path == Path(d, a)
           IN  Last(path) \in DOMAIN d /\ d[Last(path)].declared =>
                   Buildable(Tail(path) \o d[Last(path)].alias_chain)
resolve_identity_registry(d) == [a \in DOMAIN d |-> Resolved(d, a)]
=============================================================================
