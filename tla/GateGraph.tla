------------------------------ MODULE GateGraph ------------------------------
(***************************************************************************)
(* The gates of production/readiness.json as a graph: `depends` maps each  *)
(* gate to those its depends_on names.                                     *)
(***************************************************************************)
EXTENDS FiniteSets

CONSTANT Gate

ASSUME GateAssumption == IsFiniteSet(Gate)

\* The gates a gate stands on, through any chain of dependencies, and itself.
\* They are in every set that has the gate and all that its members depend on.
Below(depends, g) ==
    {d \in Gate : \A S \in SUBSET Gate :
        g \in S /\ (\A x \in S : depends[x] \subseteq S) => d \in S}

HasCycle(depends) == \E g \in Gate : \E d \in depends[g] : g \in Below(depends, d)

\* No gate depends on itself, or on what is no gate.
ValidDependencies(g, dependencies) == dependencies \subseteq Gate \ {g}
=============================================================================
