--------------------------- MODULE ReadinessLedger ---------------------------
(***************************************************************************)
(* production/readiness.json as verify_production_readiness.py accepts it: *)
(* the gates of a production release, what they depend on and the evidence *)
(* they are qualified on. Constant-level: a verifier keeps no state.       *)
(*                                                                         *)
(* The identity of the gates is fixed. The digests, names and dates of an  *)
(* evidence file compare fields of that file alone, and are left out; so   *)
(* are the gate documents, which repeat the status. A gate that is not     *)
(* qualified states a blocker, a qualified one none: `qualified` says      *)
(* both.                                                                   *)
(***************************************************************************)
EXTENDS GateGraph

CONSTANTS
    Components,   \* by gate: what its evidence may be about
    Locked,       \* components with a revision in components.lock.toml
    Revision

\* The distribution itself is a component of gates, and is not in the lock:
\* the revision of evidence about it is compared with nothing.
Distribution == "ArachOS"
Unbound == "unbound"

ASSUME LedgerAssumption ==
    /\ Distribution \notin Locked
    /\ Components \in [Gate -> (SUBSET (Locked \cup {Distribution})) \ {{}}]

Lock == [Locked -> Revision]

Evidence == [component : Locked, revision : Revision]
                \cup [component : {Distribution}, revision : {Unbound}]

GateRecord ==
    [qualified : BOOLEAN, depends : SUBSET Gate, evidence : SUBSET Evidence]

Ledger == [Gate -> GateRecord]

-----------------------------------------------------------------------------

\* Evidence about a locked component counts only at the revision the lock
\* names now; that about the distribution, at any.
EvidenceIsCurrent(item, lock) ==
    item.component \in Locked => item.revision = lock[item.component]

\* Mutant: the revision is not compared with the lock.
QualifiedAtAnyRevision(gate, lock) == gate.evidence # {}

\* A qualified gate has its evidence, all of it current.
QualifiedEvidence(gate, lock) ==
    /\ gate.evidence # {}
    /\ \A item \in gate.evidence : EvidenceIsCurrent(item, lock)

EvidenceOfGate(g, gate) ==
    \A item \in gate.evidence : item.component \in Components[g]

\* Mutant: only a gate that depends on itself is refused.
AcyclicInItself(ledger) == \A g \in Gate : g \notin ledger[g].depends

\* What detect_cycles decides (CycleSearch).
Acyclic(ledger) == ~HasCycle([g \in Gate |-> ledger[g].depends])

\* A qualified gate depends on qualified gates, directly.
DependenciesQualified(ledger) ==
    \A g \in Gate : ledger[g].qualified =>
        \A d \in ledger[g].depends : ledger[d].qualified

\* validate_manifest.
ManifestValid(ledger, lock) ==
    /\ \A g \in Gate : /\ EvidenceOfGate(g, ledger[g])
                       /\ ledger[g].qualified => QualifiedEvidence(ledger[g], lock)
                       /\ ValidDependencies(g, ledger[g].depends)
    /\ Acyclic(ledger)
    /\ DependenciesQualified(ledger)

\* require_production_ready.
ProductionReady(ledger) == \A g \in Gate : ledger[g].qualified
=============================================================================
