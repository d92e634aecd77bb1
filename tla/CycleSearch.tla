----------------------------- MODULE CycleSearch -----------------------------
(***************************************************************************)
(* detect_cycles of scripts/verify_production_readiness.py: a depth-first  *)
(* search whose starting nodes share what was visited. The recursion is a  *)
(* stack: `path` holds the calls of visit that have not returned, and      *)
(* `pending` what is left of the loop of each. The order of a dependency   *)
(* list, and that of the gates, is any.                                    *)
(***************************************************************************)
EXTENDS GateGraph, Naturals, Sequences

VARIABLES
    depends,            \* the document
    roots,              \* nodes the outer loop has still to visit
    path, pending,      \* the calls of visit
    visiting, visited,
    outcome             \* "searching", or what the search ends with

vars == <<depends, roots, path, pending, visiting, visited, outcome>>

Init ==
    /\ depends \in [Gate -> SUBSET Gate]
    /\ \A g \in Gate : ValidDependencies(g, depends[g])
    /\ roots = Gate
    /\ path = <<>>
    /\ pending = [g \in Gate |-> {}]
    /\ visiting = {} /\ visited = {}
    /\ outcome = "searching"

Top == path[Len(path)]

\* Mutant: a node counts as visited from its first visit on.
VisitOnce(node, rest) ==
    /\ IF node \in visited
       THEN pending' = rest /\ UNCHANGED <<path, visiting, visited>>
       ELSE /\ visiting' = visiting \cup {node}
            /\ visited' = visited \cup {node}
            /\ path' = Append(path, node)
            /\ pending' = [rest EXCEPT ![node] = depends[node]]
    /\ UNCHANGED outcome

\* A call of visit. `rest` is what is left of the loop it comes from.
Visit(node, rest) ==
    \/ /\ node \in visiting
       /\ outcome' = "cycle"
       /\ UNCHANGED <<path, pending, visiting, visited>>
    \/ /\ node \in visited \ visiting
       /\ pending' = rest
       /\ UNCHANGED <<path, visiting, visited, outcome>>
    \/ /\ node \notin visiting \cup visited
       /\ visiting' = visiting \cup {node}
       /\ path' = Append(path, node)
       /\ pending' = [rest EXCEPT ![node] = depends[node]]
       /\ UNCHANGED <<visited, outcome>>

\* Mutant: a starting node stays in the list.
VisitRootKept(node) ==
    /\ outcome = "searching" /\ path = <<>>
    /\ node \in roots
    /\ Visit(node, pending)
    /\ UNCHANGED <<depends, roots>>

\* The outer loop.
VisitRoot(node) ==
    /\ outcome = "searching" /\ path = <<>>
    /\ node \in roots
    /\ roots' = roots \ {node}
    /\ Visit(node, pending)
    /\ UNCHANGED depends

\* The loop of the innermost call.
VisitDependency(node) ==
    /\ outcome = "searching" /\ path # <<>>
    /\ node \in pending[Top]
    /\ Visit(node, [pending EXCEPT ![Top] = @ \ {node}])
    /\ UNCHANGED <<depends, roots>>

\* Mutant: the node is not taken out of `visiting`, which is looked at first.
ReturnVisiting ==
    /\ outcome = "searching" /\ path # <<>>
    /\ pending[Top] = {}
    /\ visited' = visited \cup {Top}
    /\ path' = SubSeq(path, 1, Len(path) - 1)
    /\ UNCHANGED <<depends, roots, pending, visiting, outcome>>

\* Its loop is at its end.
Return ==
    /\ outcome = "searching" /\ path # <<>>
    /\ pending[Top] = {}
    /\ visiting' = visiting \ {Top}
    /\ visited' = visited \cup {Top}
    /\ path' = SubSeq(path, 1, Len(path) - 1)
    /\ UNCHANGED <<depends, roots, pending, outcome>>

\* Every gate was visited, and none failed.
Accept ==
    /\ outcome = "searching" /\ path = <<>> /\ roots = {}
    /\ outcome' = "acyclic"
    /\ UNCHANGED <<depends, roots, path, pending, visiting, visited>>

Next ==
    \/ \E node \in Gate : VisitRoot(node) \/ VisitDependency(node)
    \/ Return
    \/ Accept

Spec == Init /\ [][Next]_vars

\* The verifier goes on.
FairSpec == Spec /\ WF_vars(Next)

-----------------------------------------------------------------------------
\* Properties

TypeOK ==
    /\ depends \in [Gate -> SUBSET Gate]
    /\ roots \subseteq Gate
    /\ path \in Seq(Gate)
    /\ pending \in [Gate -> SUBSET Gate]
    /\ visiting = {path[i] : i \in DOMAIN path}
    /\ visited \subseteq Gate
    /\ outcome \in {"searching", "cycle", "acyclic"}

\* A ledger is refused exactly if its dependencies have a cycle, although each
\* gate is visited once only, whichever the search comes to it from.
VerdictIsExact ==
    /\ outcome = "cycle" => HasCycle(depends)
    /\ outcome = "acyclic" => ~HasCycle(depends)

\* The recursion ends on every graph, those with cycles too.
SearchEnds == <>(outcome # "searching")
=============================================================================
