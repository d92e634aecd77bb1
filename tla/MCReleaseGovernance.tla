------------------------ MODULE MCReleaseGovernance ------------------------
(***************************************************************************)
(* ReleaseGovernance on a small instance: a gate every testing release     *)
(* needs and one that only stable needs, a policy whose channels retain    *)
(* less the higher they are, and a clock that lets a build reach stable    *)
(* with no time to spare.                                                  *)
(***************************************************************************)
EXTENDS ReleaseGovernance, TLC

CONSTANTS early, late, kernel

MCComponents == (early :> {kernel}) @@ (late :> {kernel, "ArachOS"})

MCRetained == [development |-> 3, testing |-> 2, stable |-> 2]
MCMinSoak  == [development |-> 0, testing |-> 1, stable |-> 1]
MCRequired == [development |-> {}, testing |-> {early}, stable |-> {early, late}]

Symmetry == Permutations(Build) \cup Permutations(Sequence)
                \cup Permutations(Revision)
=============================================================================
