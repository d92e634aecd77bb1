----------------------- MODULE MCArchISOQualification -----------------------
(***************************************************************************)
(* ArchISOQualification with a package every selection needs and one it    *)
(* may hold besides, and two snapshots, which nothing but time tells       *)
(* apart.                                                                  *)
(***************************************************************************)
EXTENDS ArchISOQualification, TLC

Symmetry == Permutations(Snapshot)
=============================================================================
