-------------------------- MODULE MCMarkerSequence --------------------------
(***************************************************************************)
(* MarkerSequence with two markers of which the first is found in the      *)
(* lines of the second too, so that the choice of a line matters, and two  *)
(* verifiers over the logs of two boots.                                   *)
(***************************************************************************)
EXTENDS MarkerSequence

CONSTANTS spawned, session, noise

MCMarkers == <<{spawned, session}, {session}>>
=============================================================================
