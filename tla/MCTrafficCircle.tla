-------------------------- MODULE MCTrafficCircle --------------------------
(***************************************************************************)
(* TLC instances of TrafficCircle.                                         *)
(***************************************************************************)
EXTENDS TrafficCircle, TLC

Symmetry == Permutations(Cars)
=============================================================================
