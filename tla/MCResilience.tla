---------------------------- MODULE MCResilience ----------------------------
(* Instances of Resilience for TLC. *)
EXTENDS Resilience, TLC

Symmetry == Permutations(Calls)
=============================================================================
