------------------------------- MODULE MCAuth -------------------------------
(* Instances of Auth for TLC. *)
EXTENDS Auth, TLC

Symmetry == Permutations(Tasks) \cup Permutations(Tokens) \cup Permutations(Codes)
=============================================================================
