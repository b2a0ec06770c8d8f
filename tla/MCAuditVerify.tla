--------------------------- MODULE MCAuditVerify ---------------------------
(* Instances of AuditVerify for TLC: replicas are interchangeable. *)
EXTENDS AuditVerify, TLC

Symmetry == Permutations(Writers)
=============================================================================
