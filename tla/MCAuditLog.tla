----------------------------- MODULE MCAuditLog -----------------------------
(* Instances of AuditLog for TLC: replicas are interchangeable. *)
EXTENDS AuditLog, TLC

Symmetry == Permutations(Writers)
=============================================================================
