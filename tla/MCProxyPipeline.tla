-------------------------- MODULE MCProxyPipeline --------------------------
(* Instances of ProxyPipeline for TLC. *)
EXTENDS ProxyPipeline, TLC

Symmetry == Permutations(Calls)
=============================================================================
