----------------------------- MODULE MCDesktop -----------------------------
(* Instances of Desktop for TLC. *)
EXTENDS Desktop

MCFoci == {{"shell"}, {"rows"}, {"findings", "rows"}, {"certs"}, {"net", "findings"}, {"probes"}}
MCProbeFoci == {{"probes"}}
=============================================================================
