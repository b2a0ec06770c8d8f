---------------------------- MODULE MCBackground ----------------------------
(***************************************************************************)
(* Instances of the three stateful parts around the store for TLC: the     *)
(* findings, the posture tasks and the estate.  They share no state, so a  *)
(* behaviour picks one of them and the others stay as they start.  The     *)
(* tasks interleave in an air-gapped gateway and take turns in one that is *)
(* not, where no tenant is paused before a request pauses it.              *)
(***************************************************************************)
EXTENDS Findings, Posture, Estate

CONSTANT Parts      \* which of the parts to explore

VARIABLE part       \* the part that runs

vars == <<part, findingsVars, postureVars, estateVars>>

Init ==
    /\ part \in Parts
    /\ FindingsInit /\ (part # "findings" => serial /\ origin = "fresh")
    /\ PostureInit /\ (part # "posture" => turns) /\ airGapped = ~turns /\ (turns => paused = {})
    /\ EstateInit /\ (part # "estate" => overlaps)

FindingsPart == part = "findings" /\ FindingsNext /\ UNCHANGED <<part, postureVars, estateVars>>
PosturePart == part = "posture" /\ PostureNext /\ UNCHANGED <<part, findingsVars, estateVars>>
EstatePart == part = "estate" /\ EstateNext /\ UNCHANGED <<part, findingsVars, postureVars>>

Next == FindingsPart \/ PosturePart \/ EstatePart

Spec == Init /\ [][Next]_vars

Symmetry == Permutations(Jobs)

\* No step undoes what was stored: a re-scan or a triage loses no finding, the
\* reconciliation re-opens no settled ticket, and no request that has its target for
\* itself takes a protection marker away.
NothingIsUndone == [][FindingsStay /\ TerminalIsFinal /\ MarkersStay]_vars
=============================================================================
