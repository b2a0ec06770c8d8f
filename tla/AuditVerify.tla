---------------------------- MODULE AuditVerify ----------------------------
(***************************************************************************)
(* POST /api/audit/verify (admin/audit_api.rs, verify_audit) running       *)
(* beside the writers of AuditLog.  The handler reads the entries and then *)
(* the checkpoints, as two queries, and hands both to verify_sharded; the  *)
(* "bundle" export that `qw verify` consumes makes the same two reads.     *)
(***************************************************************************)
EXTENDS AuditLog

CONSTANT VerifyCap  \* entries read at most (1_000_000; 10_000 for a bundle)

ASSUME VerifyCapAssumption == VerifyCap \in Nat \ {0}

VARIABLES
    vpc,       \* "idle" or "checkpoints": which query the handler is at
    snapshot,  \* the entries it has read
    verdict,   \* "none", "valid" or "invalid": the answer of the last request
    missed     \* auxiliary: checkpoints committed between the two reads

verifyVars == <<vpc, snapshot, verdict, missed>>

VInit ==
    /\ Init
    /\ vpc = "idle"
    /\ snapshot = {}
    /\ verdict = "none"
    /\ missed = 0

\* Mutant: the listing starts after the newest entry.
MutVerifyReadEntries ==
    /\ vpc = "idle"
    /\ vpc' = "checkpoints"
    /\ snapshot' = {entries[i] : i \in 1..(Len(entries) - 1)}
    /\ verdict' = "none"
    /\ missed' = 0
    /\ UNCHANGED vars

\* state.store.list_entries(VERIFY_CAP)
VerifyReadEntries ==
    /\ vpc = "idle"
    /\ vpc' = "checkpoints"
    /\ snapshot' = ListEntries(VerifyCap)
    /\ verdict' = "none"
    /\ missed' = 0
    /\ UNCHANGED vars

\* state.store.list_checkpoints(), then verify_sharded on what was read.
VerifyReadCheckpoints ==
    /\ vpc = "checkpoints"
    /\ vpc' = "idle"
    /\ verdict' = IF VerifySharded(snapshot, checkpoints) THEN "valid" ELSE "invalid"
    /\ snapshot' = {}
    /\ UNCHANGED <<vars, missed>>

\* A step of the writers; a commit during a request is noted.
VWriters ==
    /\ Next
    /\ missed' = IF vpc = "checkpoints" /\ checkpoints' # checkpoints
                 THEN missed + 1 ELSE missed
    /\ UNCHANGED <<vpc, snapshot, verdict>>

VNext == VerifyReadEntries \/ VerifyReadCheckpoints \/ VWriters

VSpec == VInit /\ [][VNext]_<<vars, verifyVars>>

-----------------------------------------------------------------------------

\* verify_audit never reports a log nobody has touched as broken, unless a
\* checkpoint was committed between its two reads: appends alone, at whatever
\* point of the request, raise no alarm.
AlarmOnlyWhenRaced == verdict = "invalid" => missed > 0
=============================================================================
