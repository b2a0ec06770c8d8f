---------------------------- MODULE AnchoredLog ----------------------------
(***************************************************************************)
(* What AuditBackend (qw-audit/src/backend.rs) promises its callers, with  *)
(* no replica, channel, statement or failure in sight: a log that only     *)
(* grows, and anchors over it that form one hash chain.  AuditLog          *)
(* implements it, see ImplementsAnchoredLog.                               *)
(***************************************************************************)
EXTENDS Naturals, Sequences

VARIABLES
    log,      \* the entries of all writers, in the order they were stored
    anchors   \* the signed checkpoints

Stored == {log[i] : i \in DOMAIN log}

AInit == log = <<>> /\ anchors = {}

\* append_entry: e is the only entry of its writer with its sequence.
Add(e) ==
    /\ \A f \in Stored : f.writer = e.writer => f.seq # e.seq
    /\ log' = Append(log, e)
    /\ UNCHANGED anchors

\* c is the next anchor: it links to the newest one there is.
Extends(c) ==
    IF anchors = {}
    THEN c.seq = 0
    ELSE \E a \in anchors :
            /\ \A b \in anchors : b.seq <= a.seq
            /\ c.seq = a.seq + 1 /\ c.prev = a.hash

\* commit_checkpoint: c anchors stored entries, none of them older than what
\* is anchored already.
Anchor(c) ==
    /\ Extends(c)
    /\ \A t \in c.tips : \E e \in Stored :
          e.writer = t.writer /\ e.seq = t.seq /\ e.hash = t.hash
    /\ \A a \in anchors : \A t \in a.tips, u \in c.tips :
          u.writer = t.writer => t.seq <= u.seq
    /\ anchors' = anchors \cup {c}
    /\ UNCHANGED log

ANext == (\E e \in Stored' : Add(e)) \/ (\E c \in anchors' : Anchor(c))

ASpec == AInit /\ [][ANext]_<<log, anchors>>
=============================================================================
