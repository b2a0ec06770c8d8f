------------------------------ MODULE AuditLog ------------------------------
(***************************************************************************)
(* The sharded audit log of qw-audit over the store of qw-store: every     *)
(* gateway replica is one writer, whose background task (logger.rs) drains *)
(* a bounded command channel, extends the replica's own hash chain         *)
(* (chain.rs) and appends the signed entry to the shared table.  Any       *)
(* writer may also commit a global checkpoint over the tips of all chains  *)
(* (checkpoint.rs, Store::commit_checkpoint).  Replicas crash and restart. *)
(*                                                                         *)
(* Abstractions: an event is the ordinal at which its writer's channel     *)
(* accepted it (the uuid and timestamp of an entry make its content        *)
(* unique, and so does the ordinal); a digest is the tuple of the hashed   *)
(* fields, i.e. SHA3 is taken to be collision free; an ML-DSA signature is *)
(* the fact that it was made.  Entries whose signing failed are never      *)
(* stored, so only checkpoints carry a "signed" flag.                      *)
(***************************************************************************)
EXTENDS Naturals, Sequences, FiniteSets, Functions

CONSTANTS
    Writers,      \* writer ids, one per replica (resolve_writer_id)
    Backend,      \* "pg" (shared) or "sqlite" (one process)
    Faults,       \* the calls that may fail: see FaultKinds
    ChannelCap,   \* capacity of the command channel (1024 in the code)
    BatchSize,    \* merkle_batch_size
    MaxEvents,    \* bound: events accepted per writer
    MaxControl,   \* bound: control commands accepted per writer
    MaxCrashes    \* bound: crashes per writer

\* "append": INSERT of an entry fails; "resume": the writer_tip query fails;
\* "sign_entry" and "sign_checkpoint": GatewayIdentity::sign fails;
\* "checkpoint": a statement of commit_checkpoint fails.
FaultKinds == {"append", "resume", "sign_entry", "sign_checkpoint", "checkpoint"}

ASSUME BackendAssumption == Backend \in {"pg", "sqlite"}
ASSUME FaultsAssumption == Faults \subseteq FaultKinds
ASSUME BoundsAssumption ==
    /\ ChannelCap \in Nat \ {0} /\ BatchSize \in Nat \ {0}
    /\ MaxEvents \in Nat /\ MaxControl \in Nat /\ MaxCrashes \in Nat

VARIABLES
    entries,      \* table audit_entries, in gseq (insertion) order
    checkpoints,  \* table audit_checkpoints
    pc,           \* where each replica's writer_task is
    queue,        \* its command channel
    chain,        \* its AuditChain: last_hash, sequence, batch_buffer
    entry,        \* the entry it is about to append
    draft,        \* the checkpoint it is building
    stopping,     \* it is serving a Shutdown command
    sent,         \* events its channel has accepted, over all its lives
    control,      \* control commands its channel has accepted
    crashes       \* times it has crashed

vars == <<entries, checkpoints, pc, queue, chain, entry, draft, stopping,
          sent, control, crashes>>

-----------------------------------------------------------------------------
(* Data. *)

NoHash == <<>>

Commands == [cmd : {"log"}, ev : Nat]
              \cup [cmd : {"checkpoint", "flush", "shutdown"}]

\* sha3_256_hex(AuditEntry::content_bytes).
ContentHash(w, seq, ev, prev) == <<w, seq, ev, prev>>

\* sha3_256_hex(AuditCheckpoint::content_bytes); the Merkle root it covers is
\* a function of the set of tips (merkle_root_of sorts them).
CheckpointHash(seq, prev, tips) == <<seq, prev, tips>>

\* The rows of audit_entries, and those of one writer.
Table == Range(entries)
Rows(w) == {e \in Table : e.writer = w}

\* Mutant: the oldest row of each writer is taken for its tip.
MutFirstRows == {e \in Table : \A f \in Rows(e.writer) : e.seq <= f.seq}

\* SELECT ... WHERE seq = (SELECT MAX(seq) ... WHERE writer_id = e.writer_id)
TipRows == {e \in Table : \A f \in Rows(e.writer) : f.seq <= e.seq}

\* Mutant: only the chain of the newest row of the table is committed.
MutNewestTip ==
    {[writer |-> e.writer, seq |-> e.seq, hash |-> e.hash] :
        e \in {entries[i] : i \in {Len(entries)} \ {0}}}

\* Mutant: the committer trusts the chains in memory, in-flight entries included.
MutTipsInMemory ==
    {[writer |-> w, seq |-> chain[w].next - 1, hash |-> chain[w].last] :
        w \in {v \in Writers : chain[v].next > 0}}

AllWriterTips == {[writer |-> e.writer, seq |-> e.seq, hash |-> e.hash] : e \in TipRows}

\* SELECT ... FROM audit_checkpoints ORDER BY checkpoint_seq DESC LIMIT 1
IsLatest(c) == c \in checkpoints /\ \A d \in checkpoints : d.seq <= c.seq

NewChain == [last |-> NoHash, next |-> 0, batch |-> <<>>]
\* Mutant: the hash is not carried over a restart.
MutResumeUnlinked(tip) == [last |-> NoHash, next |-> tip.seq + 1, batch |-> <<>>]

ResumeChain(tip) == [last |-> tip.hash, next |-> tip.seq + 1, batch |-> <<>>]

\* AuditChain::advance: the chain after an entry with this content hash, and
\* the batch whose Merkle root goes into the entry (<<>> if none is due).
BatchWith(ch, hash) == Append(ch.batch, hash)
BatchDue(ch, hash) == Len(BatchWith(ch, hash)) >= BatchSize
\* Mutant: the batch is not cleared.
MutAdvanceKeepsBatch(ch, hash) ==
    [last |-> hash, next |-> ch.next + 1, batch |-> BatchWith(ch, hash)]

Advance(ch, hash) ==
    [last  |-> hash,
     next  |-> ch.next + 1,
     batch |-> IF BatchDue(ch, hash) THEN <<>> ELSE BatchWith(ch, hash)]
RootOf(ch, hash) == IF BatchDue(ch, hash) THEN BatchWith(ch, hash) ELSE <<>>

\* AuditEntry::new, hashed and signed.
BuildEntry(w, ch, ev) ==
    LET hash == ContentHash(w, ch.next, ev, ch.last)
    IN  [writer |-> w, seq |-> ch.next, ev |-> ev, prev |-> ch.last,
         hash |-> hash, root |-> RootOf(ch, hash)]

\* AuditCheckpoint::build.
BuildCheckpoint(seq, prev, tips, signed) ==
    [seq |-> seq, prev |-> prev, tips |-> tips,
     hash |-> CheckpointHash(seq, prev, tips), signed |-> signed]

NoEntry == [writer |-> "none"]
NoDraft == [seq |-> 0, prev |-> NoHash, tips |-> {}]
WithTips(d, tips) == [seq |-> d.seq, prev |-> d.prev, tips |-> tips]

Up(w) == pc[w] \notin {"down", "stopped"}

Init ==
    /\ entries = <<>>
    /\ checkpoints = {}
    /\ pc = [w \in Writers |-> "down"]
    /\ queue = [w \in Writers |-> <<>>]
    /\ chain = [w \in Writers |-> NewChain]
    /\ entry = [w \in Writers |-> NoEntry]
    /\ draft = [w \in Writers |-> NoDraft]
    /\ stopping = [w \in Writers |-> FALSE]
    /\ sent = [w \in Writers |-> 0]
    /\ control = [w \in Writers |-> 0]
    /\ crashes = [w \in Writers |-> 0]

-----------------------------------------------------------------------------
(* The replica's process and the callers of its logger. *)

\* AuditLogger::new: a fresh channel, writer_task spawned.
Start(w) ==
    /\ pc[w] = "down"
    /\ pc' = [pc EXCEPT ![w] = "boot"]
    /\ UNCHANGED <<entries, checkpoints, queue, chain, entry, draft, stopping,
                   sent, control, crashes>>

\* The process dies: channel, chain and whatever was in flight are lost.
Crash(w) ==
    /\ pc[w] # "down"
    /\ crashes[w] < MaxCrashes
    /\ crashes' = [crashes EXCEPT ![w] = @ + 1]
    /\ pc' = [pc EXCEPT ![w] = "down"]
    /\ queue' = [queue EXCEPT ![w] = <<>>]
    /\ chain' = [chain EXCEPT ![w] = NewChain]
    /\ entry' = [entry EXCEPT ![w] = NoEntry]
    /\ draft' = [draft EXCEPT ![w] = NoDraft]
    /\ stopping' = [stopping EXCEPT ![w] = FALSE]
    /\ UNCHANGED <<entries, checkpoints, sent, control>>

\* Mutant: the channel takes an event when it is full.
MutLogUnbounded(w) ==
    /\ Up(w)
    /\ sent[w] < MaxEvents
    /\ sent' = [sent EXCEPT ![w] = @ + 1]
    /\ queue' = [queue EXCEPT ![w] = Append(@, [cmd |-> "log", ev |-> sent[w] + 1])]
    /\ UNCHANGED <<entries, checkpoints, pc, chain, entry, draft, stopping,
                   control, crashes>>

\* AuditLogger::log: the send waits for room in the channel.
Log(w) ==
    /\ Up(w)
    /\ Len(queue[w]) < ChannelCap
    /\ sent[w] < MaxEvents
    /\ sent' = [sent EXCEPT ![w] = @ + 1]
    /\ queue' = [queue EXCEPT ![w] = Append(@, [cmd |-> "log", ev |-> sent[w] + 1])]
    /\ UNCHANGED <<entries, checkpoints, pc, chain, entry, draft, stopping,
                   control, crashes>>

\* checkpoint() and the periodic ticker, flush(), shutdown().
SendControl(w, cmd) ==
    /\ Up(w)
    /\ Len(queue[w]) < ChannelCap
    /\ control[w] < MaxControl
    /\ control' = [control EXCEPT ![w] = @ + 1]
    /\ queue' = [queue EXCEPT ![w] = Append(@, [cmd |-> cmd])]
    /\ UNCHANGED <<entries, checkpoints, pc, chain, entry, draft, stopping,
                   sent, crashes>>

-----------------------------------------------------------------------------
(* writer_task. *)

\* backend.writer_tip(&writer_id): None (no row, or the query failed) starts a
\* new chain, a tip resumes it.
Resume(w) ==
    /\ pc[w] = "boot"
    /\ pc' = [pc EXCEPT ![w] = "recv"]
    /\ \/ /\ Rows(w) = {} \/ "resume" \in Faults
          /\ chain' = [chain EXCEPT ![w] = NewChain]
       \/ \E tip \in Rows(w) \cap TipRows :
             chain' = [chain EXCEPT ![w] = ResumeChain(tip)]
    /\ UNCHANGED <<entries, checkpoints, queue, entry, draft, stopping, sent,
                   control, crashes>>

\* The next command of the channel is one of cmds.
Receives(w, cmds) ==
    /\ pc[w] = "recv"
    /\ queue[w] # <<>>
    /\ Head(queue[w]).cmd \in cmds

\* LogCommand::Log: the entry is built, hashed and signed, and the chain
\* advances BEFORE the entry is persisted; a failed signature drops the event.
HandleLog(w) ==
    /\ Receives(w, {"log"})
    /\ queue' = [queue EXCEPT ![w] = Tail(@)]
    /\ LET e == BuildEntry(w, chain[w], Head(queue[w]).ev)
       IN  \/ /\ entry' = [entry EXCEPT ![w] = e]
              /\ chain' = [chain EXCEPT ![w] = Advance(@, e.hash)]
              /\ pc' = [pc EXCEPT ![w] = "append"]
           \/ /\ "sign_entry" \in Faults
              /\ UNCHANGED <<entry, chain, pc>>
    /\ UNCHANGED <<entries, checkpoints, draft, stopping, sent, control, crashes>>

\* Store::append_entry.  UNIQUE (writer_id, seq) or a database error makes the
\* INSERT fail, which is only logged.
AppendEntry(w) ==
    /\ pc[w] = "append"
    /\ \/ /\ \A e \in Rows(w) : e.seq # entry[w].seq
          /\ entries' = Append(entries, entry[w])
       \/ /\ "append" \in Faults \/ \E e \in Rows(w) : e.seq = entry[w].seq
          /\ UNCHANGED entries
    /\ pc' = [pc EXCEPT ![w] = "recv"]
    /\ entry' = [entry EXCEPT ![w] = NoEntry]
    /\ UNCHANGED <<checkpoints, queue, chain, draft, stopping, sent, control, crashes>>

\* LogCommand::Flush.
HandleFlush(w) ==
    /\ Receives(w, {"flush"})
    /\ queue' = [queue EXCEPT ![w] = Tail(@)]
    /\ UNCHANGED <<entries, checkpoints, pc, chain, entry, draft, stopping,
                   sent, control, crashes>>

-----------------------------------------------------------------------------
(* Store::commit_checkpoint.  On Postgres it is three statements, between   *)
(* which other replicas run; on SQLite the connection lock makes it one.    *)

\* The writer_task after the commit attempt: back to recv with the rest of the
\* channel or, for a Shutdown, out of the loop, dropping the channel.
FinishCheckpoint(w, stop, rest) ==
    /\ pc' = [pc EXCEPT ![w] = IF stop THEN "stopped" ELSE "recv"]
    /\ queue' = [queue EXCEPT ![w] = IF stop THEN <<>> ELSE rest]
    /\ draft' = [draft EXCEPT ![w] = NoDraft]
    /\ stopping' = [stopping EXCEPT ![w] = FALSE]

HeadIsShutdown(w) == Head(queue[w]).cmd = "shutdown"

\* Mutant: a checkpoint is not linked to the one before it.
MutUnlinkedDrafts ==
    IF checkpoints = {}
    THEN {NoDraft}
    ELSE {[seq |-> c.seq + 1, prev |-> NoHash, tips |-> {}] :
             c \in {d \in checkpoints : IsLatest(d)}}

\* The successor of the latest row of audit_checkpoints, its tips still unread.
NextDrafts ==
    IF checkpoints = {}
    THEN {NoDraft}
    ELSE {[seq |-> c.seq + 1, prev |-> c.hash, tips |-> {}] :
             c \in {d \in checkpoints : IsLatest(d)}}

\* Mutant: checkpoint_seq is no primary key.
MutNoPrimaryKey(d) == d.seq >= 0

\* A row of audit_checkpoints is inserted unless its primary key is taken.
Insertable(d) == \A c \in checkpoints : c.seq # d.seq

\* The row as signed, or unsigned when the signature fails.
Signed(d) ==
    {BuildCheckpoint(d.seq, d.prev, d.tips, s) :
        s \in {TRUE} \cup (IF "sign_checkpoint" \in Faults THEN {FALSE} ELSE {})}

\* Postgres: the latest checkpoint is read first...
ReadLatest(w) ==
    /\ Backend = "pg"
    /\ Receives(w, {"checkpoint", "shutdown"})
    /\ queue' = [queue EXCEPT ![w] = Tail(@)]
    /\ stopping' = [stopping EXCEPT ![w] = HeadIsShutdown(w)]
    /\ \E d \in NextDrafts : draft' = [draft EXCEPT ![w] = d]
    /\ pc' = [pc EXCEPT ![w] = "tips"]
    /\ UNCHANGED <<entries, checkpoints, chain, entry, sent, control, crashes>>

\* ... then the tips; with no entry at all there is nothing to commit.
ReadTips(w) ==
    /\ pc[w] = "tips"
    /\ \/ /\ AllWriterTips # {}
          /\ draft' = [draft EXCEPT ![w] = WithTips(@, AllWriterTips)]
          /\ pc' = [pc EXCEPT ![w] = "insert"]
          /\ UNCHANGED <<queue, stopping>>
       \/ /\ AllWriterTips = {}
          /\ FinishCheckpoint(w, stopping[w], queue[w])
    /\ UNCHANGED <<entries, checkpoints, chain, entry, sent, control, crashes>>

\* Mutants: the loser of a race inserts its stale tips under the next number,
\* replaces the winner's row, or tries again for ever.
MutRenumber(w) ==
    /\ pc[w] = "insert"
    /\ \E d \in NextDrafts : \E c \in Signed(WithTips(d, draft[w].tips)) :
          checkpoints' = checkpoints \cup {c}
    /\ FinishCheckpoint(w, stopping[w], queue[w])
    /\ UNCHANGED <<entries, chain, entry, sent, control, crashes>>
MutReplaceRow(w) ==
    /\ pc[w] = "insert"
    /\ \E c \in Signed(draft[w]) :
          checkpoints' = {d \in checkpoints : d.seq # c.seq} \cup {c}
    /\ FinishCheckpoint(w, stopping[w], queue[w])
    /\ UNCHANGED <<entries, chain, entry, sent, control, crashes>>
MutRetryForever(w) ==
    /\ pc[w] = "insert"
    /\ \/ /\ Insertable(draft[w])
          /\ \E c \in Signed(draft[w]) : checkpoints' = checkpoints \cup {c}
          /\ FinishCheckpoint(w, stopping[w], queue[w])
       \/ /\ ~Insertable(draft[w])
          /\ UNCHANGED <<checkpoints, pc, queue, draft, stopping>>
    /\ UNCHANGED <<entries, chain, entry, sent, control, crashes>>

\* The checkpoint is built and signed, and inserted unless another replica has
\* committed the same checkpoint_seq: then this one has lost the race.
InsertCheckpoint(w) ==
    /\ pc[w] = "insert"
    /\ \/ /\ Insertable(draft[w])
          /\ \E c \in Signed(draft[w]) : checkpoints' = checkpoints \cup {c}
       \/ /\ ~Insertable(draft[w])
          /\ UNCHANGED checkpoints
    /\ FinishCheckpoint(w, stopping[w], queue[w])
    /\ UNCHANGED <<entries, chain, entry, sent, control, crashes>>

\* A statement of the commit fails: commit_checkpoint returns None.
CheckpointFails(w) ==
    /\ "checkpoint" \in Faults
    /\ \/ /\ Receives(w, {"checkpoint", "shutdown"})
          /\ FinishCheckpoint(w, HeadIsShutdown(w), Tail(queue[w]))
       \/ /\ pc[w] \in {"tips", "insert"}
          /\ FinishCheckpoint(w, stopping[w], queue[w])
    /\ UNCHANGED <<entries, checkpoints, chain, entry, sent, control, crashes>>

\* SQLite: the same under the connection lock.
CommitLocked(w) ==
    /\ Backend = "sqlite"
    /\ Receives(w, {"checkpoint", "shutdown"})
    /\ \/ /\ AllWriterTips # {}
          /\ \E d \in NextDrafts :
                \E c \in Signed(WithTips(d, AllWriterTips)) :
                   checkpoints' = checkpoints \cup {c}
       \/ /\ AllWriterTips = {}
          /\ UNCHANGED checkpoints
    /\ FinishCheckpoint(w, HeadIsShutdown(w), Tail(queue[w]))
    /\ UNCHANGED <<entries, chain, entry, sent, control, crashes>>

-----------------------------------------------------------------------------

\* One step of w's writer_task.
WriterStep(w) ==
    \/ Resume(w) \/ HandleLog(w) \/ AppendEntry(w) \/ HandleFlush(w)
    \/ ReadLatest(w) \/ ReadTips(w) \/ InsertCheckpoint(w)
    \/ CheckpointFails(w) \/ CommitLocked(w)

Environment(w) ==
    \/ Start(w) \/ Crash(w) \/ Log(w)
    \/ \E cmd \in {"checkpoint", "flush", "shutdown"} : SendControl(w, cmd)

\* Every bound is used up and every writer waits for a command or has stopped.
Quiescent ==
    /\ \A w \in Writers :
          /\ pc[w] = "stopped" \/ (pc[w] = "recv" /\ queue[w] = <<>>)
          /\ crashes[w] = MaxCrashes
          /\ pc[w] = "recv" => sent[w] = MaxEvents /\ control[w] = MaxControl
    /\ UNCHANGED vars

Next == (\E w \in Writers : WriterStep(w) \/ Environment(w)) \/ Quiescent

Spec == Init /\ [][Next]_vars

\* The runtime keeps polling a spawned task, so a writer whose next step is
\* possible takes it; nobody promises events, commands, crashes or restarts.
FairSpec == Spec /\ \A w \in Writers : WF_vars(WriterStep(w))

-----------------------------------------------------------------------------
(* verify_sharded (verifier.rs), over a set of entries and of checkpoints.  *)

\* The row before e in its writer's chain, as far as E holds it.
Predecessors(E, e) == {p \in E : p.writer = e.writer /\ p.seq < e.seq}

\* Each writer's entries, sorted by sequence: content hash, contiguity,
\* genesis and linkage to the previous entry present.
ChainsIntact(E) ==
    \A e \in E :
        /\ e.hash = ContentHash(e.writer, e.seq, e.ev, e.prev)
        /\ IF Predecessors(E, e) = {}
           THEN e.seq = 0 => e.prev = NoHash
           ELSE \E p \in Predecessors(E, e) : p.seq + 1 = e.seq /\ p.hash = e.prev

\* The checkpoint chain: content hash, contiguity, linkage and signature.
CheckpointsIntact(C) ==
    \A c \in C :
        /\ c.hash = CheckpointHash(c.seq, c.prev, c.tips)
        /\ c.signed
        /\ \/ \A d \in C : d.seq >= c.seq
           \/ \E d \in C : d.seq + 1 = c.seq /\ d.hash = c.prev

\* Every committed tip is still present and unchanged.
TipsPresent(E, C) ==
    \A c \in C : \A t \in c.tips :
        \E e \in E : e.writer = t.writer /\ e.seq = t.seq /\ e.hash = t.hash

VerifySharded(E, C) == ChainsIntact(E) /\ CheckpointsIntact(C) /\ TipsPresent(E, C)

\* Store::list_entries: the newest n rows.
ListEntries(n) ==
    {entries[i] : i \in {j \in DOMAIN entries : j + n > Len(entries)}}

\* export_audit, format `bundle': the newest n entries go out with all the
\* checkpoints there are, and `qw verify' judges both.
BundleVerifies(n) == VerifySharded(ListEntries(n), checkpoints)

-----------------------------------------------------------------------------
(* Properties. *)

\* Every variable has its type; the channel never exceeds its capacity.
TypeOK ==
    /\ entries \in Seq(Table)
    /\ \A e \in Table : e.writer \in Writers /\ e.seq \in Nat /\ e.ev \in Nat
    /\ \A c \in checkpoints : c.seq \in Nat
    /\ pc \in [Writers -> {"down", "boot", "recv", "append", "tips", "insert", "stopped"}]
    /\ queue \in [Writers -> Seq(Commands)]
    /\ \A w \in Writers : Len(queue[w]) <= ChannelCap
    /\ DOMAIN chain = Writers /\ DOMAIN entry = Writers /\ DOMAIN draft = Writers
    /\ \A w \in Writers :
          /\ chain[w].next \in Nat
          /\ draft[w].seq \in Nat
          /\ pc[w] = "append" =>
                entry[w].writer = w /\ entry[w].seq \in Nat /\ entry[w].ev \in Nat
    /\ stopping \in [Writers -> BOOLEAN]
    /\ sent \in [Writers -> 0..MaxEvents]
    /\ control \in [Writers -> 0..MaxControl]
    /\ crashes \in [Writers -> 0..MaxCrashes]

\* The checkpoint table is one hash chain: numbered from 0 without gap or
\* fork, each row linked to the row before it, although replicas commit
\* concurrently without a lock (Store::commit_checkpoint on Postgres).
CheckpointChain ==
    /\ \A c, d \in checkpoints : c.seq = d.seq => c = d
    /\ \A c \in checkpoints :
          \/ c.seq = 0 /\ c.prev = NoHash
          \/ \E d \in checkpoints : d.seq + 1 = c.seq /\ d.hash = c.prev

\* Every tip a checkpoint commits is a stored row, whatever fails or crashes:
\* a checkpoint never commits an entry that is still in flight.
CommittedTipsStored == TipsPresent(Table, checkpoints)

\* Anchors never regress: a later checkpoint commits, for every writer of an
\* earlier one, the same entry or a newer one.  It rests on commit_checkpoint
\* reading the latest checkpoint before the tips.
AnchorsMonotone ==
    \A c, d \in checkpoints : c.seq <= d.seq =>
        \A t \in c.tips, u \in d.tips : u.writer = t.writer => t.seq <= u.seq

\* A writer that a checkpoint has committed is in every later checkpoint.
AnchorsKeepWriters ==
    \A c, d \in checkpoints : c.seq <= d.seq =>
        \A t \in c.tips : \E u \in d.tips : u.writer = t.writer

\* The rows of a writer are in the order in which its channel accepted the
\* events, over crashes, restarts and failed appends.
StoredInOrder ==
    \A e, f \in Table :
        e.writer = f.writer /\ e.seq < f.seq => e.ev < f.ev

\* Whatever crashes, restarts and fails, order is kept on both sides of the
\* store: a writer's rows are in the order its channel accepted the events, and
\* a checkpoint leaves out no writer that an earlier one has committed.
OrderKept == StoredInOrder /\ AnchorsKeepWriters

\* The stored chains verify in every state, in mid-append and after restarts.
\* Holds when no append and no writer_tip query fails.
StoredChainsIntact ==
    /\ ChainsIntact(Table)
    /\ \A e \in Table : e.seq > 0 => Predecessors(Table, e) # {}

\* The stored log passes verify_sharded: POST /api/audit/verify of a log nobody
\* has touched, read at one instant.
LogVerifies == VerifySharded(Table, checkpoints)

\* The rows that a checkpoint commits.
AnchoredRows ==
    {i \in DOMAIN entries :
        \E c \in checkpoints : \E t \in c.tips : t.writer = entries[i].writer /\ t.seq = entries[i].seq}

\* A size-capped bundle verifies exactly when it reaches back to the oldest row
\* that a checkpoint commits: all the checkpoints go with it, and verify_sharded
\* reports "a missing entry that a checkpoint references".  One that is cut
\* shorter fails for its missing tips alone: its entries are still a suffix of
\* every writer's chain ("a sub-chain still verifies").
ExportVerdict ==
    \A n \in 0..Len(entries) :
        /\ ChainsIntact(ListEntries(n))
        /\ BundleVerifies(n) <=> \A i \in AnchoredRows : i + n > Len(entries)

\* In every state, beside running writers and after their crashes and restarts,
\* the log verifies when it is read whole at one instant (verify_audit), and a
\* bundle (export_audit) verifies unless its limit cuts off a committed row.
\* Holds when no call to the store fails.
Verifiable == LogVerifies /\ ExportVerdict

\* A Merkle root stored in an entry covers exactly the BatchSize consecutive
\* rows of its writer that end with it; a restart does not shift the batch.
RootCoversBatch ==
    \A e \in Table : e.root # <<>> =>
        /\ Len(e.root) = BatchSize
        /\ \A i \in 1..BatchSize :
              \E f \in Rows(e.writer) :
                  f.seq + BatchSize = e.seq + i /\ f.hash = e.root[i]

Anchored == INSTANCE AnchoredLog WITH log <- entries, anchors <- checkpoints

\* The replicas implement one append-only log with one chain of anchors:
\* every step stores one new entry at the end, or anchors stored entries in
\* the successor of the newest anchor there is when it is committed, or is
\* invisible.  A commit that has lost its race, a failed statement, a crash and
\* a restart change nothing (AuditBackend's append_entry, commit_checkpoint).
ImplementsAnchoredLog == Anchored!ASpec

\* An event the channel accepts is stored unless its replica crashes or shuts
\* down: no loser of a checkpoint race and no full channel stalls a writer.
AcceptedIsStored ==
    \A w \in Writers : \A n \in 1..MaxEvents :
        (sent[w] = n) ~> \/ \E e \in Rows(w) : e.ev = n
                         \/ pc[w] \in {"down", "stopped"}

\* "Anchor the final state before exiting" (logger.rs, Shutdown): once a writer
\* has shut down, a checkpoint commits its last entry.
FinalStateAnchored ==
    \A w \in Writers : pc[w] = "stopped" =>
        \A e \in Rows(w) : (\A f \in Rows(w) : f.seq <= e.seq) =>
            \E c \in checkpoints : \E t \in c.tips : t.writer = w /\ t.hash = e.hash

-----------------------------------------------------------------------------
(* The inductive invariants behind the theorems of AuditLogProofs. *)

\* The draft d is the successor of a committed checkpoint (or the first), and
\* every number below its own is taken: nobody can commit behind its back.
Follows(d) ==
    /\ \/ d.seq = 0 /\ d.prev = NoHash
       \/ \E c \in checkpoints : c.seq + 1 = d.seq /\ c.hash = d.prev
    /\ \A k \in 0..d.seq : k # d.seq => \E c \in checkpoints : c.seq = k

\* The tips of d are stored rows, one sequence per writer, none older than
\* what an earlier checkpoint has committed.
Covers(d) ==
    /\ \A t \in d.tips : \E e \in Table :
          e.writer = t.writer /\ e.seq = t.seq /\ e.hash = t.hash
    /\ \A t, u \in d.tips : t.writer = u.writer => t.seq <= u.seq
    /\ \A c \in checkpoints : c.seq < d.seq =>
          \A t \in c.tips, u \in d.tips : u.writer = t.writer => t.seq <= u.seq

CheckpointInv ==
    /\ \A c, d \in checkpoints : c.seq = d.seq => c = d
    /\ \A c \in checkpoints : Follows(c) /\ Covers(c)
    /\ \A w \in Writers : pc[w] \in {"tips", "insert"} => Follows(draft[w])
    /\ \A w \in Writers : pc[w] = "insert" => Covers(draft[w])

\* (seq, prev) continues w's chain: prev is the hash of w's newest row, seq
\* the number after it.
Continues(w, seq, prev) ==
    /\ \A e \in Rows(w) : e.seq < seq
    /\ \/ seq = 0 /\ prev = NoHash
       \/ \E e \in Rows(w) : e.seq + 1 = seq /\ e.hash = prev

\* The in-memory chain of a running writer continues its stored chain, by way
\* of the entry in flight if there is one.
ChainInv ==
    /\ \A e \in Table :
          /\ e.hash = ContentHash(e.writer, e.seq, e.ev, e.prev)
          /\ \/ e.seq = 0 /\ e.prev = NoHash
             \/ \E p \in Rows(e.writer) : p.seq + 1 = e.seq /\ p.hash = e.prev
    /\ \A w \in Writers :
          /\ pc[w] \in {"recv", "tips", "insert"} =>
                Continues(w, chain[w].next, chain[w].last)
          /\ pc[w] = "append" =>
                /\ entry[w].hash =
                      ContentHash(w, entry[w].seq, entry[w].ev, entry[w].prev)
                /\ Continues(w, entry[w].seq, entry[w].prev)
                /\ chain[w].next = entry[w].seq + 1
                /\ chain[w].last = entry[w].hash
=============================================================================
