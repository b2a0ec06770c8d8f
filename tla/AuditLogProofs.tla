--------------------------- MODULE AuditLogProofs ---------------------------
(***************************************************************************)
(* Proofs about AuditLog for every set of replicas, every bound and, where *)
(* it is not said otherwise, every set of failing calls.                   *)
(***************************************************************************)
EXTENDS AuditLog, TLAPS

-----------------------------------------------------------------------------
(* The table of entries. *)

\* Appending a row adds it to the table and removes nothing.
LEMMA TableAppend ==
    ASSUME entries \in Seq(Table), NEW e, entries' = Append(entries, e)
    PROVE  Table' = Table \cup {e} /\ entries' \in Seq(Table')
<1>1. /\ Len(entries) \in Nat
      /\ DOMAIN entries = 1..Len(entries)
      /\ DOMAIN entries' = 1..(Len(entries) + 1)
      /\ Len(entries') = Len(entries) + 1
      /\ \A i \in 1..Len(entries) : entries'[i] = entries[i]
      /\ entries'[Len(entries) + 1] = e
    <2> DEFINE S == Table
    <2>1. entries \in Seq(S)
        OBVIOUS
    <2> HIDE DEF S
    <2>2. entries \in Seq(S \cup {e}) /\ e \in S \cup {e}
        BY <2>1
    <2> QED
        BY <2>1, <2>2
<1>2. Table' = Table \cup {e}
    <2>1. ASSUME NEW x \in Table' PROVE x \in Table \cup {e}
        BY <1>1, <2>1 DEF Table, Range
    <2>2. ASSUME NEW x \in Table PROVE x \in Table'
        BY <1>1, <2>2 DEF Table, Range
    <2>3. e \in Table'
        BY <1>1 DEF Table, Range
    <2> QED
        BY <2>1, <2>2, <2>3
<1>3. entries' \in Seq(Table')
    <2>1. \A i \in DOMAIN entries' : entries'[i] \in Table'
        BY DEF Table, Range
    <2> DEFINE S == Table \cup {e}
    <2>2. entries \in Seq(S) /\ e \in S
        OBVIOUS
    <2> HIDE DEF S
    <2>3. Append(entries, e) \in Seq(S)
        BY <2>2
    <2> QED
        BY <2>3, <1>2 DEF S
<1> QED
    BY <1>2, <1>3

LEMMA TableUnchanged ==
    ASSUME UNCHANGED entries
    PROVE  Table' = Table /\ \A w : Rows(w)' = Rows(w)
BY DEF Table, Rows, Range
-----------------------------------------------------------------------------
(* Types. *)

\* The step that ends a commit attempt preserves the types.
LEMMA FinishType ==
    ASSUME TypeOK, NEW w \in Writers, NEW stop \in BOOLEAN, NEW rest \in Seq(Commands),
           Len(rest) <= ChannelCap, FinishCheckpoint(w, stop, rest),
           \A c \in checkpoints' : c.seq \in Nat,
           UNCHANGED <<entries, chain, entry, sent, control, crashes>>
    PROVE  TypeOK'
<1>1. Table' = Table
    BY TableUnchanged
<1> QED
    BY <1>1, BoundsAssumption DEF TypeOK, FinishCheckpoint, NoDraft

\* A signed or unsigned checkpoint has the fields of its draft.
LEMMA SignedFields ==
    ASSUME NEW d, NEW c \in Signed(d)
    PROVE  /\ c.seq = d.seq /\ c.prev = d.prev /\ c.tips = d.tips
           /\ c.hash = CheckpointHash(c.seq, c.prev, c.tips)
<1>1. PICK s : c = BuildCheckpoint(d.seq, d.prev, d.tips, s)
    BY DEF Signed
<1> QED
    BY <1>1 DEF BuildCheckpoint

\* Hence an inserted checkpoint is numbered if its draft is.
LEMMA InsertType ==
    ASSUME TypeOK, NEW d, d.seq \in Nat,
           \E c \in Signed(d) : checkpoints' = checkpoints \cup {c}
    PROVE  \A c \in checkpoints' : c.seq \in Nat
<1>1. PICK k \in Signed(d) : checkpoints' = checkpoints \cup {k}
    OBVIOUS
<1>2. k.seq = d.seq
    BY SignedFields
<1> QED
    BY <1>1, <1>2 DEF TypeOK

\* The channel after its first command is taken.
LEMMA TailType ==
    ASSUME TypeOK, NEW w \in Writers, queue[w] # <<>>
    PROVE  /\ Head(queue[w]) \in Commands
           /\ Tail(queue[w]) \in Seq(Commands)
           /\ Len(Tail(queue[w])) <= ChannelCap
BY BoundsAssumption DEF TypeOK

LEMMA EnvironmentType ==
    ASSUME TypeOK, NEW w \in Writers, Environment(w)
    PROVE  TypeOK'
<1> USE BoundsAssumption
<1>0. UNCHANGED entries => Table' = Table
    BY TableUnchanged
<1>1. CASE Start(w)
    BY <1>0, <1>1 DEF TypeOK, Start
<1>2. CASE Crash(w)
    BY <1>0, <1>2 DEF TypeOK, Crash, NewChain, NoDraft
<1>3. CASE Log(w)
    <2>1. [cmd |-> "log", ev |-> sent[w] + 1] \in Commands
        BY DEF TypeOK, Commands
    <2> QED
        BY <1>0, <1>3, <2>1 DEF TypeOK, Log
<1>4. ASSUME NEW cmd \in {"checkpoint", "flush", "shutdown"}, SendControl(w, cmd)
      PROVE  TypeOK'
    <2>1. [cmd |-> cmd] \in Commands
        BY DEF Commands
    <2> QED
        BY <1>0, <1>4, <2>1 DEF TypeOK, SendControl
<1> QED
    BY <1>1, <1>2, <1>3, <1>4 DEF Environment

LEMMA WriterType ==
    ASSUME TypeOK, NEW w \in Writers, WriterStep(w)
    PROVE  TypeOK'
<1> USE BoundsAssumption
<1>0. UNCHANGED entries => Table' = Table
    BY TableUnchanged
<1>1. CASE Resume(w)
    <2>1. \A tip \in Rows(w) : ResumeChain(tip).next \in Nat
        BY DEF TypeOK, Rows, ResumeChain
    <2> QED
        BY <1>0, <1>1, <2>1 DEF TypeOK, Resume, NewChain
<1>2. CASE HandleLog(w)
    <2> DEFINE e == BuildEntry(w, chain[w], Head(queue[w]).ev)
    <2>1. Head(queue[w]).ev \in Nat
        BY <1>2, TailType DEF HandleLog, Receives, Commands
    <2>2. e.writer = w /\ e.seq \in Nat /\ e.ev \in Nat
        BY <2>1 DEF BuildEntry, TypeOK
    <2>3. Advance(chain[w], e.hash).next \in Nat
        BY DEF Advance, TypeOK
    <2>4. queue' \in [Writers -> Seq(Commands)] /\ \A v \in Writers : Len(queue'[v]) <= ChannelCap
        BY <1>2, TailType DEF HandleLog, Receives, TypeOK
    <2> HIDE DEF e
    <2>5. \/ /\ entry' = [entry EXCEPT ![w] = e]
             /\ chain' = [chain EXCEPT ![w] = Advance(@, e.hash)]
             /\ pc' = [pc EXCEPT ![w] = "append"]
          \/ UNCHANGED <<entry, chain, pc>>
        BY <1>2 DEF HandleLog, e
    <2>6. UNCHANGED <<entries, checkpoints, draft, stopping, sent, control, crashes>>
        BY <1>2 DEF HandleLog
    <2>7. CASE UNCHANGED <<entry, chain, pc>>
        BY <1>0, <2>4, <2>6, <2>7 DEF TypeOK
    <2>8. CASE /\ entry' = [entry EXCEPT ![w] = e]
               /\ chain' = [chain EXCEPT ![w] = Advance(@, e.hash)]
               /\ pc' = [pc EXCEPT ![w] = "append"]
        <3>1. DOMAIN chain' = Writers /\ \A v \in Writers : chain'[v].next \in Nat
            BY <2>3, <2>8 DEF TypeOK
        <3>2. /\ DOMAIN entry' = Writers
              /\ \A v \in Writers : pc'[v] = "append" =>
                    entry'[v].writer = v /\ entry'[v].seq \in Nat /\ entry'[v].ev \in Nat
            BY <2>2, <2>8 DEF TypeOK
        <3> QED
            BY <1>0, <2>4, <2>6, <2>8, <3>1, <3>2 DEF TypeOK
    <2> QED
        BY <2>5, <2>7, <2>8
<1>3. CASE AppendEntry(w)
    <2>1. Table' = Table \/ Table' = Table \cup {entry[w]}
        BY <1>0, <1>3, TableAppend DEF AppendEntry, TypeOK
    <2>2. entries' \in Seq(Table')
        BY <1>0, <1>3, TableAppend DEF AppendEntry, TypeOK
    <2> QED
        BY <1>3, <2>1, <2>2 DEF AppendEntry, TypeOK
<1>4. CASE HandleFlush(w)
    BY <1>0, <1>4, TailType DEF HandleFlush, Receives, TypeOK
<1>5. CASE ReadLatest(w)
    <2>1. \A d \in NextDrafts : d.seq \in Nat
        BY DEF NextDrafts, NoDraft, TypeOK
    <2>2. queue' \in [Writers -> Seq(Commands)] /\ \A v \in Writers : Len(queue'[v]) <= ChannelCap
        BY <1>5, TailType DEF ReadLatest, Receives, TypeOK
    <2>3. HeadIsShutdown(w) \in BOOLEAN
        BY DEF HeadIsShutdown
    <2> QED
        BY <1>0, <1>5, <2>1, <2>2, <2>3 DEF ReadLatest, TypeOK
<1>6. CASE ReadTips(w)
    <2>1. CASE FinishCheckpoint(w, stopping[w], queue[w])
        <3>1. stopping[w] \in BOOLEAN /\ queue[w] \in Seq(Commands) /\ Len(queue[w]) <= ChannelCap
            BY DEF TypeOK
        <3>2. UNCHANGED <<entries, checkpoints, chain, entry, sent, control, crashes>>
            BY <1>6 DEF ReadTips
        <3>3. \A c \in checkpoints' : c.seq \in Nat
            BY <3>2 DEF TypeOK
        <3> QED
            BY <2>1, <3>1, <3>2, <3>3, FinishType
    <2>2. CASE /\ draft' = [draft EXCEPT ![w] = WithTips(@, AllWriterTips)]
               /\ pc' = [pc EXCEPT ![w] = "insert"]
               /\ UNCHANGED <<queue, stopping>>
        BY <1>0, <1>6, <2>2 DEF ReadTips, TypeOK, WithTips
    <2> QED
        BY <1>6, <2>1, <2>2 DEF ReadTips
<1>7. CASE InsertCheckpoint(w)
    <2>1. \A c \in checkpoints' : c.seq \in Nat
        <3>1. draft[w].seq \in Nat /\ \A c \in checkpoints : c.seq \in Nat
            BY DEF TypeOK
        <3> QED
            BY <1>7, <3>1, InsertType DEF InsertCheckpoint
    <2>2. stopping[w] \in BOOLEAN /\ queue[w] \in Seq(Commands) /\ Len(queue[w]) <= ChannelCap
        BY DEF TypeOK
    <2> QED
        BY <1>7, <2>1, <2>2, FinishType DEF InsertCheckpoint
<1>8. CASE CheckpointFails(w)
    <2>0. \A c \in checkpoints' : c.seq \in Nat
        BY <1>8 DEF CheckpointFails, TypeOK
    <2>1. CASE Receives(w, {"checkpoint", "shutdown"})
                 /\ FinishCheckpoint(w, HeadIsShutdown(w), Tail(queue[w]))
        <3>1. HeadIsShutdown(w) \in BOOLEAN
            BY DEF HeadIsShutdown
        <3> QED
            BY <1>8, <2>0, <2>1, <3>1, FinishType, TailType DEF CheckpointFails, Receives
    <2>2. CASE FinishCheckpoint(w, stopping[w], queue[w])
        <3>1. stopping[w] \in BOOLEAN /\ queue[w] \in Seq(Commands) /\ Len(queue[w]) <= ChannelCap
            BY DEF TypeOK
        <3>2. UNCHANGED <<entries, chain, entry, sent, control, crashes>>
            BY <1>8 DEF CheckpointFails
        <3> QED
            BY <2>0, <2>2, <3>1, <3>2, FinishType
    <2> QED
        BY <1>8, <2>1, <2>2 DEF CheckpointFails
<1>9. CASE CommitLocked(w)
    <2>1. \A d \in NextDrafts : d.seq \in Nat
        BY DEF NextDrafts, NoDraft, TypeOK
    <2>2. \A c \in checkpoints' : c.seq \in Nat
        <3>1. \A d \in NextDrafts : WithTips(d, AllWriterTips).seq \in Nat
            BY <2>1 DEF WithTips
        <3>2. \A c \in checkpoints : c.seq \in Nat
            BY DEF TypeOK
        <3> QED
            BY <1>9, <3>1, <3>2, InsertType DEF CommitLocked
    <2>3. HeadIsShutdown(w) \in BOOLEAN
        BY DEF HeadIsShutdown
    <2> QED
        BY <1>9, <2>2, <2>3, FinishType, TailType DEF CommitLocked, Receives
<1> QED
    BY <1>1, <1>2, <1>3, <1>4, <1>5, <1>6, <1>7, <1>8, <1>9 DEF WriterStep

\* Type correctness of every replica, its channel within its capacity included.
THEOREM TypeCorrect == Spec => []TypeOK
<1>1. Init => TypeOK
    BY BoundsAssumption DEF Init, TypeOK, Table, Range, NewChain, NoDraft
<1>2. TypeOK /\ [Next]_vars => TypeOK'
    <2> SUFFICES ASSUME TypeOK, [Next]_vars PROVE TypeOK'
        OBVIOUS
    <2>1. UNCHANGED vars => TypeOK'
        BY TableUnchanged DEF vars, TypeOK
    <2> QED
        BY <2>1, EnvironmentType, WriterType DEF Next, Quiescent
<1> QED
    BY <1>1, <1>2, PTL DEF Spec

-----------------------------------------------------------------------------
(* Checkpoints, whatever calls fail. *)

\* A row that is appended comes from the writer that appends it.
LEMMA TableGrows ==
    ASSUME TypeOK, [Next]_vars
    PROVE  Table \subseteq Table'
<1>1. UNCHANGED entries => Table' = Table
    BY TableUnchanged
<1>2. ASSUME NEW w \in Writers, AppendEntry(w) PROVE Table \subseteq Table'
    <2>1. entries \in Seq(Table)
        BY DEF TypeOK
    <2> QED
        BY <1>1, <1>2, <2>1, TableAppend DEF AppendEntry
<1>3. UNCHANGED entries \/ \E w \in Writers : AppendEntry(w)
    BY DEF Next, Quiescent, WriterStep, Environment, vars, Start, Crash, Log,
           SendControl, Resume, HandleLog, HandleFlush, ReadLatest, ReadTips,
           InsertCheckpoint, CheckpointFails, CommitLocked
<1> QED
    BY <1>1, <1>2, <1>3

\* A step that leaves the checkpoints and every draft that is in use alone.
LEMMA CheckpointFrame ==
    ASSUME CheckpointInv, Table \subseteq Table', checkpoints' = checkpoints,
           \A v \in Writers : pc'[v] \in {"tips", "insert"} =>
                                 pc'[v] = pc[v] /\ draft'[v] = draft[v]
    PROVE  CheckpointInv'
<1>1. ASSUME NEW d, Covers(d) PROVE Covers(d)'
    BY <1>1 DEF Covers
<1>2. ASSUME NEW d, Follows(d) PROVE Follows(d)'
    BY <1>2 DEF Follows
<1>3. \A c \in checkpoints' : Follows(c)' /\ Covers(c)'
    BY <1>1, <1>2 DEF CheckpointInv
<1>4. ASSUME NEW w \in Writers, pc'[w] \in {"tips", "insert"} PROVE Follows(draft[w])'
    <2>1. draft'[w] = draft[w] /\ Follows(draft[w])
        BY <1>4 DEF CheckpointInv
    <2> QED
        BY <2>1, <1>2 DEF Follows
<1>5. ASSUME NEW w \in Writers, pc'[w] = "insert" PROVE Covers(draft[w])'
    <2>1. draft'[w] = draft[w] /\ Covers(draft[w])
        BY <1>5 DEF CheckpointInv
    <2> QED
        BY <2>1, <1>1 DEF Covers
<1> QED
    BY <1>3, <1>4, <1>5 DEF CheckpointInv

\* The successor of the latest checkpoint has a free number.
LEMMA NextDraftFollows ==
    ASSUME TypeOK, CheckpointInv, NEW d \in NextDrafts
    PROVE  Follows(d) /\ Insertable(d) /\ d.seq \in Nat
<1>1. CASE checkpoints = {}
    BY <1>1 DEF NextDrafts, NoDraft, Follows, Insertable
<1>2. CASE checkpoints # {}
    <2>1. PICK c \in checkpoints :
             IsLatest(c) /\ d = [seq |-> c.seq + 1, prev |-> c.hash, tips |-> {}]
        BY <1>2 DEF NextDrafts
    <2>2. c.seq \in Nat /\ \A k \in checkpoints : k.seq \in Nat /\ k.seq <= c.seq
        BY <2>1 DEF TypeOK, IsLatest
    <2>3. Follows(c)
        BY DEF CheckpointInv
    <2>4. \A k \in 0..d.seq : k # d.seq => \E x \in checkpoints : x.seq = k
        BY <2>1, <2>2, <2>3 DEF Follows
    <2> QED
        BY <2>1, <2>2, <2>4 DEF Follows, Insertable
<1> QED
    BY <1>1, <1>2

\* The current tips are stored, unique, and no older than anything stored.
LEMMA CurrentTips ==
    ASSUME TypeOK
    PROVE  /\ \A t \in AllWriterTips : \E e \in Table :
                 e.writer = t.writer /\ e.seq = t.seq /\ e.hash = t.hash
           /\ \A t \in AllWriterTips : \A e \in Table : e.writer = t.writer => e.seq <= t.seq
BY DEF AllWriterTips, TipRows, Rows

\* Hence a draft over the current tips covers what is committed.
LEMMA CurrentCovers ==
    ASSUME TypeOK, CheckpointInv, NEW d, d.tips = AllWriterTips
    PROVE  Covers(d)
<1>1. \A t, u \in d.tips : t.writer = u.writer => t.seq <= u.seq
    BY CurrentTips
<1>2. ASSUME NEW c \in checkpoints, NEW t \in c.tips, NEW u \in d.tips, u.writer = t.writer
      PROVE  t.seq <= u.seq
    <2>1. Covers(c)
        BY DEF CheckpointInv
    <2>2. PICK e \in Table : e.writer = t.writer /\ e.seq = t.seq
        BY <2>1 DEF Covers
    <2> QED
        BY <1>2, <2>2, CurrentTips
<1> QED
    BY <1>1, <1>2, CurrentTips DEF Covers

\* Inserting a good draft under a free number keeps everything good: what is
\* numbered above it would already have a row at its number.
LEMMA InsertInv ==
    ASSUME TypeOK, CheckpointInv, NEW d, d.seq \in Nat,
           Follows(d), Covers(d), Insertable(d),
           \E c \in Signed(d) : checkpoints' = checkpoints \cup {c},
           Table' = Table,
           \A v \in Writers : pc'[v] \in {"tips", "insert"} =>
                                 pc'[v] = pc[v] /\ draft'[v] = draft[v]
    PROVE  CheckpointInv'
<1>1. PICK c \in Signed(d) : checkpoints' = checkpoints \cup {c}
    OBVIOUS
<1>2. c.seq = d.seq /\ c.prev = d.prev /\ c.tips = d.tips
    BY SignedFields
<1>3. ASSUME NEW x, x.seq \in Nat, Follows(x) PROVE x.seq <= d.seq
    BY <1>3 DEF Follows, Insertable
<1>4. ASSUME NEW x, Follows(x) PROVE Follows(x)'
    BY <1>4, <1>1 DEF Follows
<1>5. ASSUME NEW x, x.seq \in Nat, x.seq <= d.seq, Covers(x) PROVE Covers(x)'
    BY <1>5, <1>1, <1>2 DEF Covers
<1>6. Follows(c) /\ Covers(c)
    BY <1>2 DEF Follows, Covers
<1>7. \A x \in checkpoints' : Follows(x)' /\ Covers(x)'
    <2>1. ASSUME NEW x \in checkpoints PROVE Follows(x)' /\ Covers(x)'
        <3>1. x.seq \in Nat /\ Follows(x) /\ Covers(x)
            BY DEF TypeOK, CheckpointInv
        <3> QED
            BY <3>1, <1>3, <1>4, <1>5
    <2>2. Follows(c)' /\ Covers(c)'
        BY <1>2, <1>4, <1>5, <1>6
    <2> QED
        BY <1>1, <2>1, <2>2
<1>8. ASSUME NEW w \in Writers, pc'[w] \in {"tips", "insert"} PROVE Follows(draft[w])'
    <2>1. draft'[w] = draft[w] /\ Follows(draft[w])
        BY <1>8 DEF CheckpointInv
    <2> QED
        BY <2>1, <1>4 DEF Follows
<1>9. ASSUME NEW w \in Writers, pc'[w] = "insert" PROVE Covers(draft[w])'
    <2>1. draft'[w] = draft[w] /\ Covers(draft[w]) /\ Follows(draft[w]) /\ draft[w].seq \in Nat
        BY <1>9 DEF CheckpointInv, TypeOK
    <2>2. draft[w].seq <= d.seq
        BY <2>1, <1>3
    <2> QED
        BY <2>1, <2>2, <1>1, <1>2 DEF Covers
<1>10. \A x, y \in checkpoints' : x.seq = y.seq => x = y
    BY <1>1, <1>2 DEF CheckpointInv, Insertable
<1> QED
    BY <1>7, <1>8, <1>9, <1>10 DEF CheckpointInv

\* What FinishCheckpoint does to the drafts in use.
LEMMA FinishFrame ==
    ASSUME TypeOK, NEW w \in Writers, NEW stop, NEW rest, FinishCheckpoint(w, stop, rest)
    PROVE  \A v \in Writers : pc'[v] \in {"tips", "insert"} =>
                                 pc'[v] = pc[v] /\ draft'[v] = draft[v]
BY DEF TypeOK, FinishCheckpoint

LEMMA CheckpointStep ==
    ASSUME TypeOK, CheckpointInv, [Next]_vars
    PROVE  CheckpointInv'
<1>0. Table \subseteq Table'
    BY TableGrows
<1>1. ASSUME NEW w \in Writers,
             Start(w) \/ Crash(w) \/ Log(w) \/ Resume(w) \/ HandleLog(w)
               \/ AppendEntry(w) \/ HandleFlush(w)
               \/ \E cmd \in {"checkpoint", "flush", "shutdown"} : SendControl(w, cmd)
      PROVE  CheckpointInv'
    <2>1. checkpoints' = checkpoints
        BY <1>1 DEF Start, Crash, Log, Resume, HandleLog, AppendEntry, HandleFlush, SendControl
    <2>2. \A v \in Writers : pc'[v] \in {"tips", "insert"} =>
                                 pc'[v] = pc[v] /\ draft'[v] = draft[v]
        BY <1>1 DEF Start, Crash, Log, Resume, HandleLog, AppendEntry, HandleFlush,
                    SendControl, TypeOK
    <2> QED
        BY <1>0, <2>1, <2>2, CheckpointFrame
<1>2. ASSUME NEW w \in Writers, ReadLatest(w) PROVE CheckpointInv'
    <2>1. PICK d \in NextDrafts : draft' = [draft EXCEPT ![w] = d]
        BY <1>2 DEF ReadLatest
    <2>2. Follows(d)
        BY NextDraftFollows
    <2>3. checkpoints' = checkpoints /\ pc' = [pc EXCEPT ![w] = "tips"] /\ UNCHANGED entries
        BY <1>2 DEF ReadLatest
    <2>4. Table' = Table
        BY <2>3, TableUnchanged
    <2>5. \A x : Follows(x) => Follows(x)'
        BY <2>3 DEF Follows
    <2>6. \A x : Covers(x) => Covers(x)'
        BY <2>3, <2>4 DEF Covers
    <2>7. \A v \in Writers : pc'[v] \in {"tips", "insert"} => Follows(draft[v])'
        <3> TAKE v \in Writers
        <3>1. CASE v = w
            <4>1. draft'[v] = d
                BY <2>1, <3>1 DEF TypeOK
            <4> QED
                BY <4>1, <2>2, <2>3 DEF Follows
        <3>2. CASE v # w
            <4>1. draft'[v] = draft[v] /\ pc'[v] = pc[v]
                BY <2>1, <2>3, <3>2 DEF TypeOK
            <4> QED
                BY <4>1, <2>3 DEF Follows, CheckpointInv
        <3> QED
            BY <3>1, <3>2
    <2>8. \A v \in Writers : pc'[v] = "insert" => Covers(draft[v])'
        <3> SUFFICES ASSUME NEW v \in Writers, pc'[v] = "insert" PROVE Covers(draft[v])'
            OBVIOUS
        <3>1. draft'[v] = draft[v] /\ pc[v] = "insert"
            BY <2>1, <2>3 DEF TypeOK
        <3> QED
            BY <3>1, <2>3, <2>4 DEF Covers, CheckpointInv
    <2> QED
        BY <2>3, <2>5, <2>6, <2>7, <2>8 DEF CheckpointInv
<1>3. ASSUME NEW w \in Writers, ReadTips(w) PROVE CheckpointInv'
    <2>1. UNCHANGED <<entries, checkpoints>>
        BY <1>3 DEF ReadTips
    <2>2. Table' = Table
        BY <2>1, TableUnchanged
    <2>3. CASE FinishCheckpoint(w, stopping[w], queue[w])
        BY <2>1, <2>2, <2>3, FinishFrame, CheckpointFrame
    <2>4. CASE /\ draft' = [draft EXCEPT ![w] = WithTips(@, AllWriterTips)]
               /\ pc' = [pc EXCEPT ![w] = "insert"]
        <3> DEFINE d == WithTips(draft[w], AllWriterTips)
        <3>1. Follows(d)
            BY <1>3 DEF ReadTips, CheckpointInv, Follows, WithTips
        <3>2. Covers(d)
            BY CurrentCovers DEF WithTips
        <3>3. draft'[w] = d
            BY <2>4 DEF TypeOK
        <3>4. \A v \in Writers : v # w => draft'[v] = draft[v] /\ pc'[v] = pc[v]
            BY <2>4 DEF TypeOK
        <3> HIDE DEF d
        <3>5. \A v \in Writers : pc'[v] \in {"tips", "insert"} => Follows(draft'[v])
            BY <3>1, <3>3, <3>4 DEF CheckpointInv
        <3>6. \A v \in Writers : pc'[v] = "insert" => Covers(draft'[v])
            BY <3>2, <3>3, <3>4 DEF CheckpointInv
        <3> QED
            BY <2>1, <2>2, <3>5, <3>6 DEF CheckpointInv, Follows, Covers
    <2> QED
        BY <1>3, <2>3, <2>4 DEF ReadTips
<1>4. ASSUME NEW w \in Writers, InsertCheckpoint(w) PROVE CheckpointInv'
    <2>1. UNCHANGED entries /\ FinishCheckpoint(w, stopping[w], queue[w])
        BY <1>4 DEF InsertCheckpoint
    <2>2. Table' = Table
        BY <2>1, TableUnchanged
    <2>3. \A v \in Writers : pc'[v] \in {"tips", "insert"} =>
                                 pc'[v] = pc[v] /\ draft'[v] = draft[v]
        BY <2>1, FinishFrame
    <2>4. CASE UNCHANGED checkpoints
        BY <2>2, <2>3, <2>4, CheckpointFrame
    <2>5. CASE Insertable(draft[w]) /\ \E c \in Signed(draft[w]) : checkpoints' = checkpoints \cup {c}
        <3>1. Follows(draft[w]) /\ Covers(draft[w]) /\ draft[w].seq \in Nat
            BY <1>4 DEF InsertCheckpoint, CheckpointInv, TypeOK
        <3> QED
            BY <2>2, <2>3, <2>5, <3>1, InsertInv
    <2> QED
        BY <1>4, <2>4, <2>5 DEF InsertCheckpoint
<1>5. ASSUME NEW w \in Writers, CheckpointFails(w) PROVE CheckpointInv'
    <2>1. UNCHANGED <<entries, checkpoints>>
        BY <1>5 DEF CheckpointFails
    <2>2. \A v \in Writers : pc'[v] \in {"tips", "insert"} =>
                                 pc'[v] = pc[v] /\ draft'[v] = draft[v]
        BY <1>5, FinishFrame DEF CheckpointFails
    <2> QED
        BY <1>0, <2>1, <2>2, CheckpointFrame
<1>6. ASSUME NEW w \in Writers, CommitLocked(w) PROVE CheckpointInv'
    <2>1. UNCHANGED entries /\ FinishCheckpoint(w, HeadIsShutdown(w), Tail(queue[w]))
        BY <1>6 DEF CommitLocked
    <2>2. Table' = Table
        BY <2>1, TableUnchanged
    <2>3. \A v \in Writers : pc'[v] \in {"tips", "insert"} =>
                                 pc'[v] = pc[v] /\ draft'[v] = draft[v]
        BY <2>1, FinishFrame
    <2>4. CASE UNCHANGED checkpoints
        BY <2>2, <2>3, <2>4, CheckpointFrame
    <2>5. ASSUME NEW n \in NextDrafts,
                 \E c \in Signed(WithTips(n, AllWriterTips)) : checkpoints' = checkpoints \cup {c}
          PROVE  CheckpointInv'
        <3> DEFINE d == WithTips(n, AllWriterTips)
        <3>1. Follows(n) /\ Insertable(n) /\ n.seq \in Nat
            BY NextDraftFollows
        <3>2. Follows(d) /\ Insertable(d) /\ d.seq \in Nat
            BY <3>1 DEF Follows, Insertable, WithTips
        <3>3. Covers(d)
            BY CurrentCovers DEF WithTips
        <3> HIDE DEF d
        <3>4. \E c \in Signed(d) : checkpoints' = checkpoints \cup {c}
            BY <2>5 DEF d
        <3> QED
            BY <2>2, <2>3, <3>2, <3>3, <3>4, InsertInv
    <2> QED
        BY <1>6, <2>4, <2>5 DEF CommitLocked
<1>7. CASE UNCHANGED vars
    <2>1. /\ checkpoints' = checkpoints
          /\ \A v \in Writers : pc'[v] \in {"tips", "insert"} =>
                                   pc'[v] = pc[v] /\ draft'[v] = draft[v]
        BY <1>7 DEF vars
    <2> QED
        BY <1>0, <2>1, CheckpointFrame
<1> QED
    BY <1>1, <1>2, <1>3, <1>4, <1>5, <1>6, <1>7 DEF Next, WriterStep, Environment, Quiescent

LEMMA CheckpointInductive == Spec => [](TypeOK /\ CheckpointInv)
<1>1. Init => TypeOK /\ CheckpointInv
    <2>1. Init => CheckpointInv
        BY DEF Init, CheckpointInv
    <2>2. Init => TypeOK
        BY BoundsAssumption DEF Init, TypeOK, Table, Range, NewChain, NoDraft
    <2> QED
        BY <2>1, <2>2
<1>2. TypeOK /\ CheckpointInv /\ [Next]_vars => CheckpointInv'
    BY CheckpointStep
<1> QED
    BY <1>1, <1>2, TypeCorrect, PTL DEF Spec

\* The checkpoint chain has no gap, no fork and no broken link, although
\* replicas commit concurrently and without a lock.
THEOREM CheckpointChainHolds == Spec => []CheckpointChain
<1>1. CheckpointInv => CheckpointChain
    BY DEF CheckpointInv, CheckpointChain, Follows
<1> QED
    BY <1>1, CheckpointInductive, PTL

\* A checkpoint commits stored entries only.
THEOREM CommittedTipsStoredHolds == Spec => []CommittedTipsStored
<1>1. CheckpointInv => CommittedTipsStored
    BY DEF CheckpointInv, CommittedTipsStored, TipsPresent, Covers
<1> QED
    BY <1>1, CheckpointInductive, PTL

\* A later checkpoint never commits an older entry of a writer.
THEOREM AnchorsMonotoneHolds == Spec => []AnchorsMonotone
<1>1. ASSUME TypeOK, CheckpointInv PROVE AnchorsMonotone
    <2> SUFFICES ASSUME NEW c \in checkpoints, NEW d \in checkpoints, c.seq <= d.seq,
                        NEW t \in c.tips, NEW u \in d.tips, u.writer = t.writer
                 PROVE  t.seq <= u.seq
        BY DEF AnchorsMonotone
    <2>1. c.seq \in Nat /\ d.seq \in Nat
        BY <1>1 DEF TypeOK
    <2>2. CASE c.seq < d.seq
        BY <1>1, <2>2 DEF CheckpointInv, Covers
    <2>3. CASE c.seq = d.seq
        BY <1>1, <2>3 DEF CheckpointInv, Covers
    <2> QED
        BY <2>1, <2>2, <2>3
<1> QED
    BY <1>1, CheckpointInductive, PTL

-----------------------------------------------------------------------------
(* The refinement, whatever calls fail. *)

\* The stored entries of the abstract log are the rows of the table.
LEMMA StoredIsTable ==
    Anchored!Stored = Table /\ Anchored!Stored' = Table'
BY DEF Anchored!Stored, Table, Range

\* A good draft inserted under a free number extends the newest anchor: a row
\* with a larger number would have a row below it at the draft's own.
LEMMA InsertAnchors ==
    ASSUME TypeOK, CheckpointInv, NEW d, d.seq \in Nat,
           Follows(d), Covers(d), Insertable(d),
           \E c \in Signed(d) : checkpoints' = checkpoints \cup {c},
           UNCHANGED entries
    PROVE  Anchored!ANext
<1>1. PICK c \in Signed(d) : checkpoints' = checkpoints \cup {c}
    OBVIOUS
<1>2. c.seq = d.seq /\ c.prev = d.prev /\ c.tips = d.tips
    BY SignedFields
<1>3. ASSUME NEW x \in checkpoints PROVE x.seq \in Nat /\ x.seq < d.seq
    <2>1. x.seq \in Nat /\ Follows(x)
        BY DEF TypeOK, CheckpointInv
    <2>2. ~(x.seq > d.seq)
        BY <2>1 DEF Follows, Insertable
    <2>3. x.seq # d.seq
        BY DEF Insertable
    <2> QED
        BY <2>1, <2>2, <2>3
<1>4. Anchored!Extends(c)
    <2>1. CASE d.seq = 0
        BY <1>2, <1>3, <2>1 DEF Anchored!Extends
    <2>2. ASSUME NEW a \in checkpoints, a.seq + 1 = d.seq, a.hash = d.prev
          PROVE  Anchored!Extends(c)
        <3>1. \A b \in checkpoints : b.seq <= a.seq
            BY <1>3, <2>2
        <3> QED
            BY <1>2, <2>2, <3>1 DEF Anchored!Extends
    <2> QED
        BY <2>1, <2>2 DEF Follows
<1>5. \A t \in c.tips : \E e \in Anchored!Stored :
         e.writer = t.writer /\ e.seq = t.seq /\ e.hash = t.hash
    BY <1>2, StoredIsTable DEF Covers
<1>6. \A a \in checkpoints : \A t \in a.tips, u \in c.tips :
         u.writer = t.writer => t.seq <= u.seq
    BY <1>2, <1>3 DEF Covers
<1>7. Anchored!Anchor(c)
    BY <1>1, <1>4, <1>5, <1>6 DEF Anchored!Anchor
<1> QED
    BY <1>1, <1>7 DEF Anchored!ANext

\* Every step of the replicas is a step of the abstract log or invisible to it.
LEMMA StepSimulation ==
    ASSUME TypeOK, CheckpointInv, [Next]_vars
    PROVE  Anchored!ANext \/ UNCHANGED <<entries, checkpoints>>
<1>1. ASSUME NEW w \in Writers, AppendEntry(w)
      PROVE  Anchored!ANext \/ UNCHANGED <<entries, checkpoints>>
    <2>1. CASE UNCHANGED entries
        BY <1>1, <2>1 DEF AppendEntry
    <2>2. CASE entries' = Append(entries, entry[w]) /\ \A e \in Rows(w) : e.seq # entry[w].seq
        <3>1. entry[w].writer = w /\ entries \in Seq(Table)
            BY <1>1 DEF AppendEntry, TypeOK
        <3>2. entry[w] \in Anchored!Stored'
            <4>1. Table' = Table \cup {entry[w]}
                BY <2>2, <3>1, TableAppend
            <4> QED
                BY <4>1, StoredIsTable
        <3>3. \A f \in Anchored!Stored : f.writer = entry[w].writer => f.seq # entry[w].seq
            BY <2>2, <3>1, StoredIsTable DEF Rows
        <3>4. Anchored!Add(entry[w])
            BY <1>1, <2>2, <3>3 DEF Anchored!Add, AppendEntry
        <3> QED
            BY <3>2, <3>4 DEF Anchored!ANext
    <2> QED
        BY <1>1, <2>1, <2>2 DEF AppendEntry
<1>2. ASSUME NEW w \in Writers, InsertCheckpoint(w)
      PROVE  Anchored!ANext \/ UNCHANGED <<entries, checkpoints>>
    <2>1. Follows(draft[w]) /\ Covers(draft[w]) /\ draft[w].seq \in Nat
        BY <1>2 DEF InsertCheckpoint, CheckpointInv, TypeOK
    <2>2. UNCHANGED entries
        BY <1>2 DEF InsertCheckpoint
    <2> QED
        BY <1>2, <2>1, <2>2, InsertAnchors DEF InsertCheckpoint
<1>3. ASSUME NEW w \in Writers, CommitLocked(w)
      PROVE  Anchored!ANext \/ UNCHANGED <<entries, checkpoints>>
    <2>1. UNCHANGED entries
        BY <1>3 DEF CommitLocked
    <2>2. ASSUME NEW n \in NextDrafts,
                 \E c \in Signed(WithTips(n, AllWriterTips)) : checkpoints' = checkpoints \cup {c}
          PROVE  Anchored!ANext
        <3> DEFINE d == WithTips(n, AllWriterTips)
        <3>1. Follows(n) /\ Insertable(n) /\ n.seq \in Nat
            BY NextDraftFollows
        <3>2. Follows(d) /\ Insertable(d) /\ d.seq \in Nat
            BY <3>1 DEF Follows, Insertable, WithTips
        <3>3. Covers(d)
            BY CurrentCovers DEF WithTips
        <3> HIDE DEF d
        <3>4. \E c \in Signed(d) : checkpoints' = checkpoints \cup {c}
            BY <2>2 DEF d
        <3> QED
            BY <2>1, <3>2, <3>3, <3>4, InsertAnchors
    <2> QED
        BY <1>3, <2>1, <2>2 DEF CommitLocked
<1>4. \/ UNCHANGED <<entries, checkpoints>>
      \/ \E w \in Writers : AppendEntry(w) \/ InsertCheckpoint(w) \/ CommitLocked(w)
    BY DEF Next, Quiescent, WriterStep, Environment, vars, Start, Crash, Log,
           SendControl, Resume, HandleLog, HandleFlush, ReadLatest, ReadTips,
           CheckpointFails
<1> QED
    BY <1>1, <1>2, <1>3, <1>4

\* The replicas, with their races, crashes and failing calls, implement one
\* append-only log with one chain of anchors.
THEOREM ImplementsAnchoredLogHolds == Spec => ImplementsAnchoredLog
<1>1. Init => Anchored!AInit
    BY DEF Init, Anchored!AInit
<1>2. TypeOK /\ CheckpointInv /\ [Next]_vars
         => [Anchored!ANext]_<<entries, checkpoints>>
    BY StepSimulation
<1> QED
    BY <1>1, <1>2, CheckpointInductive, PTL DEF Spec, ImplementsAnchoredLog, Anchored!ASpec

-----------------------------------------------------------------------------
(* Writer chains, when appends and the resume query do not fail. *)

\* The rows of the writers, when w appends a row of its own.
LEMMA RowsAppend ==
    ASSUME NEW e, Table' = Table \cup {e}
    PROVE  /\ Rows(e.writer)' = Rows(e.writer) \cup {e}
           /\ \A v : v # e.writer => Rows(v)' = Rows(v)
BY DEF Rows

\* A step that leaves the entries alone, and every chain that is in use.
LEMMA ChainFrame ==
    ASSUME ChainInv, UNCHANGED entries,
           \A v \in Writers : pc'[v] \in {"recv", "tips", "insert", "append"} =>
              /\ pc'[v] = pc[v] \/ {pc[v], pc'[v]} \subseteq {"recv", "tips", "insert"}
              /\ chain'[v] = chain[v] /\ entry'[v] = entry[v]
    PROVE  ChainInv'
<1>1. Table' = Table /\ \A v : Rows(v)' = Rows(v)
    BY TableUnchanged
<1>2. ASSUME NEW v \in Writers, pc'[v] \in {"recv", "tips", "insert"}
      PROVE  Continues(v, chain[v].next, chain[v].last)'
    <2>1. pc[v] \in {"recv", "tips", "insert"} /\ chain'[v] = chain[v]
        BY <1>2
    <2> QED
        BY <2>1, <1>1 DEF ChainInv, Continues
<1>3. ASSUME NEW v \in Writers, pc'[v] = "append"
      PROVE  /\ entry'[v].hash = ContentHash(v, entry'[v].seq, entry'[v].ev, entry'[v].prev)
             /\ Continues(v, entry[v].seq, entry[v].prev)'
             /\ chain'[v].next = entry'[v].seq + 1
             /\ chain'[v].last = entry'[v].hash
    <2>1. pc[v] = "append" /\ chain'[v] = chain[v] /\ entry'[v] = entry[v]
        BY <1>3
    <2> QED
        BY <2>1, <1>1 DEF ChainInv, Continues
<1> QED
    BY <1>1, <1>2, <1>3 DEF ChainInv, ContentHash

LEMMA ChainStep ==
    ASSUME {"append", "resume"} \cap Faults = {}, TypeOK, ChainInv, [Next]_vars
    PROVE  ChainInv'
<1>1. ASSUME NEW w \in Writers,
             Start(w) \/ Crash(w) \/ Log(w) \/ HandleFlush(w)
               \/ ReadLatest(w) \/ ReadTips(w) \/ InsertCheckpoint(w)
               \/ CheckpointFails(w) \/ CommitLocked(w)
               \/ \E cmd \in {"checkpoint", "flush", "shutdown"} : SendControl(w, cmd)
      PROVE  ChainInv'
    <2>1. UNCHANGED entries
        BY <1>1 DEF Start, Crash, Log, HandleFlush, ReadLatest, ReadTips, InsertCheckpoint,
                    CheckpointFails, CommitLocked, SendControl
    <2>2. \A v \in Writers : pc'[v] \in {"recv", "tips", "insert", "append"} =>
              /\ pc'[v] = pc[v] \/ {pc[v], pc'[v]} \subseteq {"recv", "tips", "insert"}
              /\ chain'[v] = chain[v] /\ entry'[v] = entry[v]
        BY <1>1 DEF Start, Crash, Log, HandleFlush, ReadLatest, ReadTips, InsertCheckpoint,
                    CheckpointFails, CommitLocked, SendControl, Receives, FinishCheckpoint, TypeOK
    <2> QED
        BY <2>1, <2>2, ChainFrame
<1>2. ASSUME NEW w \in Writers, Resume(w) PROVE ChainInv'
    <2>1. Table' = Table /\ \A v : Rows(v)' = Rows(v)
        BY <1>2, TableUnchanged DEF Resume
    <2>2. Continues(w, chain'[w].next, chain'[w].last)
        <3>1. CASE Rows(w) = {} /\ chain'[w] = NewChain
            BY <3>1 DEF Continues, NewChain
        <3>2. ASSUME NEW tip \in Rows(w) \cap TipRows, chain'[w] = ResumeChain(tip)
              PROVE  Continues(w, chain'[w].next, chain'[w].last)
            <4>1. \A e \in Rows(w) : e.seq \in Nat /\ e.seq <= tip.seq
                BY DEF Rows, TipRows, TypeOK
            <4> QED
                BY <3>2, <4>1 DEF Continues, ResumeChain
        <3> QED
            BY <1>2, <3>1, <3>2 DEF Resume, TypeOK
    <2>3. \A v \in Writers : v # w => pc'[v] = pc[v] /\ chain'[v] = chain[v]
        BY <1>2 DEF Resume, TypeOK
    <2>4. pc'[w] = "recv" /\ entry' = entry
        BY <1>2 DEF Resume, TypeOK
    <2>5. \A v \in Writers : pc'[v] \in {"recv", "tips", "insert"} =>
              Continues(v, chain'[v].next, chain'[v].last)
        BY <2>2, <2>3 DEF ChainInv
    <2>6. \A v \in Writers : pc'[v] = "append" => v # w
        BY <2>4
    <2> QED
        BY <2>1, <2>3, <2>4, <2>5, <2>6 DEF ChainInv, Continues, ContentHash
<1>3. ASSUME NEW w \in Writers, HandleLog(w) PROVE ChainInv'
    <2> DEFINE e == BuildEntry(w, chain[w], Head(queue[w]).ev)
    <2>1. UNCHANGED entries
        BY <1>3 DEF HandleLog
    <2>2. Table' = Table /\ \A v : Rows(v)' = Rows(v)
        BY <2>1, TableUnchanged
    <2>3. CASE UNCHANGED <<entry, chain, pc>>
        BY <2>1, <2>3, ChainFrame
    <2>4. CASE /\ entry' = [entry EXCEPT ![w] = e]
               /\ chain' = [chain EXCEPT ![w] = Advance(@, e.hash)]
               /\ pc' = [pc EXCEPT ![w] = "append"]
        <3>1. /\ e.hash = ContentHash(w, e.seq, e.ev, e.prev)
              /\ e.seq = chain[w].next /\ e.prev = chain[w].last
            BY DEF BuildEntry
        <3>2. /\ Advance(chain[w], e.hash).next = e.seq + 1
              /\ Advance(chain[w], e.hash).last = e.hash
            BY <3>1 DEF Advance
        <3>3. Continues(w, e.seq, e.prev)
            BY <1>3, <3>1 DEF HandleLog, Receives, ChainInv
        <3> HIDE DEF e
        <3>4. entry'[w] = e /\ chain'[w] = Advance(chain[w], e.hash) /\ pc'[w] = "append"
            BY <2>4 DEF TypeOK
        <3>5. \A v \in Writers : v # w =>
                 pc'[v] = pc[v] /\ chain'[v] = chain[v] /\ entry'[v] = entry[v]
            BY <2>4 DEF TypeOK
        <3>6. \A v \in Writers : pc'[v] \in {"recv", "tips", "insert"} =>
                 Continues(v, chain'[v].next, chain'[v].last)
            BY <3>4, <3>5 DEF ChainInv
        <3>7. \A v \in Writers : pc'[v] = "append" =>
                 /\ entry'[v].hash = ContentHash(v, entry'[v].seq, entry'[v].ev, entry'[v].prev)
                 /\ Continues(v, entry'[v].seq, entry'[v].prev)
                 /\ chain'[v].next = entry'[v].seq + 1
                 /\ chain'[v].last = entry'[v].hash
            BY <3>1, <3>2, <3>3, <3>4, <3>5 DEF ChainInv
        <3> QED
            BY <2>2, <3>6, <3>7 DEF ChainInv, Continues, ContentHash
    <2> QED
        BY <1>3, <2>3, <2>4 DEF HandleLog
<1>4. ASSUME NEW w \in Writers, AppendEntry(w) PROVE ChainInv'
    <2> DEFINE e == entry[w]
    <2>1. /\ e.hash = ContentHash(w, e.seq, e.ev, e.prev)
          /\ Continues(w, e.seq, e.prev)
          /\ chain[w].next = e.seq + 1 /\ chain[w].last = e.hash
          /\ e.writer = w /\ e.seq \in Nat
        BY <1>4 DEF AppendEntry, ChainInv, TypeOK
    <2>2. \A f \in Rows(w) : f.seq \in Nat /\ f.seq < e.seq
        BY <2>1 DEF Continues, Rows, TypeOK
    <2>3. entries' = Append(entries, e)
        BY <1>4, <2>2 DEF AppendEntry
    <2>4. Table' = Table \cup {e}
        BY <2>3, TableAppend DEF TypeOK
    <2>5. Rows(w)' = Rows(w) \cup {e} /\ \A v : v # w => Rows(v)' = Rows(v)
        BY <2>1, <2>4, RowsAppend
    <2>6. pc' = [pc EXCEPT ![w] = "recv"] /\ chain' = chain /\ entry' = [entry EXCEPT ![w] = NoEntry]
        BY <1>4 DEF AppendEntry
    <2> HIDE DEF e
    <2>7. \A v \in Writers : v # w => pc'[v] = pc[v] /\ entry'[v] = entry[v]
        BY <2>6 DEF TypeOK
    <2>8. Continues(w, chain[w].next, chain[w].last)'
        BY <2>1, <2>2, <2>5, <2>6 DEF Continues
    <2>9. ASSUME NEW f \in Table'
          PROVE  /\ f.hash = ContentHash(f.writer, f.seq, f.ev, f.prev)
                 /\ \/ f.seq = 0 /\ f.prev = NoHash
                    \/ \E p \in Rows(f.writer)' : p.seq + 1 = f.seq /\ p.hash = f.prev
        <3>1. CASE f = e
            BY <2>1, <2>5, <3>1 DEF Continues
        <3>2. CASE f \in Table
            BY <2>5, <3>2 DEF ChainInv
        <3> QED
            BY <2>4, <3>1, <3>2
    <2>10. \A v \in Writers : v # w =>
              /\ pc'[v] \in {"recv", "tips", "insert"} =>
                    Continues(v, chain[v].next, chain[v].last)'
              /\ pc'[v] = "append" => Continues(v, entry[v].seq, entry[v].prev)'
        BY <2>5, <2>6, <2>7 DEF ChainInv, Continues
    <2>11. pc'[w] = "recv"
        BY <2>6 DEF TypeOK
    <2> QED
        BY <2>6, <2>7, <2>8, <2>9, <2>10, <2>11 DEF ChainInv, ContentHash
<1>5. CASE UNCHANGED vars
    BY <1>5, ChainFrame DEF vars
<1> QED
    BY <1>1, <1>2, <1>3, <1>4, <1>5 DEF Next, WriterStep, Environment, Quiescent

\* Every stored chain is contiguous from its genesis entry and linked, in
\* every state and over every crash, provided no append and no resume query
\* fails; failing signatures and commit statements do no harm.
THEOREM StoredChainsIntactHolds ==
    ASSUME {"append", "resume"} \cap Faults = {}
    PROVE  Spec => []StoredChainsIntact
<1>1. Init => ChainInv
    BY DEF Init, ChainInv, Table, Range
<1>2. TypeOK /\ ChainInv /\ [Next]_vars => ChainInv'
    BY ChainStep
<1>3. ASSUME TypeOK, ChainInv PROVE StoredChainsIntact
    <2> SUFFICES ASSUME NEW e \in Table
                 PROVE  /\ e.hash = ContentHash(e.writer, e.seq, e.ev, e.prev)
                        /\ IF Predecessors(Table, e) = {}
                           THEN e.seq = 0 => e.prev = NoHash
                           ELSE \E p \in Predecessors(Table, e) :
                                   p.seq + 1 = e.seq /\ p.hash = e.prev
                        /\ e.seq > 0 => Predecessors(Table, e) # {}
        BY DEF StoredChainsIntact, ChainsIntact
    <2>1. /\ e.hash = ContentHash(e.writer, e.seq, e.ev, e.prev)
          /\ \/ e.seq = 0 /\ e.prev = NoHash
             \/ \E p \in Rows(e.writer) : p.seq + 1 = e.seq /\ p.hash = e.prev
        BY <1>3 DEF ChainInv
    <2>2. \A p \in Table : p.seq \in Nat
        BY <1>3 DEF TypeOK
    <2>3. CASE e.seq = 0 /\ e.prev = NoHash
        <3>1. Predecessors(Table, e) = {}
            BY <2>2, <2>3 DEF Predecessors
        <3> QED
            BY <2>1, <2>3, <3>1
    <2>4. ASSUME NEW p \in Rows(e.writer), p.seq + 1 = e.seq, p.hash = e.prev
          PROVE  p \in Predecessors(Table, e) /\ e.seq # 0
        BY <2>2, <2>4 DEF Predecessors, Rows
    <2> QED
        BY <2>1, <2>3, <2>4
<1> QED
    BY <1>1, <1>2, <1>3, TypeCorrect, PTL DEF Spec

=============================================================================
