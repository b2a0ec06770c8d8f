------------------------- MODULE AuditVerifyProofs -------------------------
(***************************************************************************)
(* Proofs about what a reader of the audit log relies on: the order of the *)
(* rows and of the anchors, the batches under the Merkle roots, the final  *)
(* anchor of a shutdown, and the verdict of verify_audit beside running    *)
(* writers.  They rest on the invariants of AuditLogProofs.                *)
(***************************************************************************)
EXTENDS AuditVerify, AuditLogProofs

-----------------------------------------------------------------------------
(* Order, provided the resume query does not fail. *)

\* A committed writer stays committed: d names every writer that a checkpoint
\* with a smaller number names.
KeepsWriters(d) ==
    \A c \in checkpoints : c.seq < d.seq =>
        \A t \in c.tips : \E u \in d.tips : u.writer = t.writer

\* Every writer with rows has a newest one, so the tips name it.
HasTip == \A e \in Table : \E f \in Rows(e.writer) :
              \A g \in Rows(e.writer) : g.seq <= f.seq

KeepInv ==
    /\ HasTip
    /\ \A c \in checkpoints : KeepsWriters(c)
    /\ \A w \in Writers : pc[w] = "insert" => KeepsWriters(draft[w])

IsLog(c) == c.cmd = "log"

\* The events of w, oldest first: its rows, the entry in flight, its channel.
OrderAt(w) ==
    /\ \A e, f \in Rows(w) : e.seq < f.seq => e.ev < f.ev
    /\ \A e \in Rows(w) : e.ev <= sent[w]
    /\ \A i \in 1..Len(queue[w]) : IsLog(queue[w][i]) =>
          /\ queue[w][i].ev <= sent[w]
          /\ \A e \in Rows(w) : e.ev < queue[w][i].ev
          /\ \A j \in 1..Len(queue[w]) :
                j < i /\ IsLog(queue[w][j]) => queue[w][j].ev < queue[w][i].ev
    /\ pc[w] \in {"recv", "tips", "insert"} =>
          \A e \in Rows(w) : e.seq < chain[w].next
    /\ pc[w] = "append" =>
          /\ \A e \in Rows(w) : e.seq < entry[w].seq /\ e.ev < entry[w].ev
          /\ entry[w].seq < chain[w].next
          /\ entry[w].ev <= sent[w]
          /\ \A i \in 1..Len(queue[w]) :
                IsLog(queue[w][i]) => entry[w].ev < queue[w][i].ev

OrderInv == \A w \in Writers : OrderAt(w)

\* The rows of a writer that takes no step of its own, or none on its chain.
LEMMA OrderFrame ==
    ASSUME TypeOK, NEW w \in Writers, OrderAt(w),
           Rows(w)' = Rows(w), sent'[w] = sent[w],
           \/ queue'[w] = queue[w] \/ queue'[w] = <<>>
           \/ queue[w] # <<>> /\ queue'[w] = Tail(queue[w]),
           pc'[w] \in {"recv", "tips", "insert"} =>
              pc[w] \in {"recv", "tips", "insert"} /\ chain'[w] = chain[w],
           pc'[w] = "append" =>
              pc[w] = "append" /\ chain'[w] = chain[w] /\ entry'[w] = entry[w]
    PROVE  OrderAt(w)'
<1>0. queue[w] \in Seq(Commands)
    BY DEF TypeOK
<1>1. \A i \in 1..Len(queue'[w]) : \E k \in 1..Len(queue[w]) :
         /\ queue'[w][i] = queue[w][k]
         /\ k = i \/ k = i + 1
         /\ Len(queue'[w]) = Len(queue[w]) => k = i
         /\ Len(queue'[w]) # Len(queue[w]) => k = i + 1
    <2>1. CASE queue'[w] = queue[w]
        BY <1>0, <2>1
    <2>2. CASE queue'[w] = <<>>
        BY <2>2
    <2>3. CASE queue[w] # <<>> /\ queue'[w] = Tail(queue[w])
        BY <1>0, <2>3
    <2> QED
        BY <2>1, <2>2, <2>3
<1>2. ASSUME NEW i \in 1..Len(queue'[w]), IsLog(queue'[w][i])
      PROVE  /\ queue'[w][i].ev <= sent'[w]
             /\ \A e \in Rows(w) : e.ev < queue'[w][i].ev
             /\ pc'[w] = "append" => entry'[w].ev < queue'[w][i].ev
    BY <1>1, <1>2 DEF OrderAt
<1>3. ASSUME NEW i \in 1..Len(queue'[w]), IsLog(queue'[w][i]),
             NEW j \in 1..Len(queue'[w]), IsLog(queue'[w][j]), j < i
      PROVE  queue'[w][j].ev < queue'[w][i].ev
    <2>1. PICK k \in 1..Len(queue[w]) : queue'[w][i] = queue[w][k]
             /\ (Len(queue'[w]) = Len(queue[w]) => k = i)
             /\ (Len(queue'[w]) # Len(queue[w]) => k = i + 1)
        BY <1>1
    <2>2. PICK l \in 1..Len(queue[w]) : queue'[w][j] = queue[w][l]
             /\ (Len(queue'[w]) = Len(queue[w]) => l = j)
             /\ (Len(queue'[w]) # Len(queue[w]) => l = j + 1)
        BY <1>1
    <2>3. l < k
        BY <2>1, <2>2, <1>3
    <2> QED
        BY <2>1, <2>2, <2>3, <1>3 DEF OrderAt
<1>4. pc'[w] \in {"recv", "tips", "insert"} => \A e \in Rows(w) : e.seq < chain'[w].next
    BY DEF OrderAt
<1>5. pc'[w] = "append" =>
          /\ \A e \in Rows(w) : e.seq < entry'[w].seq /\ e.ev < entry'[w].ev
          /\ entry'[w].seq < chain'[w].next
          /\ entry'[w].ev <= sent'[w]
    BY DEF OrderAt
<1>6. /\ \A e, f \in Rows(w) : e.seq < f.seq => e.ev < f.ev
      /\ \A e \in Rows(w) : e.ev <= sent'[w]
    BY DEF OrderAt
<1> QED
    BY <1>2, <1>3, <1>4, <1>5, <1>6 DEF OrderAt, IsLog
\* A command accepted at the end of the channel.
LEMMA QueueAppend ==
    ASSUME TypeOK, NEW w \in Writers, NEW c \in Commands,
           queue' = [queue EXCEPT ![w] = Append(@, c)]
    PROVE  /\ Len(queue[w]) \in Nat /\ Len(queue'[w]) = Len(queue[w]) + 1
           /\ queue'[w][Len(queue[w]) + 1] = c
           /\ \A i \in 1..Len(queue[w]) : queue'[w][i] = queue[w][i]
           /\ \A v \in Writers : v # w => queue'[v] = queue[v]
<1>1. queue[w] \in Seq(Commands) /\ queue'[w] = Append(queue[w], c)
    BY DEF TypeOK
<1>2. \A v \in Writers : v # w => queue'[v] = queue[v]
    BY DEF TypeOK
<1> QED
    BY <1>1, <1>2

LEMMA OrderStep ==
    ASSUME "resume" \notin Faults, TypeOK, OrderInv, [Next]_vars
    PROVE  OrderInv'
<1>0. UNCHANGED entries => \A v : Rows(v)' = Rows(v)
    BY TableUnchanged
<1>1. ASSUME NEW w \in Writers,
             Start(w) \/ Crash(w) \/ HandleFlush(w)
               \/ ReadLatest(w) \/ ReadTips(w) \/ InsertCheckpoint(w)
               \/ CheckpointFails(w) \/ CommitLocked(w)
      PROVE  OrderInv'
    <2>1. UNCHANGED <<entries, sent>>
        BY <1>1 DEF Start, Crash, HandleFlush, ReadLatest, ReadTips, InsertCheckpoint,
                    CheckpointFails, CommitLocked
    <2>2. ASSUME NEW v \in Writers
          PROVE  \/ queue'[v] = queue[v] \/ queue'[v] = <<>>
                 \/ queue[v] # <<>> /\ queue'[v] = Tail(queue[v])
        <3>1. CASE Start(w) \/ Crash(w) \/ HandleFlush(w)
            BY <3>1 DEF Start, Crash, HandleFlush, Receives, TypeOK
        <3>2. CASE ReadLatest(w) \/ CommitLocked(w)
            BY <3>2 DEF ReadLatest, CommitLocked, Receives, FinishCheckpoint, TypeOK
        <3>3. CASE ReadTips(w) \/ InsertCheckpoint(w) \/ CheckpointFails(w)
            BY <3>3, SMTT(20) DEF ReadTips, InsertCheckpoint, CheckpointFails, Receives, FinishCheckpoint, TypeOK
        <3> QED
            BY <1>1, <3>1, <3>2, <3>3
    <2>3. ASSUME NEW v \in Writers
          PROVE  /\ pc'[v] \in {"recv", "tips", "insert"} =>
                       pc[v] \in {"recv", "tips", "insert"} /\ chain'[v] = chain[v]
                 /\ pc'[v] = "append" =>
                       pc[v] = "append" /\ chain'[v] = chain[v] /\ entry'[v] = entry[v]
        BY <1>1 DEF Start, Crash, HandleFlush, ReadLatest, ReadTips, InsertCheckpoint,
                    CheckpointFails, CommitLocked, Receives, FinishCheckpoint, TypeOK
    <2>4. ASSUME NEW v \in Writers PROVE OrderAt(v)'
        <3>1. OrderAt(v) /\ Rows(v)' = Rows(v) /\ sent'[v] = sent[v]
            BY <1>0, <2>1 DEF OrderInv
        <3> QED
            BY <2>2, <2>3, <3>1, OrderFrame
    <2> QED
        BY <2>4 DEF OrderInv
<1>2. ASSUME NEW w \in Writers, NEW v \in Writers, v # w,
             Log(w) \/ Resume(w) \/ HandleLog(w) \/ AppendEntry(w)
               \/ \E cmd \in {"checkpoint", "flush", "shutdown"} : SendControl(w, cmd)
      PROVE  OrderAt(v)'
    <2>1. Rows(v)' = Rows(v)
        <3>1. CASE UNCHANGED entries
            BY <1>0, <3>1
        <3>2. CASE AppendEntry(w) /\ entries' = Append(entries, entry[w])
            <4>1. entries \in Seq(Table) /\ entry[w].writer = w
                BY <3>2 DEF AppendEntry, TypeOK
            <4>2. Table' = Table \cup {entry[w]}
                BY <3>2, <4>1, TableAppend
            <4> QED
                BY <1>2, <4>1, <4>2, RowsAppend
        <3> QED
            BY <1>2, <3>1, <3>2 DEF Log, Resume, HandleLog, AppendEntry, SendControl
    <2>2. /\ queue'[v] = queue[v] /\ pc'[v] = pc[v] /\ chain'[v] = chain[v]
          /\ entry'[v] = entry[v] /\ sent'[v] = sent[v]
        BY <1>2 DEF Log, Resume, HandleLog, AppendEntry, SendControl, TypeOK
    <2> QED
        BY <2>1, <2>2, OrderFrame DEF OrderInv
<1>3. ASSUME NEW w \in Writers, Log(w) PROVE OrderAt(w)'
    <2> DEFINE c == [cmd |-> "log", ev |-> sent[w] + 1]
    <2>0. sent[w] \in Nat /\ \A e \in Rows(w) : e.ev \in Nat
        BY BoundsAssumption DEF TypeOK, Rows
    <2>1. c \in Commands /\ c.ev = sent[w] + 1
        BY <2>0 DEF Commands
    <2>2. queue' = [queue EXCEPT ![w] = Append(@, c)]
        BY <1>3 DEF Log
    <2> HIDE DEF c
    <2>3. /\ Len(queue[w]) \in Nat /\ Len(queue'[w]) = Len(queue[w]) + 1
          /\ queue'[w][Len(queue[w]) + 1] = c
          /\ \A i \in 1..Len(queue[w]) : queue'[w][i] = queue[w][i]
        BY <2>1, <2>2, QueueAppend
    <2>4. sent'[w] = sent[w] + 1 /\ UNCHANGED <<entries, pc, chain, entry>> /\ Rows(w)' = Rows(w)
        BY <1>0, <1>3 DEF Log, TypeOK
    <2>5. ASSUME NEW i \in 1..Len(queue'[w]), IsLog(queue'[w][i])
          PROVE  /\ queue'[w][i].ev <= sent'[w]
                 /\ \A e \in Rows(w) : e.ev < queue'[w][i].ev
                 /\ \A j \in 1..Len(queue'[w]) :
                       j < i /\ IsLog(queue'[w][j]) => queue'[w][j].ev < queue'[w][i].ev
                 /\ pc[w] = "append" => entry[w].ev < queue'[w][i].ev
        <3>1. CASE i = Len(queue[w]) + 1
            <4>1. \A j \in 1..Len(queue[w]) : IsLog(queue[w][j]) =>
                     queue[w][j].ev \in Nat /\ queue[w][j].ev <= sent[w]
                <5>1. ASSUME NEW j \in 1..Len(queue[w]), IsLog(queue[w][j])
                      PROVE  queue[w][j].ev \in Nat
                    <6>1. queue[w][j] \in Commands
                        BY DEF TypeOK
                    <6> QED
                        BY <5>1, <6>1 DEF IsLog, Commands
                <5> QED
                    BY <5>1 DEF OrderInv, OrderAt
            <4>2. pc[w] = "append" => entry[w].ev \in Nat /\ entry[w].ev <= sent[w]
                BY DEF OrderInv, OrderAt, TypeOK
            <4>3. \A e \in Rows(w) : e.ev <= sent[w]
                BY DEF OrderInv, OrderAt
            <4>4. queue'[w][i].ev = sent[w] + 1
                BY <2>1, <2>3, <3>1
            <4>5. \A j \in 1..Len(queue'[w]) : j < i =>
                     j \in 1..Len(queue[w]) /\ queue'[w][j] = queue[w][j]
                BY <2>3, <3>1
            <4>6. \A j \in 1..Len(queue'[w]) :
                     j < i /\ IsLog(queue'[w][j]) => queue'[w][j].ev < queue'[w][i].ev
                <5> SUFFICES ASSUME NEW j \in 1..Len(queue'[w]), j < i, IsLog(queue'[w][j])
                             PROVE  queue'[w][j].ev < queue'[w][i].ev
                    OBVIOUS
                <5>1. j \in 1..Len(queue[w]) /\ queue'[w][j] = queue[w][j]
                    BY <4>5
                <5>2. queue[w][j].ev \in Nat /\ queue[w][j].ev <= sent[w]
                    BY <4>1, <5>1
                <5> QED
                    BY <2>0, <4>4, <5>1, <5>2
            <4> QED
                BY <2>0, <2>4, <4>2, <4>3, <4>4, <4>6
        <3>2. CASE i \in 1..Len(queue[w])
            <4>1. /\ IsLog(queue[w][i]) /\ queue[w][i] \in Commands
                  /\ queue'[w][i] = queue[w][i]
                BY <2>3, <2>5, <3>2 DEF TypeOK
            <4>2. queue[w][i].ev \in Nat
                BY <4>1 DEF IsLog, Commands
            <4>3. \A j \in 1..Len(queue'[w]) : j < i => j \in 1..Len(queue[w])
                BY <2>3, <3>2
            <4>4. OrderAt(w)
                BY DEF OrderInv
            <4>5. /\ queue[w][i].ev <= sent[w]
                  /\ \A e \in Rows(w) : e.ev < queue[w][i].ev
                  /\ \A j \in 1..Len(queue[w]) :
                        j < i /\ IsLog(queue[w][j]) => queue[w][j].ev < queue[w][i].ev
                  /\ pc[w] = "append" => entry[w].ev < queue[w][i].ev
                BY <3>2, <4>1, <4>4 DEF OrderAt
            <4>6. \A j \in 1..Len(queue'[w]) :
                     j < i /\ IsLog(queue'[w][j]) => queue'[w][j].ev < queue'[w][i].ev
                BY <2>3, <4>1, <4>3, <4>5
            <4>7. queue[w][i].ev <= sent[w] + 1
                BY <2>0, <4>2, <4>5
            <4> QED
                BY <2>4, <4>1, <4>5, <4>6, <4>7
        <3>3. i = Len(queue[w]) + 1 \/ i \in 1..Len(queue[w])
            BY <2>3
        <3> QED
            BY <3>1, <3>2, <3>3
    <2>6. \A e \in Rows(w) : e.ev <= sent'[w]
        BY <2>0, <2>4 DEF OrderInv, OrderAt
    <2>7. pc[w] = "append" => entry[w].ev <= sent'[w]
        BY <2>0, <2>4 DEF OrderInv, OrderAt, TypeOK
    <2> QED
        BY <2>4, <2>5, <2>6, <2>7 DEF OrderInv, OrderAt, IsLog
<1>4. ASSUME NEW w \in Writers, NEW cmd \in {"checkpoint", "flush", "shutdown"},
             SendControl(w, cmd)
      PROVE  OrderAt(w)'
    <2> DEFINE c == [cmd |-> cmd]
    <2>1. c \in Commands /\ ~IsLog(c)
        BY DEF Commands, IsLog
    <2>2. queue' = [queue EXCEPT ![w] = Append(@, c)]
        BY <1>4 DEF SendControl
    <2> HIDE DEF c
    <2>3. /\ Len(queue[w]) \in Nat /\ Len(queue'[w]) = Len(queue[w]) + 1
          /\ queue'[w][Len(queue[w]) + 1] = c
          /\ \A i \in 1..Len(queue[w]) : queue'[w][i] = queue[w][i]
        BY <2>1, <2>2, QueueAppend
    <2>4. UNCHANGED <<entries, pc, chain, entry, sent>> /\ Rows(w)' = Rows(w)
        BY <1>0, <1>4 DEF SendControl
    <2>5. \A i \in 1..Len(queue'[w]) : IsLog(queue'[w][i]) =>
             i \in 1..Len(queue[w]) /\ queue'[w][i] = queue[w][i]
        BY <2>1, <2>3
    <2> QED
        BY <2>4, <2>5 DEF OrderInv, OrderAt, IsLog
<1>5. ASSUME NEW w \in Writers, Resume(w) PROVE OrderAt(w)'
    <2>1. UNCHANGED <<entries, queue, entry, sent>> /\ Rows(w)' = Rows(w) /\ pc'[w] = "recv"
        BY <1>0, <1>5 DEF Resume, TypeOK
    <2>2. \A e \in Rows(w) : e.seq < chain'[w].next
        <3>1. CASE Rows(w) = {}
            BY <3>1
        <3>2. ASSUME NEW tip \in Rows(w) \cap TipRows, chain'[w] = ResumeChain(tip)
              PROVE  \A e \in Rows(w) : e.seq < chain'[w].next
            <4>1. \A e \in Rows(w) : e.seq \in Nat /\ e.seq <= tip.seq
                BY DEF Rows, TipRows, TypeOK
            <4> QED
                BY <3>2, <4>1 DEF ResumeChain
        <3> QED
            BY <1>5, <3>1, <3>2 DEF Resume, TypeOK
    <2> QED
        BY <2>1, <2>2 DEF OrderInv, OrderAt, IsLog
<1>6. ASSUME NEW w \in Writers, HandleLog(w) PROVE OrderAt(w)'
    <2> DEFINE q == queue[w]
               e == BuildEntry(w, chain[w], Head(q).ev)
    <2>1. /\ UNCHANGED <<entries, sent>> /\ Rows(w)' = Rows(w)
          /\ q # <<>> /\ queue'[w] = Tail(q) /\ pc[w] = "recv"
        BY <1>0, <1>6 DEF HandleLog, Receives, TypeOK
    <2>2. CASE UNCHANGED <<entry, chain, pc>>
        BY <2>1, <2>2, OrderFrame DEF OrderInv
    <2>3. CASE /\ entry' = [entry EXCEPT ![w] = e]
               /\ chain' = [chain EXCEPT ![w] = Advance(@, e.hash)]
               /\ pc' = [pc EXCEPT ![w] = "append"]
        <3>1. e.seq = chain[w].next /\ e.ev = Head(q).ev
            BY DEF BuildEntry
        <3>2. Advance(chain[w], e.hash).next = chain[w].next + 1
            BY DEF Advance
        <3> HIDE DEF e
        <3>3. entry'[w] = e /\ chain'[w].next = chain[w].next + 1 /\ pc'[w] = "append"
            BY <2>3, <3>2 DEF TypeOK
        <3>4. /\ Len(q) \in Nat /\ Len(q) >= 1 /\ Head(q) = q[1] /\ Len(Tail(q)) = Len(q) - 1
              /\ \A i \in 1..Len(Tail(q)) : Tail(q)[i] = q[i + 1]
            BY <2>1 DEF TypeOK
        <3>5. IsLog(q[1]) /\ 1 \in 1..Len(q)
            BY <1>6, <3>4 DEF HandleLog, Receives, IsLog
        <3>6. /\ \A f \in Rows(w) : f.seq < e.seq /\ f.ev < e.ev
              /\ e.seq < chain'[w].next /\ e.ev <= sent[w]
            <4>1. OrderAt(w) /\ chain[w].next \in Nat
                BY DEF OrderInv, TypeOK
            <4>2. \A f \in Rows(w) : f.seq < chain[w].next
                BY <2>1, <4>1 DEF OrderAt
            <4>3. q[1].ev <= sent[w] /\ \A f \in Rows(w) : f.ev < q[1].ev
                BY <3>5, <4>1 DEF OrderAt
            <4> QED
                BY <3>1, <3>3, <3>4, <4>1, <4>2, <4>3
        <3>7. \A i \in 1..Len(Tail(q)) : i + 1 \in 1..Len(q) /\ 1 < i + 1
            BY <3>4
        <3> HIDE DEF q
        <3>8. /\ \A i \in 1..Len(q) : IsLog(q[i]) =>
                    /\ q[i].ev <= sent[w]
                    /\ \A f \in Rows(w) : f.ev < q[i].ev
                    /\ \A j \in 1..Len(q) : j < i /\ IsLog(q[j]) => q[j].ev < q[i].ev
              /\ \A f, g \in Rows(w) : f.seq < g.seq => f.ev < g.ev
              /\ \A f \in Rows(w) : f.ev <= sent[w]
            BY DEF OrderInv, OrderAt, q
        <3>9. ASSUME NEW i \in 1..Len(Tail(q)), IsLog(Tail(q)[i])
              PROVE  /\ Tail(q)[i].ev <= sent[w]
                     /\ \A f \in Rows(w) : f.ev < Tail(q)[i].ev
                     /\ \A j \in 1..Len(Tail(q)) :
                           j < i /\ IsLog(Tail(q)[j]) => Tail(q)[j].ev < Tail(q)[i].ev
                     /\ e.ev < Tail(q)[i].ev
            BY <3>1, <3>4, <3>5, <3>7, <3>8, <3>9
        <3> QED
            BY <2>1, <3>3, <3>6, <3>8, <3>9 DEF OrderAt, IsLog
    <2> QED
        BY <1>6, <2>2, <2>3 DEF HandleLog
<1>7. ASSUME NEW w \in Writers, AppendEntry(w) PROVE OrderAt(w)'
    <2> DEFINE e == entry[w]
    <2>1. /\ e.writer = w /\ e.seq \in Nat /\ e.ev \in Nat /\ pc[w] = "append"
          /\ \A f \in Rows(w) : f.seq \in Nat /\ f.ev \in Nat
        BY <1>7 DEF AppendEntry, TypeOK, Rows
    <2>2. /\ \A f \in Rows(w) : f.seq < e.seq /\ f.ev < e.ev
          /\ e.seq < chain[w].next /\ e.ev <= sent[w]
          /\ \A i \in 1..Len(queue[w]) : IsLog(queue[w][i]) => e.ev < queue[w][i].ev
        BY <2>1 DEF OrderInv, OrderAt
    <2>3. pc'[w] = "recv" /\ UNCHANGED <<queue, chain, sent>>
        BY <1>7 DEF AppendEntry, TypeOK
    <2>4. Rows(w)' = Rows(w) \/ Rows(w)' = Rows(w) \cup {e}
        <3>1. CASE UNCHANGED entries
            BY <1>0, <3>1
        <3>2. CASE entries' = Append(entries, e)
            <4>1. Table' = Table \cup {e}
                BY <3>2, TableAppend DEF TypeOK
            <4> QED
                BY <2>1, <4>1, RowsAppend
        <3> QED
            BY <1>7, <3>1, <3>2 DEF AppendEntry
    <2> HIDE DEF e
    <2>5. chain[w].next \in Nat
        BY DEF TypeOK
    <2>6. \A f \in Rows(w)' : f.seq < chain[w].next /\ f.ev <= sent[w]
        <3>1. \A f \in Rows(w) : f.seq < chain[w].next
            BY <2>1, <2>2, <2>5
        <3>2. \A f \in Rows(w) : f.ev <= sent[w]
            BY DEF OrderInv, OrderAt
        <3> QED
            BY <2>2, <2>4, <3>1, <3>2
    <2>7. \A f, g \in Rows(w)' : f.seq < g.seq => f.ev < g.ev
        <3>1. \A f, g \in Rows(w) : f.seq < g.seq => f.ev < g.ev
            BY DEF OrderInv, OrderAt
        <3> QED
            BY <2>1, <2>2, <2>4, <3>1
    <2>8. ASSUME NEW i \in 1..Len(queue[w]), IsLog(queue[w][i])
          PROVE  \A f \in Rows(w)' : f.ev < queue[w][i].ev
        BY <2>2, <2>4, <2>8 DEF OrderInv, OrderAt
    <2>9. OrderAt(w)
        BY DEF OrderInv
    <2> QED
        BY <2>3, <2>6, <2>7, <2>8, <2>9 DEF OrderAt, IsLog
<1>8. CASE UNCHANGED vars
    BY <1>0, <1>8, OrderFrame DEF vars, OrderInv
<1>9. ASSUME NEW w \in Writers,
             Log(w) \/ Resume(w) \/ HandleLog(w) \/ AppendEntry(w)
               \/ \E cmd \in {"checkpoint", "flush", "shutdown"} : SendControl(w, cmd)
      PROVE  OrderInv'
    <2>1. OrderAt(w)'
        BY <1>3, <1>4, <1>5, <1>6, <1>7, <1>9
    <2>2. \A v \in Writers : v # w => OrderAt(v)'
        BY <1>2, <1>9
    <2> QED
        BY <2>1, <2>2 DEF OrderInv
<1> QED
    BY <1>1, <1>8, <1>9 DEF Next, WriterStep, Environment, Quiescent

\* A new row is the newest of its writer, or leaves the newest one in place.
LEMMA TipStep ==
    ASSUME TypeOK, HasTip, [Next]_vars
    PROVE  HasTip'
<1>1. UNCHANGED entries \/ \E w \in Writers : AppendEntry(w)
    BY DEF Next, Quiescent, WriterStep, Environment, vars, Start, Crash, Log,
           SendControl, Resume, HandleLog, HandleFlush, ReadLatest, ReadTips,
           InsertCheckpoint, CheckpointFails, CommitLocked
<1>2. CASE UNCHANGED entries
    BY <1>2, TableUnchanged DEF HasTip
<1>3. ASSUME NEW w \in Writers, AppendEntry(w), entries' = Append(entries, entry[w])
      PROVE  HasTip'
    <2> DEFINE e == entry[w]
    <2>1. e.writer = w /\ e.seq \in Nat /\ \A f \in Rows(w) : f.seq \in Nat
        BY <1>3 DEF AppendEntry, TypeOK, Rows
    <2>2. Table' = Table \cup {e}
        BY <1>3, TableAppend DEF TypeOK
    <2>3. Rows(w)' = Rows(w) \cup {e} /\ \A v : v # w => Rows(v)' = Rows(v)
        BY <2>1, <2>2, RowsAppend
    <2> HIDE DEF e
    <2>4. \E f \in Rows(w)' : \A g \in Rows(w)' : g.seq <= f.seq
        <3>1. CASE Rows(w) = {}
            BY <2>1, <2>3, <3>1
        <3>2. ASSUME NEW r \in Rows(w) PROVE \E f \in Rows(w)' : \A g \in Rows(w)' : g.seq <= f.seq
            <4>1. PICK f \in Rows(w) : \A g \in Rows(w) : g.seq <= f.seq
                BY <3>2 DEF HasTip, Rows
            <4>2. CASE e.seq <= f.seq
                BY <2>3, <4>1, <4>2
            <4>3. CASE ~(e.seq <= f.seq)
                <5>1. \A g \in Rows(w)' : g.seq <= e.seq
                    BY <2>1, <2>3, <4>1, <4>3
                <5> QED
                    BY <2>3, <5>1
            <4> QED
                BY <4>2, <4>3
        <3> QED
            BY <3>1, <3>2
    <2>5. ASSUME NEW x \in Table'
          PROVE  \E f \in Rows(x.writer)' : \A g \in Rows(x.writer)' : g.seq <= f.seq
        <3>1. CASE x.writer = w
            BY <2>4, <3>1
        <3>2. CASE x.writer # w
            <4>1. x \in Table /\ Rows(x.writer)' = Rows(x.writer)
                BY <2>1, <2>2, <2>3, <3>2
            <4> QED
                BY <4>1 DEF HasTip
        <3> QED
            BY <3>1, <3>2
    <2> QED
        BY <2>5 DEF HasTip, Rows
<1> QED
    BY <1>1, <1>2, <1>3 DEF AppendEntry

\* The current tips name every writer that has a row, hence every writer that
\* a checkpoint has committed.
LEMMA CurrentKeeps ==
    ASSUME TypeOK, CheckpointInv, HasTip, NEW d, d.tips = AllWriterTips
    PROVE  KeepsWriters(d)
<1> SUFFICES ASSUME NEW c \in checkpoints, NEW t \in c.tips
             PROVE  \E u \in AllWriterTips : u.writer = t.writer
    BY DEF KeepsWriters
<1>1. PICK e \in Table : e.writer = t.writer
    BY DEF CheckpointInv, Covers
<1>2. PICK f \in Rows(e.writer) : \A g \in Rows(e.writer) : g.seq <= f.seq
    BY <1>1 DEF HasTip
<1>3. f \in TipRows /\ f.writer = t.writer
    BY <1>1, <1>2 DEF TipRows, Rows
<1>4. [writer |-> f.writer, seq |-> f.seq, hash |-> f.hash] \in AllWriterTips
    BY <1>3 DEF AllWriterTips
<1> QED
    BY <1>3, <1>4

\* Inserting such a draft under a free number: what is numbered above it would
\* already have a row at its number.
LEMMA InsertKeeps ==
    ASSUME TypeOK, CheckpointInv, KeepInv, NEW d, d.seq \in Nat,
           Insertable(d), KeepsWriters(d),
           \E c \in Signed(d) : checkpoints' = checkpoints \cup {c},
           \A v \in Writers : pc'[v] \in {"tips", "insert"} =>
                                 pc'[v] = pc[v] /\ draft'[v] = draft[v]
    PROVE  /\ \A c \in checkpoints' : KeepsWriters(c)'
           /\ \A w \in Writers : pc'[w] = "insert" => KeepsWriters(draft[w])'
<1>1. PICK c \in Signed(d) : checkpoints' = checkpoints \cup {c}
    OBVIOUS
<1>2. c.seq = d.seq /\ c.tips = d.tips
    BY SignedFields
<1>3. ASSUME NEW x, x.seq \in Nat, Follows(x) PROVE x.seq <= d.seq
    BY <1>3 DEF Follows, Insertable
<1>4. ASSUME NEW x, x.seq \in Nat, x.seq <= d.seq, KeepsWriters(x) PROVE KeepsWriters(x)'
    BY <1>4, <1>1, <1>2 DEF KeepsWriters
<1>5. ASSUME NEW x \in checkpoints PROVE KeepsWriters(x)'
    <2>1. x.seq \in Nat /\ Follows(x) /\ KeepsWriters(x)
        BY DEF TypeOK, CheckpointInv, KeepInv
    <2> QED
        BY <2>1, <1>3, <1>4
<1>6. KeepsWriters(c)'
    BY <1>1, <1>2 DEF KeepsWriters
<1>7. ASSUME NEW w \in Writers, pc'[w] = "insert" PROVE KeepsWriters(draft[w])'
    <2>1. draft'[w] = draft[w] /\ KeepsWriters(draft[w]) /\ Follows(draft[w]) /\ draft[w].seq \in Nat
        BY <1>7 DEF CheckpointInv, KeepInv, TypeOK
    <2>2. draft[w].seq <= d.seq
        BY <2>1, <1>3
    <2> QED
        BY <2>1, <2>2, <1>1, <1>2 DEF KeepsWriters
<1> QED
    BY <1>1, <1>5, <1>6, <1>7

LEMMA KeepStep ==
    ASSUME TypeOK, CheckpointInv, KeepInv, [Next]_vars
    PROVE  KeepInv'
<1>0. HasTip'
    BY TipStep DEF KeepInv
<1>1. ASSUME UNCHANGED checkpoints,
             \A v \in Writers : pc'[v] = "insert" =>
                pc[v] = "insert" /\ draft'[v] = draft[v]
      PROVE  KeepInv'
    <2>1. \A x : KeepsWriters(x) => KeepsWriters(x)'
        BY <1>1 DEF KeepsWriters
    <2>2. ASSUME NEW v \in Writers, pc'[v] = "insert" PROVE KeepsWriters(draft[v])'
        <3>1. KeepsWriters(draft[v]) /\ draft'[v] = draft[v]
            BY <1>1, <2>2 DEF KeepInv
        <3> QED
            BY <1>1, <3>1 DEF KeepsWriters
    <2> QED
        BY <1>0, <1>1, <2>1, <2>2 DEF KeepInv
<1>2. ASSUME NEW w \in Writers, ReadTips(w), pc' = [pc EXCEPT ![w] = "insert"],
             draft' = [draft EXCEPT ![w] = WithTips(@, AllWriterTips)]
      PROVE  KeepInv'
    <2> DEFINE d == WithTips(draft[w], AllWriterTips)
    <2>1. KeepsWriters(d)
        BY CurrentKeeps DEF KeepInv, WithTips
    <2>2. checkpoints' = checkpoints
        BY <1>2 DEF ReadTips
    <2>3. draft'[w] = d /\ \A v \in Writers : v # w => pc'[v] = pc[v] /\ draft'[v] = draft[v]
        BY <1>2 DEF TypeOK
    <2> HIDE DEF d
    <2>4. \A v \in Writers : pc'[v] = "insert" => KeepsWriters(draft'[v])
        BY <2>1, <2>3 DEF KeepInv
    <2> QED
        BY <1>0, <2>2, <2>4 DEF KeepInv, KeepsWriters
<1>3. ASSUME NEW w \in Writers, InsertCheckpoint(w) PROVE KeepInv'
    <2>1. \A v \in Writers : pc'[v] \in {"tips", "insert"} =>
                                 pc'[v] = pc[v] /\ draft'[v] = draft[v]
        BY <1>3, FinishFrame DEF InsertCheckpoint
    <2>2. CASE UNCHANGED checkpoints
        BY <1>1, <2>1, <2>2
    <2>3. CASE Insertable(draft[w]) /\ \E c \in Signed(draft[w]) : checkpoints' = checkpoints \cup {c}
        <3>1. KeepsWriters(draft[w]) /\ draft[w].seq \in Nat
            BY <1>3 DEF InsertCheckpoint, KeepInv, TypeOK
        <3>2. /\ \A c \in checkpoints' : KeepsWriters(c)'
              /\ \A v \in Writers : pc'[v] = "insert" => KeepsWriters(draft[v])'
            BY <2>1, <2>3, <3>1, InsertKeeps
        <3> QED
            BY <1>0, <3>2 DEF KeepInv
    <2> QED
        BY <1>3, <2>2, <2>3 DEF InsertCheckpoint
<1>4. ASSUME NEW w \in Writers, CommitLocked(w) PROVE KeepInv'
    <2>1. \A v \in Writers : pc'[v] \in {"tips", "insert"} =>
                                 pc'[v] = pc[v] /\ draft'[v] = draft[v]
        BY <1>4, FinishFrame DEF CommitLocked
    <2>2. CASE UNCHANGED checkpoints
        BY <1>1, <2>1, <2>2
    <2>3. ASSUME NEW n \in NextDrafts,
                 \E c \in Signed(WithTips(n, AllWriterTips)) : checkpoints' = checkpoints \cup {c}
          PROVE  KeepInv'
        <3> DEFINE d == WithTips(n, AllWriterTips)
        <3>1. Insertable(n) /\ n.seq \in Nat
            BY NextDraftFollows
        <3>2. Insertable(d) /\ d.seq \in Nat
            BY <3>1 DEF Insertable, WithTips
        <3>3. KeepsWriters(d)
            BY CurrentKeeps DEF WithTips, KeepInv
        <3> HIDE DEF d
        <3>4. \E c \in Signed(d) : checkpoints' = checkpoints \cup {c}
            BY <2>3 DEF d
        <3>5. /\ \A c \in checkpoints' : KeepsWriters(c)'
              /\ \A v \in Writers : pc'[v] = "insert" => KeepsWriters(draft[v])'
            BY <2>1, <3>2, <3>3, <3>4, InsertKeeps
        <3> QED
            BY <1>0, <3>5 DEF KeepInv
    <2> QED
        BY <1>4, <2>2, <2>3 DEF CommitLocked
<1>5. ASSUME NEW w \in Writers,
             Start(w) \/ Crash(w) \/ Log(w) \/ Resume(w) \/ HandleLog(w)
               \/ AppendEntry(w) \/ HandleFlush(w) \/ ReadLatest(w) \/ CheckpointFails(w)
               \/ \E cmd \in {"checkpoint", "flush", "shutdown"} : SendControl(w, cmd)
      PROVE  KeepInv'
    <2>1. /\ UNCHANGED checkpoints
          /\ \A v \in Writers : pc'[v] = "insert" => pc[v] = "insert" /\ draft'[v] = draft[v]
        BY <1>5 DEF Start, Crash, Log, Resume, HandleLog, AppendEntry, HandleFlush,
                    ReadLatest, CheckpointFails, FinishCheckpoint, SendControl, TypeOK
    <2> QED
        BY <1>1, <2>1
<1>6. ASSUME NEW w \in Writers, ReadTips(w) PROVE KeepInv'
    <2>1. CASE FinishCheckpoint(w, stopping[w], queue[w])
        <3>1. UNCHANGED checkpoints
            BY <1>6 DEF ReadTips
        <3> QED
            BY <1>1, <2>1, <3>1, FinishFrame
    <2> QED
        BY <1>2, <1>6, <2>1 DEF ReadTips
<1>7. CASE UNCHANGED vars
    BY <1>1, <1>7 DEF vars
<1> QED
    BY <1>3, <1>4, <1>5, <1>6, <1>7 DEF Next, WriterStep, Environment, Quiescent

\* The rows of a writer are in the order its channel accepted the events, and
\* no checkpoint leaves out a writer that an earlier one has committed: over
\* crashes, restarts, lost races and failing appends, signatures and commits.
\* Only the resume query must not fail.
THEOREM OrderKeptHolds ==
    ASSUME "resume" \notin Faults
    PROVE  Spec => []OrderKept
<1>1. Init => OrderInv /\ KeepInv
    BY DEF Init, OrderInv, OrderAt, KeepInv, HasTip, Table, Range, Rows
<1>2. TypeOK /\ OrderInv /\ [Next]_vars => OrderInv'
    BY OrderStep
<1>3. TypeOK /\ CheckpointInv /\ KeepInv /\ [Next]_vars => KeepInv'
    BY KeepStep
<1>4. ASSUME TypeOK, CheckpointInv, OrderInv, KeepInv PROVE OrderKept
    <2>1. ASSUME NEW e \in Table, NEW f \in Table, e.writer = f.writer, e.seq < f.seq
          PROVE  e.ev < f.ev
        <3>1. e.writer \in Writers /\ e \in Rows(e.writer) /\ f \in Rows(e.writer)
            BY <1>4, <2>1 DEF TypeOK, Rows
        <3> QED
            BY <1>4, <2>1, <3>1 DEF OrderInv, OrderAt
    <2>2. ASSUME NEW c \in checkpoints, NEW d \in checkpoints, c.seq <= d.seq, NEW t \in c.tips
          PROVE  \E u \in d.tips : u.writer = t.writer
        <3>1. c.seq \in Nat /\ d.seq \in Nat
            BY <1>4 DEF TypeOK
        <3>2. CASE c.seq = d.seq
            BY <1>4, <3>2 DEF CheckpointInv
        <3>3. CASE c.seq < d.seq
            BY <1>4, <3>3 DEF KeepInv, KeepsWriters
        <3> QED
            BY <2>2, <3>1, <3>2, <3>3
    <2> QED
        BY <2>1, <2>2 DEF OrderKept, StoredInOrder, AnchorsKeepWriters
<1> QED
    BY <1>1, <1>2, <1>3, <1>4, CheckpointInductive, PTL DEF Spec

-----------------------------------------------------------------------------
(* The final anchor, under the connection lock of SQLite. *)

\* With the lock a writer is never between two statements of a commit, and
\* what a writer that has stopped stored last is anchored.
FinalInv ==
    /\ \A w \in Writers : pc[w] \notin {"tips", "insert"}
    /\ FinalStateAnchored

\* A writer that has stopped stays as it is, and so do its rows.
LEMMA FinalFrame ==
    ASSUME FinalInv, checkpoints \subseteq checkpoints',
           \A v \in Writers : pc'[v] \notin {"tips", "insert"},
           \A v \in Writers : pc'[v] = "stopped" => pc[v] = "stopped" /\ Rows(v)' = Rows(v)
    PROVE  FinalInv'
<1> SUFFICES ASSUME NEW v \in Writers, pc'[v] = "stopped", NEW e \in Rows(v)',
                    \A f \in Rows(v)' : f.seq <= e.seq
             PROVE  \E c \in checkpoints' : \E t \in c.tips : t.writer = v /\ t.hash = e.hash
    BY DEF FinalInv, FinalStateAnchored
<1>1. pc[v] = "stopped" /\ e \in Rows(v) /\ \A f \in Rows(v) : f.seq <= e.seq
    OBVIOUS
<1>2. PICK c \in checkpoints : \E t \in c.tips : t.writer = v /\ t.hash = e.hash
    BY <1>1 DEF FinalInv, FinalStateAnchored
<1> QED
    BY <1>2

LEMMA FinalStep ==
    ASSUME Backend = "sqlite", "checkpoint" \notin Faults, TypeOK, FinalInv, [Next]_vars
    PROVE  FinalInv'
<1>0. UNCHANGED entries => \A v : Rows(v)' = Rows(v)
    BY TableUnchanged
<1>1. ASSUME NEW w \in Writers,
             Start(w) \/ Crash(w) \/ Log(w) \/ Resume(w) \/ HandleLog(w) \/ HandleFlush(w)
               \/ \E cmd \in {"checkpoint", "flush", "shutdown"} : SendControl(w, cmd)
      PROVE  FinalInv'
    <2>1. UNCHANGED <<entries, checkpoints>>
        BY <1>1 DEF Start, Crash, Log, Resume, HandleLog, HandleFlush, SendControl
    <2>2. \A v \in Writers : pc'[v] \notin {"tips", "insert"}
        BY <1>1 DEF FinalInv, Start, Crash, Log, Resume, HandleLog, HandleFlush, SendControl, TypeOK
    <2>3. \A v \in Writers : pc'[v] = "stopped" => pc[v] = "stopped"
        BY <1>1 DEF Start, Crash, Log, Resume, HandleLog, HandleFlush, SendControl, TypeOK
    <2> QED
        BY <1>0, <2>1, <2>2, <2>3, FinalFrame
<1>2. ASSUME NEW w \in Writers, AppendEntry(w) PROVE FinalInv'
    <2>1. checkpoints' = checkpoints /\ pc' = [pc EXCEPT ![w] = "recv"]
        BY <1>2 DEF AppendEntry
    <2>2. \A v \in Writers : pc'[v] \notin {"tips", "insert"}
        BY <2>1 DEF FinalInv, TypeOK
    <2>3. \A v \in Writers : pc'[v] = "stopped" => pc[v] = "stopped" /\ v # w
        BY <2>1 DEF TypeOK
    <2>4. \A v : v # w => Rows(v)' = Rows(v)
        <3>1. CASE UNCHANGED entries
            BY <1>0, <3>1
        <3>2. CASE entries' = Append(entries, entry[w])
            <4>1. entries \in Seq(Table) /\ entry[w].writer = w
                BY <1>2 DEF AppendEntry, TypeOK
            <4>2. Table' = Table \cup {entry[w]}
                BY <3>2, <4>1, TableAppend
            <4> QED
                BY <4>1, <4>2, RowsAppend
        <3> QED
            BY <1>2, <3>1, <3>2 DEF AppendEntry
    <2> QED
        BY <2>1, <2>2, <2>3, <2>4, FinalFrame
<1>3. ASSUME NEW w \in Writers, CommitLocked(w) PROVE FinalInv'
    <2>1. UNCHANGED entries /\ FinishCheckpoint(w, HeadIsShutdown(w), Tail(queue[w]))
        BY <1>3 DEF CommitLocked
    <2>2. \A v \in Writers : pc'[v] \notin {"tips", "insert"}
        BY <2>1 DEF FinalInv, FinishCheckpoint, TypeOK
    <2>3. checkpoints \subseteq checkpoints'
        BY <1>3 DEF CommitLocked
    <2>4. \A v \in Writers : v # w => pc'[v] = pc[v]
        BY <2>1 DEF FinishCheckpoint, TypeOK
    <2>5. ASSUME NEW e \in Rows(w), \A f \in Rows(w) : f.seq <= e.seq
          PROVE  \E c \in checkpoints' : \E t \in c.tips : t.writer = w /\ t.hash = e.hash
        <3> DEFINE t == [writer |-> e.writer, seq |-> e.seq, hash |-> e.hash]
        <3>1. e \in TipRows /\ e.writer = w
            BY <2>5 DEF TipRows, Rows
        <3>2. t \in AllWriterTips /\ t.writer = w /\ t.hash = e.hash
            BY <3>1 DEF AllWriterTips
        <3> HIDE DEF t
        <3>3. PICK n \in NextDrafts : \E c \in Signed(WithTips(n, AllWriterTips)) :
                 checkpoints' = checkpoints \cup {c}
            BY <1>3, <3>2 DEF CommitLocked
        <3>4. PICK c \in Signed(WithTips(n, AllWriterTips)) : checkpoints' = checkpoints \cup {c}
            BY <3>3
        <3>5. c.tips = AllWriterTips
            BY SignedFields DEF WithTips
        <3> QED
            BY <3>2, <3>4, <3>5
    <2>6. ASSUME NEW v \in Writers, pc'[v] = "stopped", NEW e \in Rows(v)',
                 \A f \in Rows(v)' : f.seq <= e.seq
          PROVE  \E c \in checkpoints' : \E t \in c.tips : t.writer = v /\ t.hash = e.hash
        <3>1. e \in Rows(v) /\ \A f \in Rows(v) : f.seq <= e.seq
            BY <1>0, <2>1, <2>6
        <3>2. CASE v = w
            BY <2>5, <3>1, <3>2
        <3>3. CASE v # w
            <4>1. PICK c \in checkpoints : \E t \in c.tips : t.writer = v /\ t.hash = e.hash
                BY <2>4, <2>6, <3>1, <3>3 DEF FinalInv, FinalStateAnchored
            <4> QED
                BY <2>3, <4>1
        <3> QED
            BY <3>2, <3>3
    <2> QED
        BY <2>2, <2>6 DEF FinalInv, FinalStateAnchored
<1>4. ASSUME NEW w \in Writers,
             ReadLatest(w) \/ ReadTips(w) \/ InsertCheckpoint(w) \/ CheckpointFails(w)
      PROVE  FALSE
    BY <1>4 DEF FinalInv, ReadLatest, ReadTips, InsertCheckpoint, CheckpointFails
<1>5. CASE UNCHANGED vars
    <2>1. /\ checkpoints' = checkpoints
          /\ \A v \in Writers : pc'[v] = pc[v] /\ Rows(v)' = Rows(v)
        BY <1>0, <1>5 DEF vars
    <2>2. \A v \in Writers : pc[v] \notin {"tips", "insert"}
        BY DEF FinalInv
    <2> QED
        BY <2>1, <2>2, FinalFrame
<1> QED
    BY <1>1, <1>2, <1>3, <1>4, <1>5 DEF Next, WriterStep, Environment, Quiescent

\* "Anchor the final state before exiting": on SQLite, a writer that has shut
\* down has its last row committed by a checkpoint, as long as the statements
\* of the commit do not fail.  On Postgres the writer may lose a race, and TLC
\* shows the run in which its last row stays without an anchor.
THEOREM FinalStateAnchoredHolds ==
    ASSUME Backend = "sqlite", "checkpoint" \notin Faults
    PROVE  Spec => []FinalStateAnchored
<1>1. Init => FinalInv
    BY DEF Init, FinalInv, FinalStateAnchored
<1>2. TypeOK /\ FinalInv /\ [Next]_vars => FinalInv'
    BY FinalStep
<1>3. FinalInv => FinalStateAnchored
    BY DEF FinalInv
<1> QED
    BY <1>1, <1>2, <1>3, TypeCorrect, PTL DEF Spec

-----------------------------------------------------------------------------
(* Merkle batches, when appends and the resume query do not fail. *)

\* b holds the hashes of the Len(b) consecutive entries of R that end before n.
CoveredBy(b, n, R) ==
    \A i \in 1..Len(b) : \E f \in R : f.seq + Len(b) + 1 = n + i /\ f.hash = b[i]

\* The buffered batch of a running writer ends with its newest entry and is
\* short of a full batch; the root of the entry in flight covers a full one.
BatchAt(w) ==
    /\ pc[w] \in {"recv", "tips", "insert", "append"} =>
          chain[w].batch \in Seq(Range(chain[w].batch)) /\ Len(chain[w].batch) < BatchSize
    /\ pc[w] \in {"recv", "tips", "insert"} =>
          CoveredBy(chain[w].batch, chain[w].next, Rows(w))
    /\ pc[w] = "append" =>
          /\ CoveredBy(chain[w].batch, chain[w].next, Rows(w) \cup {entry[w]})
          /\ entry[w].root # <<>> =>
                /\ Len(entry[w].root) = BatchSize
                /\ CoveredBy(entry[w].root, entry[w].seq + 1, Rows(w) \cup {entry[w]})

BatchInv == RootCoversBatch /\ \A w \in Writers : BatchAt(w)

\* One more hash at the end of a batch.
LEMMA BatchAppend ==
    ASSUME NEW b, b \in Seq(Range(b)), NEW h
    PROVE  /\ Append(b, h) \in Seq(Range(Append(b, h)))
           /\ Len(b) \in Nat /\ Len(Append(b, h)) = Len(b) + 1
           /\ \A i \in 1..Len(b) : Append(b, h)[i] = b[i]
           /\ Append(b, h)[Len(b) + 1] = h
<1> DEFINE S == Range(b) \cup {h}
           a == Append(b, h)
<1>1. b \in Seq(S) /\ h \in S
    OBVIOUS
<1> HIDE DEF S
<1>2. /\ a \in Seq(S) /\ Len(b) \in Nat /\ Len(a) = Len(b) + 1
      /\ DOMAIN a = 1..(Len(b) + 1) /\ DOMAIN b = 1..Len(b)
      /\ \A i \in 1..Len(b) : a[i] = b[i]
      /\ a[Len(b) + 1] = h
    BY <1>1
<1> HIDE DEF a
<1>3. S \subseteq Range(a)
    BY <1>2 DEF S, Range
<1>4. a \in Seq(Range(a))
    BY <1>2, <1>3
<1> QED
    BY <1>2, <1>4 DEF a

\* The empty batch covers nothing.
LEMMA EmptyBatch ==
    /\ <<>> \in Seq(Range(<<>>)) /\ Len(<<>>) = 0
    /\ \A n, R : CoveredBy(<<>>, n, R)
<1>1. Len(<<>>) = 0 /\ 1..0 = {}
    OBVIOUS
<1>2. <<>> \in Seq(Range(<<>>))
    OBVIOUS
<1> QED
    BY <1>1, <1>2 DEF CoveredBy

\* A writer that takes no step on its chain.
LEMMA BatchFrame ==
    ASSUME NEW w \in Writers, BatchAt(w), Rows(w)' = Rows(w),
           pc'[w] \in {"recv", "tips", "insert"} =>
              pc[w] \in {"recv", "tips", "insert"} /\ chain'[w] = chain[w],
           pc'[w] = "append" =>
              pc[w] = "append" /\ chain'[w] = chain[w] /\ entry'[w] = entry[w]
    PROVE  BatchAt(w)'
BY DEF BatchAt, CoveredBy

\* The batch that a new entry closes or continues.
LEMMA BatchStep ==
    ASSUME NEW b, b \in Seq(Range(b)), NEW n \in Nat, NEW R, \A f \in R : f.seq \in Nat,
           CoveredBy(b, n, R), NEW e, e.seq = n
    PROVE  CoveredBy(Append(b, e.hash), n + 1, R \cup {e})
<1> DEFINE a == Append(b, e.hash)
<1>1. /\ Len(b) \in Nat /\ Len(a) = Len(b) + 1
      /\ \A i \in 1..Len(b) : a[i] = b[i]
      /\ a[Len(b) + 1] = e.hash
    BY BatchAppend
<1> HIDE DEF a
<1>2. ASSUME NEW i \in 1..Len(a)
      PROVE  \E f \in R \cup {e} : f.seq + Len(a) + 1 = n + 1 + i /\ f.hash = a[i]
    <2>1. CASE i = Len(b) + 1
        BY <1>1, <2>1
    <2>2. CASE i \in 1..Len(b)
        <3>1. PICK f \in R : f.seq + Len(b) + 1 = n + i /\ f.hash = b[i]
            BY <2>2 DEF CoveredBy
        <3>2. f.seq + Len(a) + 1 = n + 1 + i /\ f.hash = a[i]
            BY <1>1, <2>2, <3>1
        <3> QED
            BY <3>2
    <2> QED
        BY <1>1, <2>1, <2>2
<1> QED
    BY <1>2 DEF CoveredBy, a

LEMMA BatchInductive ==
    ASSUME {"append", "resume"} \cap Faults = {}, TypeOK, ChainInv, BatchInv, [Next]_vars
    PROVE  BatchInv'
<1>0. UNCHANGED entries => Table' = Table /\ \A v : Rows(v)' = Rows(v)
    BY TableUnchanged
<1>1. UNCHANGED entries => RootCoversBatch'
    <2> SUFFICES ASSUME UNCHANGED entries PROVE RootCoversBatch'
        OBVIOUS
    <2>1. Table' = Table /\ \A v : Rows(v)' = Rows(v)
        BY <1>0
    <2>2. RootCoversBatch
        BY DEF BatchInv
    <2> QED
        BY <2>1, <2>2 DEF RootCoversBatch
<1>2. ASSUME NEW w \in Writers,
             Start(w) \/ Crash(w) \/ Log(w) \/ HandleFlush(w)
               \/ ReadLatest(w) \/ ReadTips(w) \/ InsertCheckpoint(w)
               \/ CheckpointFails(w) \/ CommitLocked(w)
               \/ \E cmd \in {"checkpoint", "flush", "shutdown"} : SendControl(w, cmd)
      PROVE  BatchInv'
    <2>1. UNCHANGED entries
        BY <1>2 DEF Start, Crash, Log, HandleFlush, ReadLatest, ReadTips, InsertCheckpoint,
                    CheckpointFails, CommitLocked, SendControl
    <2>2. ASSUME NEW v \in Writers
          PROVE  /\ pc'[v] \in {"recv", "tips", "insert"} =>
                       pc[v] \in {"recv", "tips", "insert"} /\ chain'[v] = chain[v]
                 /\ pc'[v] = "append" =>
                       pc[v] = "append" /\ chain'[v] = chain[v] /\ entry'[v] = entry[v]
        BY <1>2 DEF Start, Crash, Log, HandleFlush, ReadLatest, ReadTips, InsertCheckpoint,
                    CheckpointFails, CommitLocked, SendControl, Receives, FinishCheckpoint, TypeOK
    <2>3. ASSUME NEW v \in Writers PROVE BatchAt(v)'
        <3>1. BatchAt(v) /\ Rows(v)' = Rows(v)
            BY <1>0, <2>1 DEF BatchInv
        <3> QED
            BY <2>2, <3>1, BatchFrame
    <2> QED
        BY <1>1, <2>1, <2>3 DEF BatchInv
<1>3. ASSUME NEW w \in Writers, NEW v \in Writers, v # w,
             Resume(w) \/ HandleLog(w) \/ AppendEntry(w)
      PROVE  BatchAt(v)'
    <2>1. Rows(v)' = Rows(v)
        <3>1. CASE UNCHANGED entries
            BY <1>0, <3>1
        <3>2. CASE AppendEntry(w) /\ entries' = Append(entries, entry[w])
            <4>1. entries \in Seq(Table) /\ entry[w].writer = w
                BY <3>2 DEF AppendEntry, TypeOK
            <4>2. Table' = Table \cup {entry[w]}
                BY <3>2, <4>1, TableAppend
            <4> QED
                BY <1>3, <4>1, <4>2, RowsAppend
        <3> QED
            BY <1>3, <3>1, <3>2 DEF Resume, HandleLog, AppendEntry
    <2>2. pc'[v] = pc[v] /\ chain'[v] = chain[v] /\ entry'[v] = entry[v]
        BY <1>3 DEF Resume, HandleLog, AppendEntry, TypeOK
    <2> QED
        BY <2>1, <2>2, BatchFrame DEF BatchInv
<1>4. ASSUME NEW w \in Writers, Resume(w) PROVE BatchAt(w)'
    <2>1. Rows(w)' = Rows(w) /\ pc'[w] = "recv"
        BY <1>0, <1>4 DEF Resume, TypeOK
    <2>2. chain'[w].batch = <<>>
        BY <1>4 DEF Resume, NewChain, ResumeChain, TypeOK
    <2>3. 0 < BatchSize
        BY BoundsAssumption
    <2> QED
        BY <2>1, <2>2, <2>3, EmptyBatch DEF BatchAt
<1>5. ASSUME NEW w \in Writers, HandleLog(w) PROVE BatchAt(w)'
    <2> DEFINE ch == chain[w]
               e == BuildEntry(w, ch, Head(queue[w]).ev)
    <2>1. UNCHANGED entries /\ Rows(w)' = Rows(w) /\ pc[w] = "recv"
        BY <1>0, <1>5 DEF HandleLog, Receives
    <2>2. CASE UNCHANGED <<entry, chain, pc>>
        BY <2>1, <2>2, BatchFrame DEF BatchInv
    <2>3. CASE /\ entry' = [entry EXCEPT ![w] = e]
               /\ chain' = [chain EXCEPT ![w] = Advance(@, e.hash)]
               /\ pc' = [pc EXCEPT ![w] = "append"]
        <3> DEFINE a == Append(ch.batch, e.hash)
        <3>1. e.seq = ch.next /\ e.root = IF Len(a) >= BatchSize THEN a ELSE <<>>
            BY DEF BuildEntry, RootOf, BatchDue, BatchWith
        <3>2. /\ Advance(ch, e.hash).next = ch.next + 1
              /\ Advance(ch, e.hash).batch = IF Len(a) >= BatchSize THEN <<>> ELSE a
            BY DEF Advance, BatchDue, BatchWith
        <3> HIDE DEF e
        <3>3. /\ entry'[w] = e /\ chain'[w].next = ch.next + 1 /\ pc'[w] = "append"
              /\ chain'[w].batch = IF Len(a) >= BatchSize THEN <<>> ELSE a
            BY <2>3, <3>2 DEF TypeOK
        <3>4. /\ ch.batch \in Seq(Range(ch.batch)) /\ Len(ch.batch) < BatchSize
              /\ CoveredBy(ch.batch, ch.next, Rows(w))
              /\ ch.next \in Nat /\ \A f \in Rows(w) : f.seq \in Nat
            BY <2>1 DEF BatchInv, BatchAt, TypeOK, Rows
        <3> HIDE DEF ch
        <3>5. CoveredBy(a, ch.next + 1, Rows(w) \cup {e})
            BY <3>1, <3>4, BatchStep
        <3>6. a \in Seq(Range(a)) /\ Len(ch.batch) \in Nat /\ Len(a) = Len(ch.batch) + 1
            BY <3>4, BatchAppend
        <3> HIDE DEF a
        <3>7. BatchSize \in Nat \ {0}
            BY BoundsAssumption
        <3>8. CASE Len(a) >= BatchSize
            <4>1. Len(a) = BatchSize /\ e.root = a /\ chain'[w].batch = <<>>
                BY <3>1, <3>3, <3>4, <3>6, <3>7, <3>8
            <4> QED
                BY <2>1, <3>1, <3>3, <3>5, <3>7, <4>1, EmptyBatch DEF BatchAt
        <3>9. CASE ~(Len(a) >= BatchSize)
            <4>1. Len(a) < BatchSize /\ e.root = <<>> /\ chain'[w].batch = a
                BY <3>1, <3>3, <3>6, <3>7, <3>9
            <4> QED
                BY <2>1, <3>3, <3>5, <3>6, <4>1 DEF BatchAt
        <3> QED
            BY <3>8, <3>9
    <2> QED
        BY <1>5, <2>2, <2>3 DEF HandleLog
<1>6. ASSUME NEW w \in Writers, AppendEntry(w) PROVE BatchInv'
    <2> DEFINE e == entry[w]
    <2>1. /\ Continues(w, e.seq, e.prev) /\ e.writer = w /\ e.seq \in Nat /\ pc[w] = "append"
        BY <1>6 DEF AppendEntry, ChainInv, TypeOK
    <2>2. \A f \in Rows(w) : f.seq \in Nat /\ f.seq < e.seq
        BY <2>1 DEF Continues, Rows, TypeOK
    <2>3. entries' = Append(entries, e)
        BY <1>6, <2>2 DEF AppendEntry
    <2>4. Table' = Table \cup {e}
        BY <2>3, TableAppend DEF TypeOK
    <2>5. Rows(w)' = Rows(w) \cup {e} /\ \A v : v # w => Rows(v)' = Rows(v)
        BY <2>1, <2>4, RowsAppend
    <2>6. pc'[w] = "recv" /\ chain' = chain
        BY <1>6 DEF AppendEntry, TypeOK
    <2>7. /\ chain[w].batch \in Seq(Range(chain[w].batch)) /\ Len(chain[w].batch) < BatchSize
          /\ CoveredBy(chain[w].batch, chain[w].next, Rows(w) \cup {e})
          /\ e.root # <<>> =>
                Len(e.root) = BatchSize /\ CoveredBy(e.root, e.seq + 1, Rows(w) \cup {e})
        BY <2>1 DEF BatchInv, BatchAt
    <2> HIDE DEF e
    <2>8. BatchAt(w)'
        BY <2>5, <2>6, <2>7 DEF BatchAt
    <2>9. ASSUME NEW x \in Table', x.root # <<>>
          PROVE  /\ Len(x.root) = BatchSize
                 /\ \A i \in 1..BatchSize : \E f \in Rows(x.writer)' :
                       f.seq + BatchSize = x.seq + i /\ f.hash = x.root[i]
        <3>1. CASE x = e
            <4>1. Len(x.root) = BatchSize /\ CoveredBy(x.root, x.seq + 1, Rows(w) \cup {e})
                BY <2>7, <2>9, <3>1
            <4>2. \A f \in Rows(w) \cup {e} : f.seq \in Nat
                BY <2>1, <2>2
            <4>3. ASSUME NEW i \in 1..BatchSize
                  PROVE  \E f \in Rows(w) \cup {e} :
                            f.seq + BatchSize = x.seq + i /\ f.hash = x.root[i]
                <5>1. PICK f \in Rows(w) \cup {e} :
                         f.seq + BatchSize + 1 = x.seq + 1 + i /\ f.hash = x.root[i]
                    BY <4>1 DEF CoveredBy
                <5>2. f.seq + BatchSize = x.seq + i
                    BY <2>1, <3>1, <4>2, <5>1, BoundsAssumption
                <5> QED
                    BY <5>1, <5>2
            <4> QED
                BY <2>1, <2>5, <3>1, <4>1, <4>3
        <3>2. CASE x \in Table
            <4>1. Rows(x.writer) \subseteq Rows(x.writer)'
                BY <2>5
            <4> QED
                BY <2>9, <3>2, <4>1 DEF BatchInv, RootCoversBatch
        <3> QED
            BY <2>4, <3>1, <3>2
    <2>10. RootCoversBatch'
        BY <2>9 DEF RootCoversBatch, Rows
    <2> QED
        BY <1>3, <1>6, <2>8, <2>10 DEF BatchInv
<1>7. ASSUME NEW w \in Writers, Resume(w) \/ HandleLog(w) PROVE BatchInv'
    <2>1. UNCHANGED entries
        BY <1>7 DEF Resume, HandleLog
    <2>2. BatchAt(w)'
        BY <1>4, <1>5, <1>7
    <2> QED
        BY <1>1, <1>3, <1>7, <2>1, <2>2 DEF BatchInv
<1>8. CASE UNCHANGED vars
    <2>1. ASSUME NEW v \in Writers PROVE BatchAt(v)'
        <3>1. BatchAt(v) /\ Rows(v)' = Rows(v) /\ UNCHANGED <<pc, chain, entry>>
            BY <1>0, <1>8 DEF BatchInv, vars
        <3> QED
            BY <3>1, BatchFrame
    <2> QED
        BY <1>1, <1>8, <2>1 DEF vars, BatchInv
<1> QED
    BY <1>2, <1>6, <1>7, <1>8 DEF Next, WriterStep, Environment, Quiescent

\* A Merkle root stored in an entry covers exactly the BatchSize consecutive
\* rows of its writer that end with it, for every batch size and over every
\* crash, provided no append and no resume query fails; events dropped by a
\* failing signature never enter a batch.
THEOREM RootCoversBatchHolds ==
    ASSUME {"append", "resume"} \cap Faults = {}
    PROVE  Spec => []RootCoversBatch
<1>1. Init => ChainInv /\ BatchInv
    BY DEF Init, ChainInv, BatchInv, BatchAt, RootCoversBatch, Table, Range
<1>2. TypeOK /\ ChainInv /\ [Next]_vars => ChainInv'
    BY ChainStep
<1>3. TypeOK /\ ChainInv /\ BatchInv /\ [Next]_vars => BatchInv'
    BY BatchInductive
<1>4. BatchInv => RootCoversBatch
    BY DEF BatchInv
<1> QED
    BY <1>1, <1>2, <1>3, <1>4, TypeCorrect, PTL DEF Spec

-----------------------------------------------------------------------------
(* Verification, when appends, the resume query and the signatures of        *)
(* checkpoints do not fail.                                                  *)

\* The rows of a writer are stored in the order of their numbers.
IndexInv ==
    \A i, j \in 1..Len(entries) :
        i < j /\ entries[i].writer = entries[j].writer => entries[i].seq < entries[j].seq

\* A committed checkpoint carries its own hash and a signature.
SignedInv ==
    \A c \in checkpoints : c.hash = CheckpointHash(c.seq, c.prev, c.tips) /\ c.signed

\* How the table of entries changes in a step.
LEMMA EntriesStep ==
    ASSUME TypeOK, [Next]_vars
    PROVE  \/ UNCHANGED entries
           \/ \E w \in Writers : /\ AppendEntry(w)
                                 /\ entries' = Append(entries, entry[w])
                                 /\ Len(entries) \in Nat /\ Len(entries') = Len(entries) + 1
                                 /\ entries'[Len(entries) + 1] = entry[w]
                                 /\ \A i \in 1..Len(entries) : entries'[i] = entries[i]
<1>1. UNCHANGED entries \/ \E w \in Writers : AppendEntry(w)
    BY DEF Next, Quiescent, WriterStep, Environment, vars, Start, Crash, Log,
           SendControl, Resume, HandleLog, HandleFlush, ReadLatest, ReadTips,
           InsertCheckpoint, CheckpointFails, CommitLocked
<1>2. ASSUME NEW w \in Writers, AppendEntry(w), entries' = Append(entries, entry[w])
      PROVE  /\ Len(entries) \in Nat /\ Len(entries') = Len(entries) + 1
             /\ entries'[Len(entries) + 1] = entry[w]
             /\ \A i \in 1..Len(entries) : entries'[i] = entries[i]
    <2> DEFINE S == Table \cup {entry[w]}
    <2>1. entries \in Seq(S) /\ entry[w] \in S
        BY DEF TypeOK
    <2> HIDE DEF S
    <2> QED
        BY <1>2, <2>1
<1> QED
    BY <1>1, <1>2 DEF AppendEntry

LEMMA IndexStep ==
    ASSUME TypeOK, ChainInv, IndexInv, [Next]_vars
    PROVE  IndexInv'
<1>1. CASE UNCHANGED entries
    BY <1>1 DEF IndexInv
<1>2. ASSUME NEW w \in Writers, AppendEntry(w),
             Len(entries) \in Nat, Len(entries') = Len(entries) + 1,
             entries'[Len(entries) + 1] = entry[w],
             \A i \in 1..Len(entries) : entries'[i] = entries[i]
      PROVE  IndexInv'
    <2>1. entry[w].writer = w /\ Continues(w, entry[w].seq, entry[w].prev)
        BY <1>2 DEF AppendEntry, TypeOK, ChainInv
    <2>2. \A i \in 1..Len(entries) : entries[i] \in Table
        BY DEF TypeOK
    <2>3. \A i \in 1..Len(entries) : entries[i].writer = w => entries[i].seq < entry[w].seq
        BY <2>1, <2>2 DEF Continues, Rows
    <2>4. ASSUME NEW i \in 1..Len(entries'), NEW j \in 1..Len(entries'), i < j,
                 entries'[i].writer = entries'[j].writer
          PROVE  entries'[i].seq < entries'[j].seq
        <3>1. i \in 1..Len(entries) /\ entries'[i] = entries[i]
            BY <1>2, <2>4
        <3>2. CASE j = Len(entries) + 1
            BY <1>2, <2>1, <2>3, <2>4, <3>1, <3>2
        <3>3. CASE j \in 1..Len(entries)
            BY <1>2, <2>4, <3>1, <3>3 DEF IndexInv
        <3> QED
            BY <1>2, <3>2, <3>3
    <2> QED
        BY <2>4 DEF IndexInv
<1> QED
    BY <1>1, <1>2, EntriesStep

LEMMA SignedStep ==
    ASSUME "sign_checkpoint" \notin Faults, SignedInv, [Next]_vars
    PROVE  SignedInv'
<1>1. ASSUME NEW d, NEW c \in Signed(d)
      PROVE  c.hash = CheckpointHash(c.seq, c.prev, c.tips) /\ c.signed
    <2>1. PICK s \in {TRUE} : c = BuildCheckpoint(d.seq, d.prev, d.tips, s)
        BY DEF Signed
    <2> QED
        BY <2>1 DEF BuildCheckpoint
<1>2. \/ UNCHANGED checkpoints
      \/ \E d : \E c \in Signed(d) : checkpoints' = checkpoints \cup {c}
    BY DEF Next, Quiescent, WriterStep, Environment, vars, Start, Crash, Log,
           SendControl, Resume, HandleLog, AppendEntry, HandleFlush, ReadLatest, ReadTips,
           InsertCheckpoint, CheckpointFails, CommitLocked
<1> QED
    BY <1>1, <1>2 DEF SignedInv

\* The newest n rows of the log verify as they are: they are a suffix of the
\* chain of every writer.
LEMMA SuffixIntact ==
    ASSUME TypeOK, ChainInv, IndexInv, NEW n \in Nat
    PROVE  ChainsIntact(ListEntries(n))
<1> DEFINE L == Len(entries)
           E == ListEntries(n)
<1>1. /\ L \in Nat /\ DOMAIN entries = 1..L
      /\ \A e \in Table : \E i \in 1..L : entries[i] = e
      /\ \A i \in 1..L : entries[i] \in Table
    BY DEF TypeOK, Table, Range
<1>2. /\ \A e \in E : \E i \in 1..L : entries[i] = e /\ i + n > L
      /\ \A i \in 1..L : i + n > L => entries[i] \in E
    BY <1>1 DEF ListEntries
<1> HIDE DEF E
<1>3. ASSUME NEW e \in E
      PROVE  /\ e.hash = ContentHash(e.writer, e.seq, e.ev, e.prev)
             /\ IF Predecessors(E, e) = {}
                THEN e.seq = 0 => e.prev = NoHash
                ELSE \E p \in Predecessors(E, e) : p.seq + 1 = e.seq /\ p.hash = e.prev
    <2>0. E \subseteq Table
        BY <1>1, <1>2
    <2>1. /\ e.hash = ContentHash(e.writer, e.seq, e.ev, e.prev)
          /\ \/ e.seq = 0 /\ e.prev = NoHash
             \/ \E p \in Rows(e.writer) : p.seq + 1 = e.seq /\ p.hash = e.prev
        BY <2>0 DEF ChainInv
    <2>2. \A p \in Table : p.seq \in Nat
        BY DEF TypeOK
    <2>3. e.seq = 0 => e.prev = NoHash
        BY <2>1, <2>2 DEF Rows
    <2>4. ASSUME NEW p \in Predecessors(E, e)
          PROVE  \E q \in Predecessors(E, e) : q.seq + 1 = e.seq /\ q.hash = e.prev
        <3>1. p \in E /\ p.writer = e.writer /\ p.seq < e.seq /\ p.seq \in Nat /\ e.seq \in Nat
            BY <2>0, <2>2 DEF Predecessors
        <3>2. PICK q \in Rows(e.writer) : q.seq + 1 = e.seq /\ q.hash = e.prev
            BY <2>1, <3>1
        <3>3. q \in Table /\ q.writer = e.writer /\ q.seq \in Nat /\ p.seq <= q.seq /\ q.seq < e.seq
            BY <2>2, <3>1, <3>2 DEF Rows
        <3>4. PICK i \in 1..L : entries[i] = p /\ i + n > L
            BY <1>2, <3>1
        <3>5. PICK j \in 1..L : entries[j] = q
            BY <1>1, <3>3
        <3>6. ~(j < i)
            BY <3>1, <3>3, <3>4, <3>5 DEF IndexInv
        <3>7. q \in E
            BY <1>1, <1>2, <3>4, <3>5, <3>6
        <3> QED
            BY <3>2, <3>3, <3>7 DEF Predecessors
    <2> QED
        BY <2>1, <2>3, <2>4
<1> QED
    BY <1>3 DEF ChainsIntact, E

\* A listing that is not capped holds every row.
LEMMA ListAll ==
    ASSUME TypeOK, NEW n \in Nat, Len(entries) <= n
    PROVE  ListEntries(n) = Table
<1>1. Len(entries) \in Nat /\ DOMAIN entries = 1..Len(entries)
    BY DEF TypeOK
<1>2. {j \in DOMAIN entries : j + n > Len(entries)} = DOMAIN entries
    BY <1>1
<1> QED
    BY <1>2 DEF ListEntries, Table, Range

\* Tips and rows agree on which rows a checkpoint commits, so the newest n rows
\* hold every tip exactly when none of those rows is older.
LEMMA TipsInBundle ==
    ASSUME TypeOK, CheckpointInv, IndexInv, NEW n \in Nat
    PROVE  TipsPresent(ListEntries(n), checkpoints) <=> \A i \in AnchoredRows : i + n > Len(entries)
<1> DEFINE L == Len(entries)
           E == ListEntries(n)
<1>1. /\ L \in Nat /\ DOMAIN entries = 1..L
      /\ \A e \in Table : \E i \in 1..L : entries[i] = e
    BY DEF TypeOK, Table, Range
<1>2. /\ \A e \in E : \E i \in 1..L : entries[i] = e /\ i + n > L
      /\ \A i \in 1..L : i + n > L => entries[i] \in E
    BY <1>1 DEF ListEntries
<1> HIDE DEF E
<1>3. ASSUME TipsPresent(E, checkpoints), NEW i \in AnchoredRows PROVE i + n > L
    <2>1. i \in 1..L
        BY <1>1 DEF AnchoredRows
    <2>2. PICK c \in checkpoints : \E t \in c.tips : t.writer = entries[i].writer /\ t.seq = entries[i].seq
        BY DEF AnchoredRows
    <2>3. PICK t \in c.tips : t.writer = entries[i].writer /\ t.seq = entries[i].seq
        BY <2>2
    <2>4. PICK e \in E : e.writer = t.writer /\ e.seq = t.seq
        BY <1>3 DEF TipsPresent
    <2>5. PICK j \in 1..L : entries[j] = e /\ j + n > L
        BY <1>2
    <2>6. entries[i].seq \in Nat
        BY <1>1, <2>1 DEF TypeOK, Table, Range
    <2>7. i = j
        BY <1>1, <2>1, <2>3, <2>4, <2>5, <2>6 DEF IndexInv
    <2> QED
        BY <2>5, <2>7
<1>4. ASSUME \A i \in AnchoredRows : i + n > L, NEW c \in checkpoints, NEW t \in c.tips
      PROVE  \E e \in E : e.writer = t.writer /\ e.seq = t.seq /\ e.hash = t.hash
    <2>1. PICK e \in Table : e.writer = t.writer /\ e.seq = t.seq /\ e.hash = t.hash
        BY DEF CheckpointInv, Covers
    <2>2. PICK i \in 1..L : entries[i] = e
        BY <1>1
    <2>3. i \in AnchoredRows
        BY <1>1, <2>1, <2>2 DEF AnchoredRows
    <2> QED
        BY <1>2, <1>4, <2>1, <2>2, <2>3
<1> QED
    BY <1>3, <1>4 DEF TipsPresent, E

\* The checkpoints verify.
LEMMA CheckpointsVerify ==
    ASSUME TypeOK, CheckpointInv, SignedInv
    PROVE  CheckpointsIntact(checkpoints)
<1>1. ASSUME NEW c \in checkpoints
      PROVE  \/ \A d \in checkpoints : d.seq >= c.seq
             \/ \E d \in checkpoints : d.seq + 1 = c.seq /\ d.hash = c.prev
    <2>1. \A d \in checkpoints : d.seq \in Nat
        BY DEF TypeOK
    <2>2. Follows(c)
        BY DEF CheckpointInv
    <2> QED
        BY <2>1, <2>2 DEF Follows
<1> QED
    BY <1>1 DEF CheckpointsIntact, SignedInv

ReaderInv == ChainInv /\ IndexInv /\ SignedInv

LEMMA ReaderInductive ==
    ASSUME {"append", "resume", "sign_checkpoint"} \cap Faults = {}
    PROVE  Spec => [](TypeOK /\ CheckpointInv /\ ReaderInv)
<1>1. Init => ReaderInv
    BY DEF Init, ReaderInv, ChainInv, IndexInv, SignedInv, Table, Range
<1>2. TypeOK /\ ReaderInv /\ [Next]_vars => ReaderInv'
    BY ChainStep, IndexStep, SignedStep DEF ReaderInv
<1> QED
    BY <1>1, <1>2, CheckpointInductive, PTL DEF Spec

\* The log verifies in every state when it is read whole at one instant, and a
\* size-capped bundle, which carries all the checkpoints (export_audit), verifies
\* exactly when it holds every row that one of them commits, its chains being
\* intact in any case: for every number of replicas, beside running writers and
\* after their crashes and restarts.
THEOREM VerifiableHolds ==
    ASSUME {"append", "resume", "sign_checkpoint"} \cap Faults = {}
    PROVE  Spec => []Verifiable
<1>1. ASSUME TypeOK, CheckpointInv, ReaderInv PROVE Verifiable
    <2>1. Len(entries) \in Nat
        BY <1>1 DEF TypeOK
    <2>2. ASSUME NEW n \in Nat PROVE ChainsIntact(ListEntries(n))
        BY <1>1, SuffixIntact DEF ReaderInv
    <2>3. ListEntries(Len(entries)) = Table
        BY <1>1, <2>1, ListAll
    <2>4. ChainsIntact(Table)
        BY <2>1, <2>2, <2>3
    <2>5. CheckpointsIntact(checkpoints)
        BY <1>1, CheckpointsVerify DEF ReaderInv
    <2>6. TipsPresent(Table, checkpoints)
        BY <1>1 DEF CheckpointInv, Covers, TipsPresent
    <2>7. ExportVerdict
        <3> SUFFICES ASSUME NEW n \in 0..Len(entries)
                     PROVE  /\ ChainsIntact(ListEntries(n))
                            /\ BundleVerifies(n) <=> \A i \in AnchoredRows : i + n > Len(entries)
            BY DEF ExportVerdict
        <3>1. n \in Nat /\ ChainsIntact(ListEntries(n))
            BY <2>1, <2>2
        <3>2. TipsPresent(ListEntries(n), checkpoints) <=> \A i \in AnchoredRows : i + n > Len(entries)
            BY <1>1, <3>1, TipsInBundle DEF ReaderInv
        <3> QED
            BY <2>5, <3>1, <3>2 DEF BundleVerifies, VerifySharded
    <2> QED
        BY <2>4, <2>5, <2>6, <2>7 DEF Verifiable, LogVerifies, VerifySharded
<1> QED
    BY <1>1, ReaderInductive, PTL

-----------------------------------------------------------------------------
(* The verdict of verify_audit, which reads in two queries. *)

\* What the handler has read verifies as a chain and, while no checkpoint is
\* committed behind its back, holds every committed tip.
VerdictInv ==
    /\ missed \in Nat
    /\ vpc = "checkpoints" =>
          /\ ChainsIntact(snapshot)
          /\ missed = 0 /\ Len(entries) <= VerifyCap => TipsPresent(snapshot, checkpoints)
    /\ Len(entries) <= VerifyCap => AlarmOnlyWhenRaced

\* A step of the handler is none of the writers.
LEMMA VerifierStutters == [VNext]_<<vars, verifyVars>> => [Next]_vars
BY DEF VNext, VerifyReadEntries, VerifyReadCheckpoints, VWriters

LEMMA VerifierImplements == VSpec => Spec
<1>1. VInit => Init
    BY DEF VInit
<1> QED
    BY <1>1, VerifierStutters, PTL DEF VSpec, Spec

LEMMA VerdictStep ==
    ASSUME TypeOK, CheckpointInv, ReaderInv, VerdictInv, [VNext]_<<vars, verifyVars>>
    PROVE  VerdictInv'
<1>1. CASE VerifyReadEntries
    <2>1. /\ entries' = entries /\ checkpoints' = checkpoints /\ missed' = 0
          /\ verdict' = "none" /\ snapshot' = ListEntries(VerifyCap)
        BY <1>1 DEF VerifyReadEntries, vars
    <2>2. VerifyCap \in Nat
        BY VerifyCapAssumption
    <2>3. ChainsIntact(snapshot')
        BY <2>1, <2>2, SuffixIntact DEF ReaderInv
    <2>4. Len(entries) <= VerifyCap => TipsPresent(snapshot', checkpoints')
        <3>1. TipsPresent(Table, checkpoints)
            BY DEF CheckpointInv, Covers, TipsPresent
        <3> QED
            BY <2>1, <2>2, <3>1, ListAll
    <2> QED
        BY <2>1, <2>3, <2>4 DEF VerdictInv, AlarmOnlyWhenRaced, ChainsIntact, TipsPresent,
                                Predecessors, ContentHash
<1>2. CASE VerifyReadCheckpoints
    <2>1. /\ vpc = "checkpoints" /\ vpc' = "idle" /\ missed' = missed /\ entries' = entries
          /\ verdict' = IF VerifySharded(snapshot, checkpoints) THEN "valid" ELSE "invalid"
        BY <1>2 DEF VerifyReadCheckpoints, vars
    <2>2. CheckpointsIntact(checkpoints)
        BY CheckpointsVerify DEF ReaderInv
    <2>3. missed = 0 /\ Len(entries) <= VerifyCap => VerifySharded(snapshot, checkpoints)
        BY <2>1, <2>2 DEF VerdictInv, VerifySharded
    <2> QED
        BY <2>1, <2>3 DEF VerdictInv, AlarmOnlyWhenRaced
<1>3. CASE VWriters
    <2>1. /\ vpc' = vpc /\ snapshot' = snapshot /\ verdict' = verdict
          /\ missed' = IF vpc = "checkpoints" /\ checkpoints' # checkpoints
                       THEN missed + 1 ELSE missed
        BY <1>3 DEF VWriters
    <2>2. Len(entries) \in Nat /\ Len(entries') \in Nat /\ Len(entries) <= Len(entries')
        <3>1. Len(entries) \in Nat
            BY DEF TypeOK
        <3> QED
            BY <1>3, <3>1, EntriesStep DEF VWriters
    <2>3. Len(entries') <= VerifyCap => Len(entries) <= VerifyCap
        BY <2>2, VerifyCapAssumption
    <2>4. missed \in Nat /\ missed' \in Nat /\ missed <= missed'
        BY <2>1 DEF VerdictInv
    <2>5. missed' = 0 => missed = 0 /\ (vpc = "checkpoints" => checkpoints' = checkpoints)
        BY <2>1 DEF VerdictInv
    <2>6. ASSUME vpc = "checkpoints"
          PROVE  /\ ChainsIntact(snapshot)
                 /\ missed' = 0 /\ Len(entries') <= VerifyCap => TipsPresent(snapshot, checkpoints')
        BY <2>3, <2>5, <2>6 DEF VerdictInv
    <2>7. Len(entries') <= VerifyCap => (verdict' = "invalid" => missed' > 0)
        BY <2>1, <2>3, <2>4 DEF VerdictInv, AlarmOnlyWhenRaced
    <2> QED
        BY <2>1, <2>4, <2>6, <2>7 DEF VerdictInv, AlarmOnlyWhenRaced, ChainsIntact, TipsPresent,
                                Predecessors, ContentHash
<1>4. CASE UNCHANGED <<vars, verifyVars>>
    BY <1>4 DEF vars, verifyVars, VerdictInv, AlarmOnlyWhenRaced, ChainsIntact, TipsPresent,
                Predecessors, ContentHash
<1> QED
    BY <1>1, <1>2, <1>3, <1>4 DEF VNext

\* verify_audit raises no false alarm on a log that fits its cap, unless a
\* checkpoint is committed between its two reads: appends, crashes and
\* restarts at whatever point of the request do not disturb it.
THEOREM AlarmOnlyWhenRacedHolds ==
    ASSUME {"append", "resume", "sign_checkpoint"} \cap Faults = {}
    PROVE  VSpec => [](Len(entries) <= VerifyCap => AlarmOnlyWhenRaced)
<1>1. VInit => VerdictInv
    BY DEF VInit, VerdictInv, AlarmOnlyWhenRaced
<1>2. TypeOK /\ CheckpointInv /\ ReaderInv /\ VerdictInv /\ [VNext]_<<vars, verifyVars>>
         => VerdictInv'
    BY VerdictStep
<1>3. VerdictInv => (Len(entries) <= VerifyCap => AlarmOnlyWhenRaced)
    BY DEF VerdictInv
<1>4. VSpec => [](TypeOK /\ CheckpointInv /\ ReaderInv)
    BY VerifierImplements, ReaderInductive, PTL
<1> QED
    BY <1>1, <1>2, <1>3, <1>4, PTL DEF VSpec

=============================================================================
