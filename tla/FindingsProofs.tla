--------------------------- MODULE FindingsProofs ---------------------------
(***************************************************************************)
(* Proofs about Findings for every finite set of findings and of handlers, *)
(* every bound, one handler at a time and interleaved, with a crash of the *)
(* gateway between any two statements of the store.                        *)
(***************************************************************************)
EXTENDS Findings, FiniteSetTheorems, SequenceTheorems, WellFoundedInduction, TLAPS

USE DEF ghosts

-----------------------------------------------------------------------------
(* The inductive invariant. *)

Places == {"idle", "insert", "triage", "upsert", "restatus", "recheck", "restore",
           "build", "compare", "record", "alert"}

\* Where a handler has findings to store, and where it holds a row in memory.
Scanning == {"insert", "triage", "upsert"}
Holding == {"upsert", "restatus", "recheck", "restore"}

JobType ==
    [at : Places, todo : Seq(Keys \X Postures), scan : Nat, row : Row \cup {<< >>},
     paths : SUBSET Keys, fresh : SUBSET Keys]

JobsTyped ==
    /\ job \in [Jobs -> JobType]
    /\ \A j \in Jobs : job[j].at \in Scanning => job[j].todo # << >>
    /\ \A j \in Jobs : job[j].at \in Holding => job[j].row \in Row
    /\ boot # "serving" => \A j \in Jobs : job[j].at = "idle"
    /\ boot \in {"delete", "reinsert"} => kept # << >>
    /\ said \in [Keys -> Statuses] /\ looked \in [Keys -> SUBSET Postures]
    /\ ops \in Nat /\ crashes \in Nat

\* Serial handling: one handler is busy at most.
OneBusy ==
    serial => \A i, j \in Jobs : job[i].at # "idle" /\ job[j].at # "idle" => i = j

\* Rows, wherever they are, name stored scans.
ScanInv ==
    /\ FindingHasScan
    /\ \A i \in DOMAIN kept : kept[i].scan \in scans
    /\ \A j \in Jobs :
          /\ job[j].at \in Holding => job[j].row.scan \in scans
          /\ job[j].at \in {"triage", "upsert"} => job[j].scan \in scans

Distinct(t) == \A m, n \in DOMAIN t : t[m].key = t[n].key => m = n
Stable(t) == \A n \in DOMAIN t : t[n].id = stable_finding_id(t[n].key)

\* A table the migration will leave alone has stable ids; what it inserts again
\* and what is served has them, one row for each finding.
RowInv ==
    /\ Stable(table) \/ ~Distinct(table)
    /\ boot \in {"delete", "reinsert"} => Distinct(kept) /\ Stable(kept)
    /\ boot \in {"reinsert", "index", "serving"} => Distinct(table) /\ Stable(table)
    /\ boot = "reinsert" =>
          \A m \in DOMAIN table, n \in DOMAIN kept : table[m].key # kept[n].key
    /\ boot = "serving" => index
    /\ \A j \in Jobs : job[j].at \in Holding =>
          job[j].row.id = stable_finding_id(job[j].row.key)

\* R has the triage that was last stored for each finding, but for the exposed.
Tells(R) ==
    /\ \A r \in R : r.key \notin exposed => r.status = said[r.key]
    /\ \A k \in Keys \ exposed : (\A r \in R : r.key # k) => said[k] = "open"

\* The triage, through the migration and after it: the copies that handlers hold
\* have it too.
TriageInv ==
    /\ boot \in {"dedupe", "delete"} => Tells(KeepNewest(table))
    /\ boot = "delete" => Tells(Range(kept))
    /\ boot = "reinsert" => Tells(Range(table) \cup Range(kept))
    /\ boot \in {"index", "serving"} => Tells(Range(table))
    /\ boot = "serving" =>
          \A j \in Jobs :
             /\ job[j].at \in {"upsert", "recheck", "restore"} /\ job[j].row.key \notin exposed =>
                   job[j].row.status = said[job[j].row.key]
             /\ job[j].at = "restatus" => job[j].row.key \in KeysOf(table)

\* The handler j will still store what it saw of k.
Pending(j, k) ==
    \/ job[j].at \in Scanning /\ \E i \in DOMAIN job[j].todo : job[j].todo[i][1] = k
    \/ job[j].at = "restore" /\ job[j].row.key = k

\* The posture, likewise.
LookInv ==
    crashes = 0 =>
        /\ boot # "serving" =>
              \A r \in Range(table) \cup Range(kept) : r.pqc = WorstOf(looked[r.key])
        /\ boot = "serving" /\ serial =>
              /\ \A j \in Jobs :
                    /\ job[j].at \in Scanning => \A i \in DOMAIN job[j].todo :
                          job[j].todo[i][2] = WorstOf(looked[job[j].todo[i][1]])
                    /\ job[j].at = "upsert" =>
                          /\ job[j].row.key = Head(job[j].todo)[1]
                          /\ job[j].row.pqc = Head(job[j].todo)[2]
                    /\ job[j].at \in {"restatus", "restore"} =>
                          job[j].row.pqc = WorstOf(looked[job[j].row.key])
              /\ \A r \in Range(table) :
                    r.pqc = WorstOf(looked[r.key]) \/ \E j \in Jobs : Pending(j, r.key)

\* The snapshots that show k, and the handlers that have yet to alert it.
Shown(k) == {n \in 2..Len(snapshots) : k \in snapshots[n]}
Owing(k) == {j \in Jobs : job[j].at = "alert" /\ k \in job[j].fresh \cap Severe}

DriftInv ==
    /\ \A j \in Jobs : job[j].at = "record" =>
          /\ job[j].fresh \subseteq job[j].paths
          /\ job[j].fresh # {} => snapshots # << >>
    /\ \A k \in Keys : alerts[k] + Cardinality(Owing(k)) <= Cardinality(Shown(k))
    /\ dropped \in [Keys -> Nat]
    /\ \A k \in Keys \ Severe : alerts[k] = 0 /\ dropped[k] = 0
    /\ serial =>
          /\ \A j \in Jobs : job[j].at = "record" => job[j].fresh = NewPaths(job[j].paths)
          /\ \A k \in Severe :
                alerts[k] + dropped[k] + (IF Owing(k) = {} THEN 0 ELSE 1) = Appearances(k)

-----------------------------------------------------------------------------
(* Sequences. *)

\* What RemoveAt leaves.
LEMMA RemoveAtFacts ==
    ASSUME NEW S, NEW s \in Seq(S), NEW i \in 1..Len(s)
    PROVE  /\ RemoveAt(s, i) \in Seq(S) /\ Len(RemoveAt(s, i)) = Len(s) - 1
           /\ \A n \in 1..(Len(s) - 1) :
                 RemoveAt(s, i)[n] = IF n < i THEN s[n] ELSE s[n + 1]
<1> DEFINE a == SubSeq(s, 1, i - 1)
           b == SubSeq(s, i + 1, Len(s))
<1>1. Len(s) \in Nat /\ i \in Nat /\ 1 <= i /\ i <= Len(s)
    OBVIOUS
<1>2. a \in Seq(S) /\ Len(a) = i - 1 /\ \A n \in 1..(i - 1) : a[n] = s[n]
    BY <1>1
<1>3. b \in Seq(S) /\ Len(b) = Len(s) - i /\ \A n \in 1..(Len(s) - i) : b[n] = s[n + i]
    BY <1>1
<1> HIDE DEF a, b
<1>4. a \o b \in Seq(S) /\ Len(a \o b) = Len(s) - 1
    <2>1. a \o b \in Seq(S) /\ Len(a \o b) = Len(a) + Len(b)
        BY <1>2, <1>3, ConcatProperties
    <2> QED
        BY <1>1, <1>2, <1>3, <2>1
<1>5. ASSUME NEW n \in 1..(Len(s) - 1)
      PROVE  (a \o b)[n] = IF n < i THEN s[n] ELSE s[n + 1]
    <2>1. (a \o b)[n] = IF n <= Len(a) THEN a[n] ELSE b[n - Len(a)]
        BY <1>1, <1>2, <1>3
    <2>2. CASE n < i
        BY <1>1, <1>2, <2>1, <2>2
    <2>3. CASE ~(n < i)
        <3>1. n - (i - 1) \in 1..(Len(s) - i) /\ n - (i - 1) + i = n + 1 /\ ~(n <= i - 1)
            BY <1>1, <2>3
        <3> QED
            BY <1>2, <1>3, <2>1, <2>3, <3>1
    <2> QED
        BY <2>2, <2>3
<1> QED
    BY <1>4, <1>5 DEF RemoveAt, a, b

\* A finite set as a sequence: every element once.
LEMMA SetToSeqFacts ==
    ASSUME NEW S, IsFiniteSet(S)
    PROVE  /\ SetToSeq(S) \in Seq(S) /\ Len(SetToSeq(S)) = Cardinality(S)
           /\ Range(SetToSeq(S)) = S
           /\ \A m, n \in 1..Len(SetToSeq(S)) : SetToSeq(S)[m] = SetToSeq(S)[n] => m = n
<1> DEFINE N == Cardinality(S)
           f == SetToSeq(S)
<1>1. N \in Nat /\ ExistsBijection(1..N, S)
    BY FS_CardinalityType
<1>2. \E g \in [1..N -> S] : IsInjective(g)
    BY <1>1 DEF ExistsBijection, Bijection, Injection, IsInjective
<1>3. f \in [1..N -> S] /\ IsInjective(f)
    BY <1>2 DEF SetToSeq
<1> HIDE DEF f
<1>4. f \in Seq(S) /\ Len(f) = N
    BY <1>1, <1>3
<1>5. f \in Surjection(1..N, S)
    <2>1. f \in Injection(1..N, S)
        BY <1>3 DEF Injection
    <2>2. IsFiniteSet(1..N) /\ Cardinality(1..N) = N
        BY <1>1, FS_Interval
    <2> QED
        BY <2>1, <2>2, FS_Injection
<1>6. Range(f) = S
    BY <1>3, <1>5 DEF Surjection, Range
<1> QED
    BY <1>1, <1>3, <1>4, <1>6 DEF f, IsInjective

\* A row appended to a sequence.
LEMMA AppendFacts ==
    ASSUME NEW S, NEW s \in Seq(S), NEW e \in S
    PROVE  /\ Append(s, e) \in Seq(S) /\ Len(Append(s, e)) = Len(s) + 1
           /\ DOMAIN Append(s, e) = 1..(Len(s) + 1)
           /\ \A i \in 1..Len(s) : Append(s, e)[i] = s[i]
           /\ Append(s, e)[Len(s) + 1] = e
           /\ Range(Append(s, e)) = Range(s) \cup {e}
<1>1. /\ Append(s, e) \in Seq(S) /\ Len(Append(s, e)) = Len(s) + 1
      /\ DOMAIN Append(s, e) = 1..(Len(s) + 1) /\ DOMAIN s = 1..Len(s) /\ Len(s) \in Nat
      /\ \A i \in 1..Len(s) : Append(s, e)[i] = s[i]
      /\ Append(s, e)[Len(s) + 1] = e
    OBVIOUS
<1> DEFINE a == Append(s, e)
<1> HIDE DEF a
<1>2. Range(a) \subseteq Range(s) \cup {e}
    BY <1>1 DEF Range, a
<1>3. Range(s) \cup {e} \subseteq Range(a)
    BY <1>1 DEF Range, a
<1> QED
    BY <1>1, <1>2, <1>3 DEF a

\* The rows of a table and their fields.
LEMMA RowsOfTable ==
    ASSUME NEW t \in Seq(Row)
    PROVE  /\ Len(t) \in Nat /\ DOMAIN t = 1..Len(t) /\ \A n \in DOMAIN t : t[n] \in Row
           /\ \A r \in Range(t) : r \in Row /\ \E n \in DOMAIN t : t[n] = r
           /\ \A n \in DOMAIN t : t[n] \in Range(t)
<1>1. Len(t) \in Nat /\ DOMAIN t = 1..Len(t) /\ \A n \in DOMAIN t : t[n] \in Row
    OBVIOUS
<1> QED
    BY <1>1 DEF Range

LEMMA RowFields ==
    ASSUME NEW r \in Row
    PROVE  /\ r.id \in Keys \X Nat /\ r.key \in Keys /\ r.scan \in Nat
           /\ r.pqc \in Postures /\ r.status \in Statuses
BY DEF Row

-----------------------------------------------------------------------------
(* The statements of the store, on a table that is being served. *)

\* The table as it is served: one row for each finding, with the stable id.
Clean(t) == t \in Seq(Row) /\ Distinct(t) /\ Stable(t)

\* A clean table as a set of rows.
LEMMA CleanRows ==
    ASSUME NEW t, Clean(t)
    PROVE  /\ Len(t) \in Nat /\ DOMAIN t = 1..Len(t)
           /\ \A r \in Range(t) : r \in Row /\ r.id = stable_finding_id(r.key)
           /\ \A r \in Range(t) : \E n \in 1..Len(t) : t[n] = r
           /\ \A n \in 1..Len(t) : t[n] \in Range(t)
           /\ \A m, n \in 1..Len(t) : t[m].key = t[n].key => m = n
           /\ \A m, n \in 1..Len(t) : t[m].id = t[n].id => m = n
<1>1. /\ Len(t) \in Nat /\ DOMAIN t = 1..Len(t) /\ \A n \in 1..Len(t) : t[n] \in Row
      /\ \A n \in 1..Len(t) : t[n].id = stable_finding_id(t[n].key)
      /\ \A m, n \in 1..Len(t) : t[m].key = t[n].key => m = n
    BY DEF Clean, Distinct, Stable
<1>2. \A j, k : stable_finding_id(j) = stable_finding_id(k) => j = k
    BY DEF stable_finding_id
<1>3. /\ \A r \in Range(t) : \E n \in 1..Len(t) : t[n] = r
      /\ \A n \in 1..Len(t) : t[n] \in Range(t)
    BY <1>1 DEF Range
<1>4. \A r \in Range(t) : r \in Row /\ r.id = stable_finding_id(r.key)
    BY <1>1, <1>3
<1>5. \A m, n \in 1..Len(t) : t[m].id = t[n].id => m = n
    BY <1>1, <1>2
<1> QED
    BY <1>1, <1>3, <1>4, <1>5

\* get_finding returns a row with the id, the first.
LEMMA GetFacts ==
    ASSUME table \in Seq(Row), NEW id, Found(id)
    PROVE  /\ RowOf(id) \in 1..Len(table) /\ table[RowOf(id)].id = id
           /\ get_finding(id) \in Range(table) /\ get_finding(id) \in Row
           /\ get_finding(id).id = id
<1> DEFINE T == {n \in 1..Len(table) : table[n].id = id}
<1>1. DOMAIN table = 1..Len(table) /\ Len(table) \in Nat /\ \A n \in 1..Len(table) : table[n] \in Row
    OBVIOUS
<1>2. T # {} /\ T \subseteq Nat
    BY <1>1 DEF Found, Range
<1>3. PICK n \in T : \A m \in T : ~(<<m, n>> \in OpToRel(<, Nat))
    BY <1>2, NatLessThanWellFounded, WFMin
<1>4. \A m \in T : ~(m < n)
    BY <1>2, <1>3 DEF OpToRel
<1>5. \A m \in 1..(n - 1) : table[m].id # id
    BY <1>1, <1>4
<1>6. n \in DOMAIN table /\ table[n].id = id
    BY <1>1
<1>7. RowOf(id) \in DOMAIN table /\ table[RowOf(id)].id = id
    BY <1>5, <1>6 DEF RowOf
<1> QED
    BY <1>1, <1>7 DEF get_finding, Range

\* INSERT OR REPLACE replaces the row of the finding, or adds it.
LEMMA UpsertFacts ==
    ASSUME Clean(table), index, NEW row \in Row, row.id = stable_finding_id(row.key)
    PROVE  /\ Clean(Upsert(row))
           /\ Range(Upsert(row)) = {r \in Range(table) : r.key # row.key} \cup {row}
<1> DEFINE t == table
<1>0. \A j, k : stable_finding_id(j) = stable_finding_id(k) => j = k
    BY DEF stable_finding_id
<1>1. CASE ~Found(row.id)
    <2>1. Upsert(row) = Append(t, row)
        BY <1>1 DEF Upsert
    <2>2. \A r \in Range(t) : r.key # row.key
        BY <1>1, CleanRows DEF Found
    <2>3. t \in Seq(Row)
        BY DEF Clean
    <2> DEFINE a == Append(t, row)
    <2>4. /\ a \in Seq(Row) /\ Len(a) = Len(t) + 1 /\ DOMAIN a = 1..(Len(t) + 1)
          /\ \A i \in 1..Len(t) : a[i] = t[i]
          /\ a[Len(t) + 1] = row
          /\ Range(a) = Range(t) \cup {row}
        BY <2>3, AppendFacts
    <2> HIDE DEF a
    <2>5. Distinct(a) /\ Stable(a)
        BY <2>2, <2>4, CleanRows DEF Distinct, Stable
    <2> QED
        BY <2>1, <2>2, <2>4, <2>5 DEF Clean, a
<1>2. CASE Found(row.id)
    <2> DEFINE i == RowOf(row.id)
               s == RemoveAt(t, i)
               a == Append(s, row)
    <2>1. Upsert(row) = a
        BY <1>2 DEF Upsert
    <2>2. i \in 1..Len(t) /\ t[i].id = row.id
        BY <1>2, GetFacts DEF Clean
    <2> HIDE DEF i
    <2>3. Len(t) \in Nat /\ DOMAIN t = 1..Len(t) /\ t \in Seq(Row)
        BY CleanRows DEF Clean
    <2>4. /\ s \in Seq(Row) /\ Len(s) = Len(t) - 1
          /\ \A n \in 1..(Len(t) - 1) : s[n] = IF n < i THEN t[n] ELSE t[n + 1]
        BY <2>2, <2>3, RemoveAtFacts
    <2> HIDE DEF s
    <2>5. /\ a \in Seq(Row) /\ Len(a) = Len(t) /\ DOMAIN a = 1..Len(t)
          /\ \A n \in 1..(Len(t) - 1) : a[n] = s[n]
          /\ a[Len(t)] = row
          /\ Range(a) = Range(s) \cup {row}
        <3>1. /\ a \in Seq(Row) /\ Len(a) = Len(s) + 1 /\ DOMAIN a = 1..(Len(s) + 1)
              /\ \A n \in 1..Len(s) : a[n] = s[n]
              /\ a[Len(s) + 1] = row
              /\ Range(a) = Range(s) \cup {row}
            BY <2>4, AppendFacts
        <3>2. Len(s) + 1 = Len(t)
            BY <2>3, <2>4
        <3> QED
            BY <2>3, <2>4, <3>1, <3>2
    <2> HIDE DEF a
    <2>6. ASSUME NEW n \in 1..(Len(t) - 1)
          PROVE  \E m \in 1..Len(t) : s[n] = t[m] /\ m # i /\ m = IF n < i THEN n ELSE n + 1
        BY <2>2, <2>3, <2>4
    <2>7. \A m \in 1..Len(t) : m # i => t[m].key # row.key
        BY <2>2, CleanRows
    <2>8. Range(s) = {r \in Range(t) : r.key # row.key}
        <3>1. ASSUME NEW r \in Range(s) PROVE r \in Range(t) /\ r.key # row.key
            <4>1. PICK n \in 1..(Len(t) - 1) : s[n] = r
                BY <2>3, <2>4 DEF Range
            <4> QED
                BY <4>1, <2>6, <2>7, CleanRows
        <3>2. ASSUME NEW r \in Range(t), r.key # row.key PROVE r \in Range(s)
            <4>1. PICK m \in 1..Len(t) : t[m] = r
                BY CleanRows
            <4>2. m # i
                BY <2>2, <3>2, <4>1, <1>0, CleanRows
            <4>3. \E n \in 1..(Len(t) - 1) : s[n] = r
                <5>1. CASE m < i
                    BY <2>2, <2>3, <2>4, <4>1, <5>1
                <5>2. CASE m > i
                    <6>1. m - 1 \in 1..(Len(t) - 1) /\ ~(m - 1 < i) /\ m - 1 + 1 = m
                        BY <2>2, <2>3, <5>2
                    <6> QED
                        BY <2>4, <4>1, <6>1
                <5> QED
                    BY <2>2, <4>2, <5>1, <5>2
            <4> QED
                BY <2>3, <2>4, <4>3 DEF Range
        <3> QED
            BY <3>1, <3>2
    <2>9. Distinct(a)
        <3> SUFFICES ASSUME NEW m \in 1..Len(t), NEW n \in 1..Len(t), a[m].key = a[n].key, m < n
                     PROVE  FALSE
            BY <2>3, <2>5 DEF Distinct
        <3>1. m \in 1..(Len(t) - 1) /\ a[m] = s[m]
            BY <2>3, <2>5
        <3>2. PICK x \in 1..Len(t) : s[m] = t[x] /\ x # i /\ x = IF m < i THEN m ELSE m + 1
            BY <2>6, <3>1
        <3>3. CASE n = Len(t)
            BY <2>5, <2>7, <3>1, <3>2, <3>3
        <3>4. CASE n \in 1..(Len(t) - 1)
            <4>1. PICK y \in 1..Len(t) : s[n] = t[y] /\ y # i /\ y = IF n < i THEN n ELSE n + 1
                BY <2>6, <3>4
            <4>2. x = y
                BY <2>5, <3>1, <3>2, <3>4, <4>1, CleanRows
            <4> QED
                BY <2>2, <3>2, <4>1, <4>2
        <3>5. \A L \in Nat : \A q \in 1..L : q = L \/ q \in 1..(L - 1)
            OBVIOUS
        <3> QED
            BY <2>3, <3>3, <3>4, <3>5
    <2>10. Stable(a)
        <3>1. \A r \in Range(a) : r.id = stable_finding_id(r.key)
            BY <2>5, <2>8, CleanRows
        <3>2. \A n \in DOMAIN a : a[n] \in Range(a)
            BY DEF Range
        <3> QED
            BY <3>1, <3>2 DEF Stable
    <2> QED
        BY <2>1, <2>5, <2>8, <2>9, <2>10 DEF Clean
<1> QED
    BY <1>1, <1>2

\* update_finding replaces the row of the finding, if there is one.
LEMMA UpdateFacts ==
    ASSUME Clean(table), NEW row \in Row, row.id = stable_finding_id(row.key)
    PROVE  /\ Clean(update_finding(row))
           /\ Range(update_finding(row)) =
                 {r \in Range(table) : r.key # row.key}
                   \cup (IF row.key \in KeysOf(table) THEN {row} ELSE {})
<1> DEFINE t == table
           u == update_finding(row)
<1>0. \A j, k : stable_finding_id(j) = stable_finding_id(k) => j = k
    BY DEF stable_finding_id
<1>1. /\ Len(t) \in Nat /\ DOMAIN t = 1..Len(t) /\ \A n \in 1..Len(t) : t[n] \in Row
      /\ \A n \in 1..Len(t) : t[n].id = stable_finding_id(t[n].key)
    BY CleanRows
<1>2. /\ DOMAIN u = 1..Len(t)
      /\ \A n \in 1..Len(t) : u[n] = IF t[n].id = row.id THEN row ELSE t[n]
    BY <1>1 DEF update_finding
<1>3. \A n \in 1..Len(t) : u[n] = IF t[n].key = row.key THEN row ELSE t[n]
    BY <1>0, <1>1, <1>2
<1>4. u \in Seq(Row)
    <2>1. u = [n \in 1..Len(t) |-> u[n]]
        BY <1>1 DEF update_finding
    <2>2. \A n \in 1..Len(t) : u[n] \in Row
        BY <1>1, <1>3
    <2> HIDE DEF u
    <2>3. u \in [1..Len(t) -> Row]
        BY <2>1, <2>2
    <2> QED
        BY <1>1, <2>3
<1> HIDE DEF u
<1>5. Distinct(u) /\ Stable(u)
    BY <1>1, <1>2, <1>3, CleanRows DEF Distinct, Stable
<1>6. Range(u) = {r \in Range(t) : r.key # row.key}
                   \cup (IF row.key \in KeysOf(t) THEN {row} ELSE {})
    <2>1. ASSUME NEW r \in Range(u)
          PROVE  (r \in Range(t) /\ r.key # row.key) \/ (r = row /\ row.key \in KeysOf(t))
        <3>1. PICK n \in 1..Len(t) : u[n] = r
            BY <1>2 DEF Range
        <3> QED
            BY <1>3, <3>1, CleanRows DEF KeysOf
    <2>2. ASSUME NEW r \in Range(t), r.key # row.key PROVE r \in Range(u)
        <3>1. PICK n \in 1..Len(t) : t[n] = r
            BY CleanRows
        <3> QED
            BY <1>2, <1>3, <2>2, <3>1 DEF Range
    <2>3. ASSUME row.key \in KeysOf(t) PROVE row \in Range(u)
        <3>1. PICK r \in Range(t) : r.key = row.key
            BY <2>3 DEF KeysOf
        <3>2. PICK n \in 1..Len(t) : t[n] = r
            BY CleanRows
        <3> QED
            BY <1>2, <1>3, <3>1, <3>2 DEF Range
    <2> QED
        BY <2>1, <2>2, <2>3
<1> QED
    BY <1>4, <1>5, <1>6 DEF Clean, u
-----------------------------------------------------------------------------
(* What the actions do to the handlers. *)

Types == FindingsTypeOK /\ JobsTyped

\* The handler j is left in this state and the others as they were.
Becomes(j, at, todo, scan, row, paths, fresh) ==
    /\ job' \in [Jobs -> JobType]
    /\ \A i \in Jobs : i # j => job'[i] = job[i]
    /\ job'[j].at = at /\ job'[j].todo = todo /\ job'[j].scan = scan
    /\ job'[j].row = row /\ job'[j].paths = paths /\ job'[j].fresh = fresh

LEMMA JobBecomes ==
    ASSUME job \in [Jobs -> JobType], NEW j \in Jobs, NEW s \in JobType,
           job' = [job EXCEPT ![j] = s]
    PROVE  Becomes(j, s.at, s.todo, s.scan, s.row, s.paths, s.fresh)
<1>1. job' \in [Jobs -> JobType] /\ job'[j] = s /\ \A i \in Jobs : i # j => job'[i] = job[i]
    OBVIOUS
<1> QED
    BY <1>1 DEF Becomes

LEMMA IdleFacts ==
    /\ Idle \in JobType /\ Idle.at = "idle" /\ Idle.todo = << >> /\ Idle.scan = 0
    /\ Idle.row = << >> /\ Idle.paths = {} /\ Idle.fresh = {}
<1>1. "idle" \in Places /\ << >> \in Seq(Keys \X Postures)
    BY DEF Places
<1> QED
    BY <1>1 DEF Idle, JobType

\* The state of a handler, field by field.
LEMMA JobFields ==
    ASSUME job \in [Jobs -> JobType], NEW j \in Jobs
    PROVE  /\ job[j].at \in Places /\ job[j].todo \in Seq(Keys \X Postures)
           /\ job[j].scan \in Nat /\ job[j].row \in Row \cup {<< >>}
           /\ job[j].paths \in SUBSET Keys /\ job[j].fresh \in SUBSET Keys
<1>1. job[j] \in JobType
    OBVIOUS
<1> DEFINE s == job[j]
<1> HIDE DEF s
<1>2. s \in JobType
    BY <1>1 DEF s
<1>3. /\ s.at \in Places /\ s.todo \in Seq(Keys \X Postures)
      /\ s.scan \in Nat /\ s.row \in Row \cup {<< >>}
      /\ s.paths \in SUBSET Keys /\ s.fresh \in SUBSET Keys
    BY <1>2 DEF JobType
<1> QED
    BY <1>3 DEF s

\* The handler j goes on to pc.
LEMMA GotoBecomes ==
    ASSUME job \in [Jobs -> JobType], NEW j \in Jobs, NEW pc \in Places, Goto(j, pc)
    PROVE  Becomes(j, pc, job[j].todo, job[j].scan, job[j].row, job[j].paths, job[j].fresh)
<1> DEFINE o == job[j]
           s == [o EXCEPT !.at = pc]
<1>1. job' = [job EXCEPT ![j] = s]
    BY DEF Goto
<1>2. o \in JobType
    OBVIOUS
<1> HIDE DEF o
<1>3. /\ s \in JobType /\ s.at = pc /\ s.todo = o.todo /\ s.scan = o.scan
      /\ s.row = o.row /\ s.paths = o.paths /\ s.fresh = o.fresh
    BY <1>2 DEF JobType
<1> HIDE DEF s
<1>4. Becomes(j, s.at, s.todo, s.scan, s.row, s.paths, s.fresh)
    BY <1>1, <1>3, JobBecomes
<1> QED
    BY <1>3, <1>4 DEF o

\* The handler j is done.
LEMMA IdleBecomes ==
    ASSUME job \in [Jobs -> JobType], NEW j \in Jobs, job' = [job EXCEPT ![j] = Idle]
    PROVE  Becomes(j, "idle", << >>, 0, << >>, {}, {})
<1>1. Becomes(j, Idle.at, Idle.todo, Idle.scan, Idle.row, Idle.paths, Idle.fresh)
    BY IdleFacts, JobBecomes
<1> QED
    BY <1>1, IdleFacts

\* What a probe has to store: each finding of an endpoint that answered.
Seen(S) == SetToSeq({<<k, world[k]>> : k \in S})

LEMMA ProbeFacts ==
    ASSUME Types, NEW S \in SUBSET Keys, S # {}
    PROVE  /\ Seen(S) \in Seq(Keys \X Postures) /\ Seen(S) # << >>
           /\ \A i \in DOMAIN Seen(S) : Seen(S)[i][1] \in S /\ Seen(S)[i][2] = world[Seen(S)[i][1]]
           /\ \A k \in S : \E i \in DOMAIN Seen(S) : Seen(S)[i][1] = k
<1> DEFINE P == {<<k, world[k]>> : k \in S}
           todo == Seen(S)
<1>1. IsFiniteSet(P)
    <2> DEFINE f == [k \in S |-> <<k, world[k]>>]
    <2>1. IsFiniteSet(S)
        BY FindingsAssumption, FS_Subset
    <2>2. f \in Surjection(S, P)
        BY DEF Surjection
    <2> QED
        BY <2>1, <2>2, FS_Surjection
<1>2. P \subseteq Keys \X Postures
    BY DEF Types, FindingsTypeOK
<1>3. \A p \in P : p[1] \in S /\ p[2] = world[p[1]]
    OBVIOUS
<1>4. \A k \in S : \E p \in P : p[1] = k
    <2>1. \A k \in S : <<k, world[k]>> \in P
        OBVIOUS
    <2> HIDE DEF P
    <2> QED
        BY <2>1
<1>5. todo \in Seq(P) /\ Range(todo) = P
    BY <1>1, SetToSeqFacts DEF Seen
<1> HIDE DEF P, todo
<1>6. DOMAIN todo = 1..Len(todo) /\ \A i \in DOMAIN todo : todo[i] \in P
    BY <1>5
<1>7. \A p \in P : \E i \in DOMAIN todo : todo[i] = p
    BY <1>5 DEF Range
<1>8. todo \in Seq(Keys \X Postures)
    BY <1>2, <1>5
<1>9. todo # << >>
    BY <1>4, <1>7
<1> QED
    BY <1>3, <1>4, <1>6, <1>7, <1>8, <1>9 DEF todo\* A handler's step that leaves the start-up alone keeps the types if what it
\* writes has its type.
LEMMA TypesAfter ==
    ASSUME Types, boot = "serving", UNCHANGED startup, NEW j \in Jobs,
           NEW at, NEW todo, NEW scan, NEW row, NEW paths, NEW fresh,
           Becomes(j, at, todo, scan, row, paths, fresh),
           at \in Scanning => todo # << >>, at \in Holding => row \in Row,
           table' \in Seq(Row), index' = index, scans' \subseteq Nat,
           snapshots' \in Seq(SUBSET Keys), alerts' \in [Keys -> Nat], world' = world,
           said' \in [Keys -> Statuses], looked' \in [Keys -> SUBSET Postures],
           ops' \in Nat, crashes' = crashes
    PROVE  Types'
<1>1. FindingsTypeOK'
    BY DEF Types, FindingsTypeOK, startup
<1>2. /\ job' \in [Jobs -> JobType] /\ boot' = "serving" /\ crashes' \in Nat
      /\ \A i \in Jobs : i # j => job'[i] = job[i]
      /\ job'[j].at = at /\ job'[j].todo = todo /\ job'[j].row = row
    BY DEF Becomes, startup, Types, JobsTyped
<1>3. /\ \A i \in Jobs : job[i].at \in Scanning => job[i].todo # << >>
      /\ \A i \in Jobs : job[i].at \in Holding => job[i].row \in Row
    BY DEF Types, JobsTyped
<1>4. \A i \in Jobs : job'[i].at \in Scanning => job'[i].todo # << >>
    BY <1>2, <1>3
<1>5. \A i \in Jobs : job'[i].at \in Holding => job'[i].row \in Row
    BY <1>2, <1>3
<1> QED
    BY <1>1, <1>2, <1>4, <1>5 DEF Types, JobsTyped

\* A handler that is busy is served.
LEMMA BusyServed ==
    ASSUME Types, NEW j \in Jobs, job[j].at # "idle"
    PROVE  boot = "serving"
BY DEF Types, JobsTyped

\* The types of the store and of the handlers, for use below.
LEMMA TypeFacts ==
    ASSUME Types
    PROVE  /\ table \in Seq(Row) /\ kept \in Seq(Row) /\ index \in BOOLEAN /\ scans \subseteq Nat
           /\ snapshots \in Seq(SUBSET Keys) /\ alerts \in [Keys -> Nat]
           /\ world \in [Keys -> Postures] /\ job \in [Jobs -> JobType]
           /\ said \in [Keys -> Statuses] /\ looked \in [Keys -> SUBSET Postures]
           /\ ops \in Nat /\ crashes \in Nat
BY DEF Types, FindingsTypeOK, JobsTyped

LEMMA ProbeMoves ==
    ASSUME Types, NEW j \in Jobs, NEW S \in SUBSET Keys, S # {}, Probe(j, S)
    PROVE  /\ Types' /\ boot = "serving" /\ UNCHANGED <<startup, store, alerts, said, exposed, dropped, world, serial, crashes>>
           /\ job[j].at = "idle" /\ (serial => Busy = {})
           /\ Becomes(j, "insert", Seen(S), ops + 1, << >>, {}, {})
<1>1. /\ boot = "serving" /\ job[j].at = "idle" /\ (serial => Busy = {})
      /\ UNCHANGED <<startup, store, alerts, said, exposed, dropped, world, serial, crashes>>
      /\ ops' = ops + 1
      /\ looked' = [k \in Keys |-> IF k \in S THEN {world[k]} ELSE looked[k]]
    BY DEF Probe, Begins
<1> DEFINE s == [Idle EXCEPT !.at = "insert", !.scan = ops + 1, !.todo = Seen(S)]
<1>2. job' = [job EXCEPT ![j] = s]
    BY DEF Probe, Begins, Seen
<1>3. "insert" \in Places /\ ops + 1 \in Nat
    BY TypeFacts DEF Places
<1>4. Becomes(j, "insert", Seen(S), ops + 1, << >>, {}, {})
    <2>1. Seen(S) \in Seq(Keys \X Postures)
        BY ProbeFacts
    <2>2. /\ s \in JobType /\ s.at = "insert" /\ s.todo = Seen(S) /\ s.scan = ops + 1
          /\ s.row = << >> /\ s.paths = {} /\ s.fresh = {}
        BY <1>3, <2>1, IdleFacts DEF JobType
    <2> HIDE DEF s
    <2>3. Becomes(j, s.at, s.todo, s.scan, s.row, s.paths, s.fresh)
        BY <1>2, <2>2, TypeFacts, JobBecomes
    <2> QED
        BY <2>2, <2>3
<1>5. "insert" \notin Holding /\ Seen(S) # << >>
    BY ProbeFacts DEF Holding
<1>6. looked' \in [Keys -> SUBSET Postures]
    BY <1>1, TypeFacts
<1>7. /\ table' = table /\ index' = index /\ scans' = scans /\ snapshots' = snapshots
      /\ alerts' = alerts /\ world' = world /\ said' = said /\ crashes' = crashes
      /\ ops' \in Nat /\ UNCHANGED startup
    BY <1>1, <1>3 DEF store
<1>8. Types'
    BY <1>1, <1>4, <1>5, <1>6, <1>7, TypesAfter, TypeFacts
<1> QED
    BY <1>1, <1>4, <1>8

LEMMA StatusMoves ==
    ASSUME Types, NEW j \in Jobs, NEW id, NEW s \in Statuses, SetFindingStatus(j, id, s)
    PROVE  /\ Types' /\ boot = "serving" /\ UNCHANGED <<startup, store, alerts, ghosts, world, serial, crashes>>
           /\ job[j].at = "idle" /\ (serial => Busy = {}) /\ Found(id)
           /\ Becomes(j, "restatus", << >>, 0, [get_finding(id) EXCEPT !.status = s], {}, {})
<1> DEFINE r == [get_finding(id) EXCEPT !.status = s]
<1>1. /\ boot = "serving" /\ job[j].at = "idle" /\ (serial => Busy = {}) /\ Found(id)
      /\ UNCHANGED <<startup, store, alerts, ghosts, world, serial, crashes>>
      /\ ops' = ops + 1
    BY DEF SetFindingStatus, Begins
<1>2. r \in Row
    <2>1. get_finding(id) \in Row
        BY <1>1, TypeFacts, GetFacts
    <2> QED
        BY <2>1 DEF Row
<1> DEFINE s0 == [Idle EXCEPT !.at = "restatus", !.row = r]
<1>3. job' = [job EXCEPT ![j] = s0]
    BY DEF SetFindingStatus, Begins
<1> HIDE DEF r
<1>5. Becomes(j, "restatus", << >>, 0, r, {}, {})
    <2>1. "restatus" \in Places
        BY DEF Places
    <2>2. /\ s0 \in JobType /\ s0.at = "restatus" /\ s0.todo = << >> /\ s0.scan = 0
          /\ s0.row = r /\ s0.paths = {} /\ s0.fresh = {}
        BY <1>2, <2>1, IdleFacts DEF JobType
    <2> HIDE DEF s0
    <2>3. Becomes(j, s0.at, s0.todo, s0.scan, s0.row, s0.paths, s0.fresh)
        BY <1>3, <2>2, TypeFacts, JobBecomes
    <2> QED
        BY <2>2, <2>3
<1>6. "restatus" \notin Scanning
    BY DEF Scanning
<1>7. /\ table' = table /\ index' = index /\ scans' = scans /\ snapshots' = snapshots
      /\ alerts' = alerts /\ world' = world /\ said' = said /\ crashes' = crashes
      /\ looked' = looked /\ ops' \in Nat /\ UNCHANGED startup
    BY <1>1, TypeFacts DEF store
<1>8. Types'
    BY <1>1, <1>2, <1>5, <1>6, <1>7, TypesAfter, TypeFacts
<1> QED
    BY <1>1, <1>5, <1>8 DEF r

LEMMA VerifyMoves ==
    ASSUME Types, NEW j \in Jobs, NEW id, VerifyFinding(j, id)
    PROVE  /\ Types' /\ boot = "serving" /\ UNCHANGED <<startup, store, alerts, ghosts, world, serial, crashes>>
           /\ job[j].at = "idle" /\ (serial => Busy = {}) /\ Found(id)
           /\ Becomes(j, "recheck", << >>, 0, get_finding(id), {}, {})
<1> DEFINE r == get_finding(id)
<1>1. /\ boot = "serving" /\ job[j].at = "idle" /\ (serial => Busy = {}) /\ Found(id)
      /\ UNCHANGED <<startup, store, alerts, ghosts, world, serial, crashes>>
      /\ ops' = ops + 1
    BY DEF VerifyFinding, Begins
<1>2. r \in Row
    BY <1>1, TypeFacts, GetFacts
<1> DEFINE s0 == [Idle EXCEPT !.at = "recheck", !.row = r]
<1>3. job' = [job EXCEPT ![j] = s0]
    BY DEF VerifyFinding, Begins
<1> HIDE DEF r
<1>5. Becomes(j, "recheck", << >>, 0, r, {}, {})
    <2>1. "recheck" \in Places
        BY DEF Places
    <2>2. /\ s0 \in JobType /\ s0.at = "recheck" /\ s0.todo = << >> /\ s0.scan = 0
          /\ s0.row = r /\ s0.paths = {} /\ s0.fresh = {}
        BY <1>2, <2>1, IdleFacts DEF JobType
    <2> HIDE DEF s0
    <2>3. Becomes(j, s0.at, s0.todo, s0.scan, s0.row, s0.paths, s0.fresh)
        BY <1>3, <2>2, TypeFacts, JobBecomes
    <2> QED
        BY <2>2, <2>3
<1>6. "recheck" \notin Scanning
    BY DEF Scanning
<1>7. /\ table' = table /\ index' = index /\ scans' = scans /\ snapshots' = snapshots
      /\ alerts' = alerts /\ world' = world /\ said' = said /\ crashes' = crashes
      /\ looked' = looked /\ ops' \in Nat /\ UNCHANGED startup
    BY <1>1, TypeFacts DEF store
<1>8. Types'
    BY <1>1, <1>2, <1>5, <1>6, <1>7, TypesAfter, TypeFacts
<1> QED
    BY <1>1, <1>5, <1>8 DEF r
LEMMA InsertMoves ==
    ASSUME Types, NEW j \in Jobs, InsertScan(j)
    PROVE  /\ Types' /\ boot = "serving" /\ job[j].at = "insert"
           /\ UNCHANGED <<startup, table, index, snapshots, alerts, ghosts, world, serial, crashes>>
           /\ scans' = scans \cup {job[j].scan}
           /\ Becomes(j, "triage", job[j].todo, job[j].scan, job[j].row, job[j].paths, job[j].fresh)
<1>1. /\ job[j].at = "insert" /\ boot = "serving" /\ scans' = scans \cup {job[j].scan}
      /\ Goto(j, "triage") /\ ops' = ops
      /\ UNCHANGED <<startup, table, index, snapshots, alerts, ghosts, world, serial, crashes>>
    BY BusyServed DEF InsertScan, At, bounds
<1>2. Becomes(j, "triage", job[j].todo, job[j].scan, job[j].row, job[j].paths, job[j].fresh)
    BY <1>1, TypeFacts, GotoBecomes DEF Places
<1>3. job[j].todo # << >> /\ "triage" \notin Holding
    BY <1>1 DEF Types, JobsTyped, Scanning, Holding
<1>4. scans' \subseteq Nat
    BY <1>1, TypeFacts, JobFields
<1>5. Types'
    BY <1>1, <1>2, <1>3, <1>4, TypeFacts, TypesAfter
<1> QED
    BY <1>1, <1>2, <1>5

\* The row that record_scan makes of the next finding.
NewRow(j) ==
    [id |-> stable_finding_id(Head(job[j].todo)[1]), key |-> Head(job[j].todo)[1], scan |-> job[j].scan,
     pqc |-> Head(job[j].todo)[2], status |-> TriageOf(Head(job[j].todo)[1])]

LEMMA TriageMoves ==
    ASSUME Types, NEW j \in Jobs, ReadTriage(j)
    PROVE  /\ Types' /\ boot = "serving" /\ job[j].at = "triage"
           /\ UNCHANGED <<startup, store, alerts, ghosts, world, serial, crashes>>
           /\ NewRow(j) \in Row /\ job[j].todo # << >>
           /\ NewRow(j).key = Head(job[j].todo)[1] /\ NewRow(j).pqc = Head(job[j].todo)[2]
           /\ NewRow(j).id = stable_finding_id(NewRow(j).key) /\ NewRow(j).scan = job[j].scan
           /\ NewRow(j).status = TriageOf(NewRow(j).key)
           /\ Becomes(j, "upsert", job[j].todo, job[j].scan, NewRow(j), job[j].paths, job[j].fresh)
<1>1. /\ job[j].at = "triage" /\ boot = "serving" /\ ops' = ops
      /\ UNCHANGED <<startup, store, alerts, ghosts, world, serial, crashes>>
    BY BusyServed DEF ReadTriage, At, bounds
<1>2. job[j].todo # << >> /\ "upsert" \in Places
    BY <1>1 DEF Types, JobsTyped, Scanning, Places
<1>3. NewRow(j) \in Row
    <2> DEFINE k == Head(job[j].todo)[1]
               p == Head(job[j].todo)[2]
    <2>1. Head(job[j].todo) \in Keys \X Postures
        BY <1>2, TypeFacts, JobFields
    <2>2. k \in Keys /\ p \in Postures
        BY <2>1
    <2>3. TriageOf(k) \in Statuses
        <3>1. CASE Found(stable_finding_id(k))
            <4>1. get_finding(stable_finding_id(k)) \in Row
                BY <3>1, TypeFacts, GetFacts
            <4>2. get_finding(stable_finding_id(k)).status \in Statuses
                BY <4>1 DEF Row
            <4> QED
                BY <3>1, <4>2 DEF TriageOf
        <3>2. CASE ~Found(stable_finding_id(k))
            BY <3>2 DEF TriageOf, Statuses
        <3> QED
            BY <3>1, <3>2
    <2>4. stable_finding_id(k) \in Keys \X Nat
        BY <2>2 DEF stable_finding_id
    <2>5. job[j].scan \in Nat
        BY TypeFacts, JobFields
    <2>6. NewRow(j) = [id |-> stable_finding_id(k), key |-> k, scan |-> job[j].scan,
                       pqc |-> p, status |-> TriageOf(k)]
        BY DEF NewRow
    <2> HIDE DEF k, p
    <2> QED
        BY <2>2, <2>3, <2>4, <2>5, <2>6 DEF Row
<1>4. /\ NewRow(j).key = Head(job[j].todo)[1] /\ NewRow(j).pqc = Head(job[j].todo)[2]
      /\ NewRow(j).id = stable_finding_id(NewRow(j).key) /\ NewRow(j).scan = job[j].scan
      /\ NewRow(j).status = TriageOf(NewRow(j).key)
    BY DEF NewRow
<1>5. Becomes(j, "upsert", job[j].todo, job[j].scan, NewRow(j), job[j].paths, job[j].fresh)
    <2> DEFINE o == job[j]
               n == NewRow(j)
               s == [o EXCEPT !.at = "upsert", !.row = n]
    <2>1. job' = [job EXCEPT ![j] = s]
        BY DEF ReadTriage, NewRow
    <2>2. o \in JobType
        BY TypeFacts
    <2> HIDE DEF o, n
    <2>3. /\ s \in JobType /\ s.at = "upsert" /\ s.todo = o.todo /\ s.scan = o.scan
          /\ s.row = n /\ s.paths = o.paths /\ s.fresh = o.fresh
        BY <1>2, <1>3, <2>2 DEF JobType, n
    <2> HIDE DEF s
    <2>4. Becomes(j, s.at, s.todo, s.scan, s.row, s.paths, s.fresh)
        BY <2>1, <2>3, TypeFacts, JobBecomes
    <2> QED
        BY <2>3, <2>4 DEF o, n
<1>6. /\ table' = table /\ index' = index /\ scans' = scans /\ snapshots' = snapshots
    BY <1>1 DEF store
<1>7. Types'
    BY <1>1, <1>2, <1>3, <1>5, <1>6, TypeFacts, TypesAfter
<1> QED
    BY <1>1, <1>2, <1>3, <1>4, <1>5, <1>7

\* A row is stored and the table keeps its type.
LEMMA UpsertType ==
    ASSUME table \in Seq(Row), NEW row \in Row
    PROVE  Upsert(row) \in Seq(Row)
<1>1. CASE index /\ Found(row.id)
    <2>1. RowOf(row.id) \in 1..Len(table)
        BY <1>1, GetFacts
    <2>2. RemoveAt(table, RowOf(row.id)) \in Seq(Row)
        BY <2>1, RemoveAtFacts
    <2> QED
        BY <1>1, <2>2, AppendFacts DEF Upsert
<1>2. CASE ~(index /\ Found(row.id))
    BY <1>2, AppendFacts DEF Upsert
<1> QED
    BY <1>1, <1>2

LEMMA UpdateType ==
    ASSUME table \in Seq(Row), NEW row \in Row
    PROVE  update_finding(row) \in Seq(Row)
<1>1. DOMAIN table = 1..Len(table) /\ Len(table) \in Nat /\ \A n \in 1..Len(table) : table[n] \in Row
    OBVIOUS
<1>2. update_finding(row) \in [1..Len(table) -> Row]
    BY <1>1 DEF update_finding
<1> QED
    BY <1>1, <1>2

LEMMA UpsertMoves ==
    ASSUME Types, NEW j \in Jobs, UpsertFinding(j)
    PROVE  /\ Types' /\ boot = "serving" /\ job[j].at = "upsert" /\ job[j].row \in Row
           /\ UNCHANGED <<startup, index, scans, snapshots, alerts, ghosts, world, serial, crashes>>
           /\ table' = Upsert(job[j].row) /\ job[j].todo # << >>
           /\ Becomes(j, IF Tail(job[j].todo) = << >> THEN "build" ELSE "triage", Tail(job[j].todo),
                      job[j].scan, job[j].row, job[j].paths, job[j].fresh)
<1>1. /\ job[j].at = "upsert" /\ boot = "serving" /\ ops' = ops /\ table' = Upsert(job[j].row)
      /\ UNCHANGED <<startup, index, scans, snapshots, alerts, ghosts, world, serial, crashes>>
    BY BusyServed DEF UpsertFinding, At, bounds
<1>2. job[j].todo # << >> /\ job[j].row \in Row
    BY <1>1 DEF Types, JobsTyped, Scanning, Holding
<1> DEFINE rest == Tail(job[j].todo)
           pc == IF rest = << >> THEN "build" ELSE "triage"
<1>3. rest \in Seq(Keys \X Postures)
    BY <1>2, TypeFacts, JobFields
<1>4. Becomes(j, pc, rest, job[j].scan, job[j].row, job[j].paths, job[j].fresh)
    <2> DEFINE o == job[j]
               s == [o EXCEPT !.at = pc, !.todo = rest]
    <2>1. job' = [job EXCEPT ![j] = s]
        BY DEF UpsertFinding
    <2>2. o \in JobType /\ pc \in Places
        BY TypeFacts DEF Places
    <2> HIDE DEF o, pc, rest
    <2>3. /\ s \in JobType /\ s.at = pc /\ s.todo = rest /\ s.scan = o.scan
          /\ s.row = o.row /\ s.paths = o.paths /\ s.fresh = o.fresh
        BY <1>3, <2>2 DEF JobType
    <2> HIDE DEF s
    <2>4. Becomes(j, s.at, s.todo, s.scan, s.row, s.paths, s.fresh)
        BY <2>1, <2>3, TypeFacts, JobBecomes
    <2> QED
        BY <2>3, <2>4 DEF o
<1>5. pc \in Scanning => rest # << >>
    BY DEF Scanning
<1>6. table' \in Seq(Row)
    BY <1>1, <1>2, TypeFacts, UpsertType
<1>7. Types'
    <2> HIDE DEF pc, rest
    <2> QED
        BY <1>1, <1>2, <1>4, <1>5, <1>6, TypeFacts, TypesAfter
<1> QED
    BY <1>1, <1>2, <1>4, <1>7

LEMMA StoreMoves ==
    ASSUME Types, NEW j \in Jobs, StoreStatus(j)
    PROVE  /\ Types' /\ boot = "serving" /\ job[j].at = "restatus" /\ job[j].row \in Row
           /\ UNCHANGED <<startup, index, scans, snapshots, alerts, looked, dropped, world, serial, crashes>>
           /\ table' = update_finding(job[j].row)
           /\ said' = [said EXCEPT ![job[j].row.key] = job[j].row.status]
           /\ exposed' = (exposed \ {job[j].row.key}) \cup ({job[j].row.key} \cap HeldBy(Jobs \ {j}))
           /\ Becomes(j, "build", job[j].todo, job[j].scan, job[j].row, job[j].paths, job[j].fresh)
<1>1. /\ job[j].at = "restatus" /\ boot = "serving" /\ ops' = ops /\ table' = update_finding(job[j].row)
      /\ UNCHANGED <<startup, index, scans, snapshots, alerts, looked, dropped, world, serial, crashes>>
      /\ said' = [said EXCEPT ![job[j].row.key] = job[j].row.status] /\ Goto(j, "build")
      /\ exposed' = (exposed \ {job[j].row.key}) \cup ({job[j].row.key} \cap HeldBy(Jobs \ {j}))
    BY BusyServed DEF StoreStatus, At, bounds
<1>2. job[j].row \in Row
    BY <1>1 DEF Types, JobsTyped, Holding
<1>3. "build" \notin Holding /\ "build" \notin Scanning /\ "build" \in Places
    BY DEF Holding, Scanning, Places
<1>4. Becomes(j, "build", job[j].todo, job[j].scan, job[j].row, job[j].paths, job[j].fresh)
    BY <1>1, <1>3, TypeFacts, GotoBecomes
<1>5. table' \in Seq(Row)
    BY <1>1, <1>2, TypeFacts, UpdateType
<1>6. said' \in [Keys -> Statuses]
    <2>1. job[j].row.key \in Keys /\ job[j].row.status \in Statuses
        BY <1>2 DEF Row
    <2> QED
        BY <1>1, <2>1, TypeFacts
<1>7. Types'
    BY <1>1, <1>3, <1>4, <1>5, <1>6, TypeFacts, TypesAfter
<1> QED
    BY <1>1, <1>2, <1>4, <1>7
LEMMA RecheckMoves ==
    ASSUME Types, NEW j \in Jobs, Recheck(j)
    PROVE  /\ Types' /\ boot = "serving" /\ job[j].at = "recheck" /\ job[j].row \in Row
           /\ UNCHANGED <<startup, store, alerts, said, exposed, dropped, world, serial, crashes>>
           /\ \/ \E L \in SUBSET Postures :
                    /\ [job[j].row EXCEPT !.pqc = WorstOf(L)] \in Row
                    /\ Becomes(j, "restore", job[j].todo, job[j].scan,
                               [job[j].row EXCEPT !.pqc = WorstOf(L)], job[j].paths, job[j].fresh)
                    /\ looked' = [looked EXCEPT ![job[j].row.key] = L]
              \/ /\ Becomes(j, "idle", << >>, 0, << >>, {}, {})
                 /\ looked' = looked
<1>1. /\ job[j].at = "recheck" /\ boot = "serving" /\ ops' = ops
      /\ UNCHANGED <<startup, store, alerts, said, exposed, dropped, world, serial, crashes>>
    BY BusyServed DEF Recheck, At, bounds
<1>2. job[j].row \in Row
    BY <1>1 DEF Types, JobsTyped, Holding
<1>3. table' = table /\ index' = index /\ scans' = scans /\ snapshots' = snapshots
    BY <1>1 DEF store
<1> DEFINE k == job[j].row.key
<1>4. k \in Keys
    BY <1>2 DEF Row
<1>5. ASSUME NEW L \in SUBSET Postures,
             job' = [job EXCEPT ![j].at = "restore", ![j].row.pqc = WorstOf(L)],
             looked' = [looked EXCEPT ![k] = L]
      PROVE  /\ Types' /\ [job[j].row EXCEPT !.pqc = WorstOf(L)] \in Row
             /\ Becomes(j, "restore", job[j].todo, job[j].scan,
                        [job[j].row EXCEPT !.pqc = WorstOf(L)], job[j].paths, job[j].fresh)
    <2> DEFINE n == [job[j].row EXCEPT !.pqc = WorstOf(L)]
    <2>0. n \in Row
        <3>1. WorstOf(L) \in Postures
            BY DEF WorstOf, Postures
        <3> QED
            BY <1>2, <3>1 DEF Row
    <2> DEFINE o == job[j]
               s == [o EXCEPT !.at = "restore", !.row = n]
    <2>1. job' = [job EXCEPT ![j] = s]
        BY <1>5
    <2>2. o \in JobType /\ "restore" \in Places
        BY TypeFacts DEF Places
    <2> HIDE DEF o, n
    <2>3. /\ s \in JobType /\ s.at = "restore" /\ s.todo = o.todo /\ s.scan = o.scan
          /\ s.row = n /\ s.paths = o.paths /\ s.fresh = o.fresh
        BY <2>0, <2>2 DEF JobType
    <2> HIDE DEF s
    <2>4. Becomes(j, s.at, s.todo, s.scan, s.row, s.paths, s.fresh)
        BY <2>1, <2>3, TypeFacts, JobBecomes
    <2>5. Becomes(j, "restore", job[j].todo, job[j].scan, n, job[j].paths, job[j].fresh)
        BY <2>3, <2>4 DEF o
    <2>6. looked' \in [Keys -> SUBSET Postures] /\ "restore" \notin Scanning
        BY <1>4, <1>5, TypeFacts DEF Scanning
    <2>7. Types'
        BY <1>1, <1>3, <2>0, <2>5, <2>6, TypeFacts, TypesAfter
    <2> QED
        BY <2>0, <2>5, <2>7 DEF n
<1>6. CASE job' = [job EXCEPT ![j] = Idle] /\ looked' = looked
    <2>1. Becomes(j, "idle", << >>, 0, << >>, {}, {})
        BY <1>6, TypeFacts, IdleBecomes
    <2>2. "idle" \notin Scanning /\ "idle" \notin Holding
        BY DEF Scanning, Holding
    <2>3. Types'
        BY <1>1, <1>3, <1>6, <2>1, <2>2, TypeFacts, TypesAfter
    <2> QED
        BY <1>1, <1>2, <1>6, <2>1, <2>3
<1>7. CASE \E S \in SUBSET EndpointOf(k) :
             LET fresh == {world[m] : m \in S}
             IN  /\ job' = [job EXCEPT ![j].at = "restore", ![j].row.pqc = WorstOf(fresh)]
                 /\ looked' = [looked EXCEPT ![k] = fresh]
    <2>1. PICK S \in SUBSET EndpointOf(k) :
             LET fresh == {world[m] : m \in S}
             IN  /\ job' = [job EXCEPT ![j].at = "restore", ![j].row.pqc = WorstOf(fresh)]
                 /\ looked' = [looked EXCEPT ![k] = fresh]
        BY <1>7
    <2> DEFINE L == {world[m] : m \in S}
    <2>2. S \subseteq Keys
        BY <1>4, FindingsAssumption DEF EndpointOf
    <2>3. L \in SUBSET Postures
        BY <2>2, TypeFacts
    <2>4. /\ job' = [job EXCEPT ![j].at = "restore", ![j].row.pqc = WorstOf(L)]
          /\ looked' = [looked EXCEPT ![k] = L]
        BY <2>1
    <2> HIDE DEF L
    <2> QED
        BY <1>1, <1>2, <1>5, <2>3, <2>4
<1>8. \/ job' = [job EXCEPT ![j] = Idle] /\ looked' = looked
      \/ \E S \in SUBSET EndpointOf(k) :
             LET fresh == {world[m] : m \in S}
             IN  /\ job' = [job EXCEPT ![j].at = "restore", ![j].row.pqc = WorstOf(fresh)]
                 /\ looked' = [looked EXCEPT ![k] = fresh]
    BY DEF Recheck
<1> QED
    BY <1>1, <1>2, <1>6, <1>7, <1>8

LEMMA RestoreMoves ==
    ASSUME Types, NEW j \in Jobs, StorePosture(j)
    PROVE  /\ Types' /\ boot = "serving" /\ job[j].at = "restore" /\ job[j].row \in Row
           /\ UNCHANGED <<startup, index, scans, snapshots, alerts, ghosts, world, serial, crashes>>
           /\ table' = update_finding(job[j].row)
           /\ \/ Becomes(j, "build", job[j].todo, job[j].scan, job[j].row, job[j].paths, job[j].fresh)
              \/ Becomes(j, "idle", << >>, 0, << >>, {}, {})
<1>1. /\ job[j].at = "restore" /\ boot = "serving" /\ ops' = ops /\ table' = update_finding(job[j].row)
      /\ UNCHANGED <<startup, index, scans, snapshots, alerts, ghosts, world, serial, crashes>>
    BY BusyServed DEF StorePosture, At, bounds
<1>2. job[j].row \in Row
    BY <1>1 DEF Types, JobsTyped, Holding
<1>3. table' \in Seq(Row)
    BY <1>1, <1>2, TypeFacts, UpdateType
<1>4. CASE job[j].row.pqc = "hybrid"
    <2>1. Goto(j, "build") /\ "build" \in Places
        BY <1>4 DEF StorePosture, Goto, Places
    <2>2. Becomes(j, "build", job[j].todo, job[j].scan, job[j].row, job[j].paths, job[j].fresh)
        BY <2>1, TypeFacts, GotoBecomes
    <2>3. "build" \notin Scanning /\ "build" \notin Holding
        BY DEF Scanning, Holding
    <2>4. Types'
        BY <1>1, <1>3, <2>2, <2>3, TypeFacts, TypesAfter
    <2> QED
        BY <1>1, <1>2, <2>2, <2>4
<1>5. CASE job[j].row.pqc # "hybrid"
    <2>1. job' = [job EXCEPT ![j] = Idle]
        BY <1>5 DEF StorePosture
    <2>2. Becomes(j, "idle", << >>, 0, << >>, {}, {})
        BY <2>1, TypeFacts, IdleBecomes
    <2>3. "idle" \notin Scanning /\ "idle" \notin Holding
        BY DEF Scanning, Holding
    <2>4. Types'
        BY <1>1, <1>3, <2>2, <2>3, TypeFacts, TypesAfter
    <2> QED
        BY <1>1, <1>2, <2>2, <2>4
<1> QED
    BY <1>4, <1>5

LEMMA BuildMoves ==
    ASSUME Types, NEW j \in Jobs, BuildGraph(j)
    PROVE  /\ Types' /\ boot = "serving" /\ job[j].at = "build"
           /\ UNCHANGED <<startup, store, alerts, ghosts, world, serial, crashes>>
           /\ Becomes(j, "compare", job[j].todo, job[j].scan, job[j].row, Paths(table), job[j].fresh)
<1>1. /\ job[j].at = "build" /\ boot = "serving" /\ ops' = ops
      /\ UNCHANGED <<startup, store, alerts, ghosts, world, serial, crashes>>
    BY BusyServed DEF BuildGraph, At, bounds
<1>2. Paths(table) \in SUBSET Keys
    <2>1. \A r \in Range(table) : r.key \in Keys
        BY TypeFacts, RowsOfTable, RowFields
    <2> QED
        BY <2>1 DEF Paths
<1>3. Becomes(j, "compare", job[j].todo, job[j].scan, job[j].row, Paths(table), job[j].fresh)
    <2> DEFINE o == job[j]
               p == Paths(table)
               s == [o EXCEPT !.at = "compare", !.paths = p]
    <2>1. job' = [job EXCEPT ![j] = s]
        BY DEF BuildGraph
    <2>2. o \in JobType /\ "compare" \in Places
        BY TypeFacts DEF Places
    <2> HIDE DEF o, p
    <2>3. /\ s \in JobType /\ s.at = "compare" /\ s.todo = o.todo /\ s.scan = o.scan
          /\ s.row = o.row /\ s.paths = p /\ s.fresh = o.fresh
        BY <1>2, <2>2 DEF JobType, p
    <2> HIDE DEF s
    <2>4. Becomes(j, s.at, s.todo, s.scan, s.row, s.paths, s.fresh)
        BY <2>1, <2>3, TypeFacts, JobBecomes
    <2> QED
        BY <2>3, <2>4 DEF o, p
<1>4. "compare" \notin Scanning /\ "compare" \notin Holding
    BY DEF Scanning, Holding
<1>5. table' = table /\ index' = index /\ scans' = scans /\ snapshots' = snapshots
    BY <1>1 DEF store
<1>6. Types'
    BY <1>1, <1>3, <1>4, <1>5, TypeFacts, TypesAfter
<1> QED
    BY <1>1, <1>3, <1>6

LEMMA CompareMoves ==
    ASSUME Types, NEW j \in Jobs, CompareSnapshot(j)
    PROVE  /\ Types' /\ boot = "serving" /\ job[j].at = "compare"
           /\ UNCHANGED <<startup, store, alerts, ghosts, world, serial, crashes>>
           /\ Becomes(j, "record", job[j].todo, job[j].scan, job[j].row, job[j].paths,
                      NewPaths(job[j].paths))
<1>1. /\ job[j].at = "compare" /\ boot = "serving" /\ ops' = ops
      /\ UNCHANGED <<startup, store, alerts, ghosts, world, serial, crashes>>
    BY BusyServed DEF CompareSnapshot, At, bounds
<1>2. NewPaths(job[j].paths) \in SUBSET Keys
    BY TypeFacts, JobFields DEF NewPaths
<1>3. Becomes(j, "record", job[j].todo, job[j].scan, job[j].row, job[j].paths, NewPaths(job[j].paths))
    <2> DEFINE o == job[j]
               p == NewPaths(o.paths)
               s == [o EXCEPT !.at = "record", !.fresh = p]
    <2>1. job' = [job EXCEPT ![j] = s]
        BY DEF CompareSnapshot
    <2>2. o \in JobType /\ "record" \in Places /\ p \in SUBSET Keys
        BY <1>2, TypeFacts DEF Places
    <2> HIDE DEF o, p
    <2>3. /\ s \in JobType /\ s.at = "record" /\ s.todo = o.todo /\ s.scan = o.scan
          /\ s.row = o.row /\ s.paths = o.paths /\ s.fresh = p
        BY <2>2 DEF JobType
    <2> HIDE DEF s
    <2>4. Becomes(j, s.at, s.todo, s.scan, s.row, s.paths, s.fresh)
        BY <2>1, <2>3, TypeFacts, JobBecomes
    <2> QED
        BY <2>3, <2>4 DEF o, p
<1>4. "record" \notin Scanning /\ "record" \notin Holding
    BY DEF Scanning, Holding
<1>5. table' = table /\ index' = index /\ scans' = scans /\ snapshots' = snapshots
    BY <1>1 DEF store
<1>6. Types'
    BY <1>1, <1>3, <1>4, <1>5, TypeFacts, TypesAfter
<1> QED
    BY <1>1, <1>3, <1>6

LEMMA RecordMoves ==
    ASSUME Types, NEW j \in Jobs, RecordSnapshot(j)
    PROVE  /\ Types' /\ boot = "serving" /\ job[j].at = "record"
           /\ UNCHANGED <<startup, table, index, scans, alerts, ghosts, world, serial, crashes>>
           /\ snapshots' = Append(snapshots, job[j].paths)
           /\ Becomes(j, "alert", job[j].todo, job[j].scan, job[j].row, job[j].paths, job[j].fresh)
<1>1. /\ job[j].at = "record" /\ boot = "serving" /\ ops' = ops
      /\ UNCHANGED <<startup, table, index, scans, alerts, ghosts, world, serial, crashes>>
      /\ snapshots' = Append(snapshots, job[j].paths) /\ Goto(j, "alert")
    BY BusyServed DEF RecordSnapshot, At, bounds
<1>2. Becomes(j, "alert", job[j].todo, job[j].scan, job[j].row, job[j].paths, job[j].fresh)
    BY <1>1, TypeFacts, GotoBecomes DEF Places
<1>3. "alert" \notin Scanning /\ "alert" \notin Holding
    BY DEF Scanning, Holding
<1>4. snapshots' \in Seq(SUBSET Keys)
    BY <1>1, TypeFacts, JobFields, AppendFacts
<1>5. Types'
    BY <1>1, <1>2, <1>3, <1>4, TypeFacts, TypesAfter
<1> QED
    BY <1>1, <1>2, <1>5

LEMMA AlertMoves ==
    ASSUME Types, NEW j \in Jobs, AlertPath(j)
    PROVE  /\ Types' /\ boot = "serving" /\ job[j].at = "alert"
           /\ UNCHANGED <<startup, store, ghosts, world, serial, crashes>>
           /\ \/ \E k \in job[j].fresh \cap Severe :
                    /\ k \in Keys /\ alerts' = [alerts EXCEPT ![k] = @ + 1]
                    /\ Becomes(j, "alert", job[j].todo, job[j].scan, job[j].row, job[j].paths,
                               job[j].fresh \ {k})
              \/ /\ job[j].fresh \cap Severe = {} /\ alerts' = alerts
                 /\ Becomes(j, "idle", << >>, 0, << >>, {}, {})
<1>1. /\ job[j].at = "alert" /\ boot = "serving" /\ ops' = ops
      /\ UNCHANGED <<startup, store, ghosts, world, serial, crashes>>
    BY BusyServed DEF AlertPath, At, bounds
<1>2. table' = table /\ index' = index /\ scans' = scans /\ snapshots' = snapshots
    BY <1>1 DEF store
<1>3. ASSUME NEW k \in job[j].fresh \cap Severe,
             alerts' = [alerts EXCEPT ![k] = @ + 1], job' = [job EXCEPT ![j].fresh = @ \ {k}]
      PROVE  /\ k \in Keys /\ Types'
             /\ Becomes(j, "alert", job[j].todo, job[j].scan, job[j].row, job[j].paths, job[j].fresh \ {k})
    <2> DEFINE o == job[j]
               f == o.fresh \ {k}
               s == [o EXCEPT !.fresh = f]
    <2>1. job' = [job EXCEPT ![j] = s]
        BY <1>3
    <2>2. o \in JobType /\ o.at = "alert" /\ f \in SUBSET Keys
        BY <1>1, TypeFacts, JobFields
    <2> HIDE DEF o, f
    <2>3. /\ s \in JobType /\ s.at = "alert" /\ s.todo = o.todo /\ s.scan = o.scan
          /\ s.row = o.row /\ s.paths = o.paths /\ s.fresh = f
        BY <2>2 DEF JobType
    <2> HIDE DEF s
    <2>4. Becomes(j, s.at, s.todo, s.scan, s.row, s.paths, s.fresh)
        BY <2>1, <2>3, TypeFacts, JobBecomes
    <2>5. Becomes(j, "alert", job[j].todo, job[j].scan, job[j].row, job[j].paths, job[j].fresh \ {k})
        BY <2>3, <2>4 DEF o, f
    <2>6. k \in Keys
        BY TypeFacts, JobFields
    <2>7. alerts' \in [Keys -> Nat]
        BY <1>3, <2>6, TypeFacts
    <2>8. "alert" \notin Scanning /\ "alert" \notin Holding
        BY DEF Scanning, Holding
    <2>9. Types'
        BY <1>1, <1>2, <2>5, <2>7, <2>8, TypeFacts, TypesAfter
    <2> QED
        BY <2>5, <2>6, <2>9
<1>4. ASSUME job[j].fresh \cap Severe = {}, job' = [job EXCEPT ![j] = Idle], alerts' = alerts
      PROVE  Types' /\ Becomes(j, "idle", << >>, 0, << >>, {}, {})
    <2>1. Becomes(j, "idle", << >>, 0, << >>, {}, {})
        BY <1>4, TypeFacts, IdleBecomes
    <2>2. "idle" \notin Scanning /\ "idle" \notin Holding
        BY DEF Scanning, Holding
    <2>3. Types'
        BY <1>1, <1>2, <1>4, <2>1, <2>2, TypeFacts, TypesAfter
    <2> QED
        BY <2>1, <2>3
<1>5. CASE \E k \in job[j].fresh \cap Severe :
             alerts' = [alerts EXCEPT ![k] = @ + 1] /\ job' = [job EXCEPT ![j].fresh = @ \ {k}]
    BY <1>1, <1>3, <1>5
<1>6. CASE job[j].fresh \cap Severe = {} /\ job' = [job EXCEPT ![j] = Idle] /\ alerts' = alerts
    BY <1>1, <1>4, <1>6
<1> QED
    BY <1>5, <1>6 DEF AlertPath
-----------------------------------------------------------------------------
(* The migration. *)

\* A finding of the table has a newest row.
LEMMA NewestExists ==
    ASSUME NEW t \in Seq(Row), NEW n \in DOMAIN t
    PROVE  \E m \in NewestRows(t) : t[m].key = t[n].key
<1> DEFINE L == Len(t)
           T == {x \in 0..L : \E i \in 1..L : x = L - i /\ t[i].key = t[n].key}
<1>1. L \in Nat /\ DOMAIN t = 1..L
    OBVIOUS
<1> HIDE DEF L
<1>2. L - n \in T /\ T \subseteq Nat
    BY <1>1
<1>3. PICK x \in T : \A y \in T : ~(<<y, x>> \in OpToRel(<, Nat))
    BY <1>2, NatLessThanWellFounded, WFMin
<1>4. \A y \in T : ~(y < x)
    BY <1>2, <1>3 DEF OpToRel
<1>5. PICK m \in 1..L : x = L - m /\ t[m].key = t[n].key
    OBVIOUS
<1>6. ASSUME NEW i \in 1..L, t[i].key = t[m].key PROVE i <= m
    <2>1. L - i \in T
        BY <1>1, <1>5, <1>6
    <2>2. ~(L - i < L - m)
        BY <1>4, <1>5, <2>1
    <2> HIDE DEF T
    <2> QED
        BY <1>1, <2>2
<1> QED
    BY <1>1, <1>5, <1>6 DEF NewestRows

Kept(t, n) == [t[n] EXCEPT !.id = stable_finding_id(t[n].key)]

\* What the migration keeps: one row for each finding of the table, the newest.
LEMMA KeepFacts ==
    ASSUME NEW t \in Seq(Row)
    PROVE  /\ KeepNewest(t) \subseteq Row
           /\ \A r \in KeepNewest(t) :
                 /\ r.id = stable_finding_id(r.key)
                 /\ \E n \in NewestRows(t) :
                       /\ n \in DOMAIN t /\ r = Kept(t, n) /\ r.key = t[n].key
                       /\ r.scan = t[n].scan /\ r.pqc = t[n].pqc /\ r.status = t[n].status
           /\ \A n \in DOMAIN t : \E r \in KeepNewest(t) : r.key = t[n].key
           /\ \A q, r \in KeepNewest(t) : q.key = r.key => q = r
           /\ \A n \in NewestRows(t) : Kept(t, n) \in KeepNewest(t)
<1>1. Len(t) \in Nat /\ DOMAIN t = 1..Len(t) /\ \A n \in DOMAIN t : t[n] \in Row
    OBVIOUS
<1>2. NewestRows(t) \subseteq DOMAIN t
    BY DEF NewestRows
<1>3. ASSUME NEW n \in DOMAIN t
      PROVE  /\ Kept(t, n) \in Row /\ Kept(t, n).key = t[n].key
             /\ Kept(t, n).id = stable_finding_id(t[n].key) /\ Kept(t, n).scan = t[n].scan
             /\ Kept(t, n).pqc = t[n].pqc /\ Kept(t, n).status = t[n].status
    <2> DEFINE r == t[n]
               d == stable_finding_id(r.key)
    <2>1. r \in Row
        BY <1>1
    <2>2. d \in Keys \X Nat
        BY <2>1, RowFields DEF stable_finding_id
    <2>3. Kept(t, n) = [r EXCEPT !.id = d]
        BY DEF Kept
    <2> HIDE DEF r, d
    <2>4. /\ [r EXCEPT !.id = d] \in Row /\ [r EXCEPT !.id = d].key = r.key
          /\ [r EXCEPT !.id = d].id = d /\ [r EXCEPT !.id = d].scan = r.scan
          /\ [r EXCEPT !.id = d].pqc = r.pqc /\ [r EXCEPT !.id = d].status = r.status
        BY <2>1, <2>2 DEF Row
    <2> QED
        BY <2>3, <2>4 DEF r, d
<1>4. KeepNewest(t) = {Kept(t, n) : n \in NewestRows(t)}
    BY DEF KeepNewest, Kept
<1>5. \A r \in KeepNewest(t) : \E n \in NewestRows(t) : r = Kept(t, n)
    BY <1>4
<1>6. \A n \in NewestRows(t) : Kept(t, n) \in KeepNewest(t)
    BY <1>4
<1>7. ASSUME NEW r \in KeepNewest(t)
      PROVE  /\ r \in Row /\ r.id = stable_finding_id(r.key)
             /\ \E n \in NewestRows(t) :
                       /\ n \in DOMAIN t /\ r = Kept(t, n) /\ r.key = t[n].key
                       /\ r.scan = t[n].scan /\ r.pqc = t[n].pqc /\ r.status = t[n].status
    <2>1. PICK n \in NewestRows(t) : r = Kept(t, n)
        BY <1>5
    <2> QED
        BY <1>2, <1>3, <2>1
<1>8. ASSUME NEW n \in DOMAIN t PROVE \E r \in KeepNewest(t) : r.key = t[n].key
    <2>1. PICK m \in NewestRows(t) : t[m].key = t[n].key
        BY NewestExists
    <2> QED
        BY <1>2, <1>3, <1>6, <2>1
<1>9. ASSUME NEW q \in KeepNewest(t), NEW r \in KeepNewest(t), q.key = r.key PROVE q = r
    <2>1. PICK m \in NewestRows(t) : q = Kept(t, m)
        BY <1>5
    <2>2. PICK n \in NewestRows(t) : r = Kept(t, n)
        BY <1>5
    <2>3. t[m].key = t[n].key
        BY <1>2, <1>3, <1>9, <2>1, <2>2
    <2>4. m <= n /\ n <= m
        BY <1>2, <2>3 DEF NewestRows
    <2> QED
        BY <1>1, <1>2, <2>1, <2>2, <2>4
<1> QED
    BY <1>6, <1>7, <1>8, <1>9

\* The rows to insert again, as a sequence.
LEMMA KeptRows ==
    ASSUME NEW t \in Seq(Row)
    PROVE  /\ IsFiniteSet(KeepNewest(t)) /\ SetToSeq(KeepNewest(t)) \in Seq(Row)
           /\ Range(SetToSeq(KeepNewest(t))) = KeepNewest(t)
           /\ Distinct(SetToSeq(KeepNewest(t))) /\ Stable(SetToSeq(KeepNewest(t)))
           /\ Cardinality(KeepNewest(t)) # Len(t) => SetToSeq(KeepNewest(t)) # << >>
           /\ Cardinality(KeepNewest(t)) = Len(t) => Distinct(t)
<1> DEFINE K == KeepNewest(t)
           N == NewestRows(t)
           f == [n \in N |-> Kept(t, n)]
           s == SetToSeq(K)
<1>1. Len(t) \in Nat /\ DOMAIN t = 1..Len(t)
    OBVIOUS
<1>2. /\ N \subseteq 1..Len(t) /\ IsFiniteSet(N) /\ Cardinality(N) \in Nat
      /\ Cardinality(N) <= Len(t) /\ (Cardinality(N) = Len(t) => N = 1..Len(t))
    <2>1. N \subseteq 1..Len(t)
        BY <1>1 DEF NewestRows
    <2>2. IsFiniteSet(1..Len(t)) /\ Cardinality(1..Len(t)) = Len(t)
        BY <1>1, FS_Interval
    <2> HIDE DEF N
    <2> QED
        BY <2>1, <2>2, FS_Subset, FS_CardinalityType
<1>3. f \in Surjection(N, K)
    <2>1. \A n \in N : Kept(t, n) \in K
        BY KeepFacts
    <2>2. \A r \in K : \E n \in N : r = Kept(t, n)
        BY KeepFacts
    <2> HIDE DEF N, K
    <2> QED
        BY <2>1, <2>2 DEF Surjection
<1>4. IsFiniteSet(K) /\ Cardinality(K) \in Nat /\ Cardinality(K) <= Cardinality(N)
    BY <1>2, <1>3, FS_Surjection, FS_CardinalityType
<1>5. Cardinality(K) = Len(t) => Distinct(t)
    <2> SUFFICES ASSUME Cardinality(K) = Len(t) PROVE Distinct(t)
        OBVIOUS
    <2>1. N = 1..Len(t)
        BY <1>2, <1>4
    <2>2. \A m, n \in 1..Len(t) : t[m].key = t[n].key => m <= n
        BY <1>1, <2>1 DEF NewestRows
    <2> QED
        BY <1>1, <2>2 DEF Distinct
<1>6. K \subseteq Row /\ \A r \in K : r.id = stable_finding_id(r.key)
    BY KeepFacts
<1>7. \A q, r \in K : q.key = r.key => q = r
    BY KeepFacts
<1>8. \A n \in 1..Len(t) : K # {}
    BY <1>1, KeepFacts
<1> HIDE DEF K
<1>9. /\ s \in Seq(K) /\ Range(s) = K /\ Len(s) = Cardinality(K)
      /\ \A m, n \in 1..Len(s) : s[m] = s[n] => m = n
    BY <1>4, SetToSeqFacts
<1> HIDE DEF s
<1>10. DOMAIN s = 1..Len(s) /\ \A n \in 1..Len(s) : s[n] \in K
    BY <1>9
<1>11. Distinct(s) /\ Stable(s)
    BY <1>6, <1>7, <1>9, <1>10 DEF Distinct, Stable
<1>12. s \in Seq(Row)
    BY <1>6, <1>9
<1>13. ASSUME Cardinality(K) # Len(t) PROVE s # << >>
    <2>1. Cardinality(K) # 0 \/ Len(t) # 0
        BY <1>13
    <2>2. CASE Len(t) # 0
        <3>1. K # {}
            BY <1>1, <1>8, <2>2
        <3> QED
            BY <1>9, <3>1 DEF Range
    <2>3. CASE Cardinality(K) # 0
        BY <1>9, <2>3
    <2> QED
        BY <2>1, <2>2, <2>3
<1> QED
    BY <1>4, <1>5, <1>9, <1>11, <1>12, <1>13 DEF K, s
LEMMA BootTypes ==
    ASSUME Types, Boot
    PROVE  /\ Types' /\ boot # "serving"
           /\ UNCHANGED <<serial, scans, snapshots, alerts, job, ghosts, crashes>>
           /\ \A j \in Jobs : job[j].at = "idle"
<1>1. /\ boot # "serving" /\ UNCHANGED <<serial, scans, snapshots, alerts, job, world, ghosts, bounds>>
    BY DEF Boot, DedupeRead, DedupeDelete, DedupeInsert, CreateIndex, store
<1>2. /\ \A j \in Jobs : job[j].at = "idle"
      /\ boot \in {"delete", "reinsert"} => kept # << >>
    BY <1>1 DEF Types, JobsTyped
<1>3. ASSUME boot' \in {"dedupe", "delete", "reinsert", "index", "serving"},
             kept' \in Seq(Row), table' \in Seq(Row), index' \in BOOLEAN,
             boot' \in {"delete", "reinsert"} => kept' # << >>
      PROVE  Types'
    <2>1. FindingsTypeOK'
        BY <1>1, <1>3, TypeFacts DEF FindingsTypeOK
    <2>2. /\ ops' = ops /\ crashes' = crashes /\ job' = job /\ said' = said /\ looked' = looked
          /\ \A j \in Jobs : job'[j].at = "idle"
        BY <1>1, <1>2 DEF bounds
    <2>3. "idle" \notin Scanning /\ "idle" \notin Holding
        BY DEF Scanning, Holding
    <2> QED
        BY <1>3, <2>1, <2>2, <2>3, TypeFacts DEF Types, JobsTyped
<1>4. CASE DedupeRead
    <2>1. /\ kept' = SetToSeq(KeepNewest(table)) /\ table' = table /\ index' = index
          /\ boot' = IF Cardinality(KeepNewest(table)) = Len(table) THEN "index" ELSE "delete"
        BY <1>4 DEF DedupeRead, store
    <2>2. boot' \in {"delete", "reinsert"} => kept' # << >>
        BY <2>1, TypeFacts, KeptRows
    <2>3. kept' \in Seq(Row)
        BY <2>1, TypeFacts, KeptRows
    <2> QED
        BY <1>1, <1>2, <1>3, <2>1, <2>2, <2>3, TypeFacts DEF bounds
<1>5. CASE DedupeDelete
    <2>1. table' = << >> /\ boot' = "reinsert" /\ kept' = kept /\ index' = index /\ boot = "delete"
        BY <1>5 DEF DedupeDelete
    <2>2. << >> \in Seq(Row)
        OBVIOUS
    <2> QED
        BY <1>1, <1>2, <1>3, <2>1, <2>2, TypeFacts DEF bounds
<1>6. CASE DedupeInsert
    <2>1. /\ table' = Append(table, Head(kept)) /\ kept' = Tail(kept) /\ boot = "reinsert"
          /\ boot' = IF Tail(kept) = << >> THEN "index" ELSE "reinsert"
          /\ index' = index
        BY <1>6 DEF DedupeInsert
    <2>2. Head(kept) \in Row /\ Tail(kept) \in Seq(Row)
        BY <1>2, <2>1, TypeFacts
    <2>3. table' \in Seq(Row)
        BY <2>1, <2>2, TypeFacts, AppendFacts
    <2> QED
        BY <1>1, <1>2, <1>3, <2>1, <2>2, <2>3, TypeFacts DEF bounds
<1>7. CASE CreateIndex
    <2>1. /\ boot' = "serving" /\ kept' = << >> /\ table' = table
          /\ index' \in BOOLEAN
        BY <1>7 DEF CreateIndex, IsInjective
    <2>2. << >> \in Seq(Row)
        OBVIOUS
    <2> QED
        BY <1>1, <1>2, <1>3, <2>1, <2>2, TypeFacts DEF bounds
<1> QED
    BY <1>4, <1>5, <1>6, <1>7 DEF Boot

LEMMA CrashTypes ==
    ASSUME Types, Crash
    PROVE  /\ Types' /\ UNCHANGED <<serial, store, alerts, said, looked, world>>
           /\ boot' = "dedupe" /\ kept' = << >> /\ crashes' = crashes + 1
           /\ \A j \in Jobs : job'[j] = Idle /\ job'[j].at = "idle"
<1>1. /\ boot' = "dedupe" /\ kept' = << >> /\ job' = [j \in Jobs |-> Idle] /\ crashes' = crashes + 1
      /\ ops' = ops /\ UNCHANGED <<serial, store, alerts, said, looked, world>>
    BY DEF Crash
<1>2. /\ job' \in [Jobs -> JobType] /\ \A j \in Jobs : job'[j] = Idle /\ job'[j].at = "idle"
    BY <1>1, IdleFacts
<1>3. << >> \in Seq(Row)
    OBVIOUS
<1>4. FindingsTypeOK'
    BY <1>1, <1>3, TypeFacts DEF FindingsTypeOK, store
<1>5. "idle" \notin Scanning /\ "idle" \notin Holding
    BY DEF Scanning, Holding
<1>6. crashes' \in Nat
    BY <1>1, TypeFacts
<1> QED
    BY <1>1, <1>2, <1>4, <1>5, <1>6, TypeFacts DEF Types, JobsTyped

LEMMA WorldTypes ==
    ASSUME Types, NEW k \in Keys, WorldChanges(k)
    PROVE  Types' /\ UNCHANGED <<serial, startup, store, alerts, job, ghosts, crashes>>
<1>1. /\ world' = [world EXCEPT ![k] = IF @ = "weak" THEN "hybrid" ELSE "weak"] /\ ops' = ops
      /\ UNCHANGED <<serial, startup, store, alerts, job, ghosts, crashes>>
    BY DEF WorldChanges
<1>2. world' \in [Keys -> Postures]
    BY <1>1, TypeFacts DEF Postures
<1>3. /\ boot' = boot /\ kept' = kept /\ table' = table /\ index' = index /\ scans' = scans
      /\ snapshots' = snapshots /\ alerts' = alerts /\ job' = job /\ said' = said
      /\ looked' = looked /\ ops' = ops /\ crashes' = crashes
    BY <1>1 DEF startup, store
<1>4. FindingsTypeOK'
    BY <1>2, <1>3 DEF Types, FindingsTypeOK
<1>5. JobsTyped'
    BY <1>3 DEF Types, JobsTyped
<1> QED
    BY <1>1, <1>4, <1>5 DEF Types

\* Nothing changes.
LEMMA StutterTypes ==
    ASSUME UNCHANGED findingsVars
    PROVE  UNCHANGED <<boot, kept, table, index, scans, snapshots, alerts, world, ghosts,
                       serial, job, ops, crashes>>
BY DEF findingsVars, startup, store, bounds

\* The start.
LEMMA InitTypes ==
    ASSUME FindingsInit
    PROVE  /\ Types /\ \A j \in Jobs : job[j] = Idle /\ job[j].at = "idle"
<1>1. /\ boot = "dedupe" /\ kept = << >> /\ table \in OldTables(origin) /\ origin \in Origins
      /\ index = FALSE /\ scans = {0} /\ snapshots = << >> /\ alerts = [k \in Keys |-> 0]
      /\ job = [j \in Jobs |-> Idle] /\ world = [k \in Keys |-> "weak"]
      /\ said = [k \in Keys |-> NewestStatus(table, k)]
      /\ looked = [k \in Keys |-> {"weak"}] /\ ops = 0 /\ crashes = 0
    BY DEF FindingsInit
<1>2. \A k \in Keys, n \in 1..3, s \in Statuses : OldRow(k, n, s) \in Row
    BY DEF OldRow, Row, Postures
<1>3. table \in Seq(Row)
    <2>1. CASE origin = "fresh"
        BY <1>1, <2>1 DEF OldTables
    <2>2. CASE origin = "single"
        <3>1. PICK k \in Keys : \E s \in Statuses : table = <<OldRow(k, 1, s)>>
            BY <1>1, <2>2 DEF OldTables
        <3>2. PICK s \in Statuses : table = <<OldRow(k, 1, s)>>
            BY <3>1
        <3> DEFINE a == OldRow(k, 1, s)
        <3>3. a \in Row
            BY <1>2
        <3> HIDE DEF a
        <3> QED
            BY <3>2, <3>3 DEF a
    <2>3. CASE origin = "duplicates"
        <3>1. \E k \in Keys, m \in Keys, s \in Statuses, t \in Statuses, u \in Statuses :
                 table = <<OldRow(k, 1, s), OldRow(k, 2, t), OldRow(m, 3, u)>>
            BY <1>1, <2>3 DEF OldTables
        <3>2. PICK k \in Keys, m \in Keys, s \in Statuses, t \in Statuses, u \in Statuses :
                 table = <<OldRow(k, 1, s), OldRow(k, 2, t), OldRow(m, 3, u)>>
            BY <3>1
        <3> DEFINE a == OldRow(k, 1, s)
                   b == OldRow(k, 2, t)
                   c == OldRow(m, 3, u)
        <3>3. a \in Row /\ b \in Row /\ c \in Row
            BY <1>2
        <3>4. table = <<a, b, c>>
            BY <3>2
        <3> HIDE DEF a, b, c
        <3> QED
            BY <3>3, <3>4
    <2> QED
        BY <1>1, <2>1, <2>2, <2>3, FindingsAssumption
<1>4. \A k \in Keys : NewestStatus(table, k) \in Statuses
    <2> SUFFICES ASSUME NEW k \in Keys, k \in KeysOf(table)
                 PROVE  NewestStatus(table, k) \in Statuses
        BY DEF NewestStatus, Statuses
    <2>1. PICK n \in DOMAIN table : table[n].key = k
        BY <1>3, RowsOfTable DEF KeysOf
    <2>2. \E m \in NewestRows(table) : table[m].key = k
        BY <1>3, <2>1, NewestExists
    <2> DEFINE m == CHOOSE x \in NewestRows(table) : table[x].key = k
    <2>3. m \in DOMAIN table
        BY <2>2 DEF NewestRows
    <2>4. NewestStatus(table, k) = table[m].status
        BY DEF NewestStatus
    <2> HIDE DEF m
    <2>5. table[m] \in Row
        BY <1>3, <2>3
    <2> QED
        BY <2>4, <2>5, RowFields
<1>5. job \in [Jobs -> JobType] /\ \A j \in Jobs : job[j] = Idle /\ job[j].at = "idle"
    BY <1>1, IdleFacts
<1>6. << >> \in Seq(Row) /\ << >> \in Seq(SUBSET Keys)
    OBVIOUS
<1>7. FindingsTypeOK
    <2>1. world \in [Keys -> Postures] /\ alerts \in [Keys -> Nat]
        BY <1>1 DEF Postures
    <2>2. index \in BOOLEAN
        BY <1>1, Zenon
    <2>3. scans \subseteq Nat
        BY <1>1
    <2> QED
        BY <1>1, <1>3, <1>6, <2>1, <2>2, <2>3 DEF FindingsTypeOK
<1>8. said \in [Keys -> Statuses] /\ looked \in [Keys -> SUBSET Postures]
    BY <1>1, <1>4 DEF Postures
<1>9. "idle" \notin Scanning /\ "idle" \notin Holding
    BY DEF Scanning, Holding
<1>10. JobsTyped
    BY <1>1, <1>5, <1>8, <1>9 DEF JobsTyped
<1> QED
    BY <1>5, <1>7, <1>10 DEF Types
-----------------------------------------------------------------------------
(* One busy handler, and the scans that rows name. *)

CoreInv == Types /\ OneBusy /\ ScanInv

\* Serial handling stays serial: the handler that moves was busy, or none was.
LEMMA BusyAfter ==
    ASSUME Types, OneBusy, NEW j \in Jobs, serial' = serial,
           NEW at, NEW todo, NEW scan, NEW row, NEW paths, NEW fresh,
           Becomes(j, at, todo, scan, row, paths, fresh),
           job[j].at # "idle" \/ (serial => Busy = {})
    PROVE  OneBusy'
<1>1. \A i \in Jobs : i # j => job'[i] = job[i]
    BY DEF Becomes
<1>2. serial => \A i \in Jobs : i # j => job[i].at = "idle"
    BY DEF OneBusy, Busy
<1> QED
    BY <1>1, <1>2 DEF OneBusy

\* A handler's step keeps ScanInv if the rows it writes or reads name scans.
LEMMA ScanAfter ==
    ASSUME Types, ScanInv, NEW j \in Jobs, UNCHANGED startup,
           NEW at, NEW todo, NEW scan, NEW row, NEW paths, NEW fresh,
           Becomes(j, at, todo, scan, row, paths, fresh),
           scans \subseteq scans', \A r \in Range(table') : r.scan \in scans',
           at \in Holding => row.scan \in scans',
           at \in {"triage", "upsert"} => scan \in scans'
    PROVE  ScanInv'
<1>1. /\ \A i \in Jobs : i # j => job'[i] = job[i]
      /\ job'[j].at = at /\ job'[j].scan = scan /\ job'[j].row = row /\ kept' = kept
    BY DEF Becomes, startup
<1>2. /\ \A i \in DOMAIN kept : kept[i].scan \in scans
      /\ \A i \in Jobs : job[i].at \in Holding => job[i].row.scan \in scans
      /\ \A i \in Jobs : job[i].at \in {"triage", "upsert"} => job[i].scan \in scans
    BY DEF ScanInv
<1>3. \A i \in Jobs : /\ job'[i].at \in Holding => job'[i].row.scan \in scans'
                      /\ job'[i].at \in {"triage", "upsert"} => job'[i].scan \in scans'
    BY <1>1, <1>2
<1>4. \A i \in DOMAIN kept' : kept'[i].scan \in scans'
    BY <1>1, <1>2
<1> QED
    BY <1>3, <1>4 DEF ScanInv, FindingHasScan

\* A row that is stored is the new one or was there.
LEMMA UpsertRange ==
    ASSUME table \in Seq(Row), NEW row \in Row, NEW r \in Range(Upsert(row))
    PROVE  r \in Range(table) \/ r = row
<1> DEFINE i == RowOf(row.id)
           s == RemoveAt(table, i)
<1>1. CASE index /\ Found(row.id)
    <2>1. i \in 1..Len(table)
        BY <1>1, GetFacts
    <2>2. Upsert(row) = Append(s, row)
        BY <1>1 DEF Upsert
    <2> HIDE DEF i
    <2>3. /\ s \in Seq(Row) /\ Len(s) = Len(table) - 1
          /\ \A n \in 1..(Len(table) - 1) : s[n] = IF n < i THEN table[n] ELSE table[n + 1]
        BY <2>1, RemoveAtFacts
    <2> HIDE DEF s
    <2>4. r \in Range(s) \cup {row}
        BY <2>2, <2>3, AppendFacts
    <2>5. ASSUME r \in Range(s) PROVE r \in Range(table)
        <3>1. PICK n \in DOMAIN s : s[n] = r
            BY <2>3, <2>5, RowsOfTable
        <3>2. n \in 1..(Len(table) - 1) /\ Len(table) \in Nat
            BY <2>3, RowsOfTable
        <3>3. n \in 1..Len(table) /\ n + 1 \in 1..Len(table)
            BY <3>2
        <3> QED
            BY <2>3, <3>1, <3>2, <3>3, RowsOfTable
    <2> QED
        BY <2>4, <2>5
<1>2. CASE ~(index /\ Found(row.id))
    BY <1>2, AppendFacts DEF Upsert
<1> QED
    BY <1>1, <1>2

LEMMA UpdateRange ==
    ASSUME table \in Seq(Row), NEW row \in Row, NEW r \in Range(update_finding(row))
    PROVE  r \in Range(table) \/ r = row
BY RowsOfTable DEF update_finding, Range

LEMMA CoreAfterHandler ==
    ASSUME CoreInv, NEW j \in Jobs, Handler(j)
    PROVE  CoreInv'
<1>0. Types /\ OneBusy /\ ScanInv /\ \A r \in Range(table) : r.scan \in scans
    BY DEF CoreInv, ScanInv, FindingHasScan
<1>1. CASE InsertScan(j)
    <2>1. /\ Types' /\ job[j].at = "insert" /\ scans' = scans \cup {job[j].scan}
          /\ UNCHANGED startup /\ table' = table /\ serial' = serial
          /\ Becomes(j, "triage", job[j].todo, job[j].scan, job[j].row, job[j].paths, job[j].fresh)
        BY <1>0, <1>1, InsertMoves
    <2>2. OneBusy'
        BY <1>0, <2>1, BusyAfter
    <2>3. "triage" \notin Holding /\ scans \subseteq scans' /\ job[j].scan \in scans'
          /\ \A r \in Range(table') : r.scan \in scans'
        BY <1>0, <2>1 DEF Holding
    <2>4. ScanInv'
        BY <1>0, <2>1, <2>3, ScanAfter
    <2> QED
        BY <2>1, <2>2, <2>4 DEF CoreInv
<1>2. CASE ReadTriage(j)
    <2>1. /\ Types' /\ job[j].at = "triage" /\ scans' = scans
          /\ UNCHANGED startup /\ table' = table /\ serial' = serial /\ NewRow(j).scan = job[j].scan
          /\ Becomes(j, "upsert", job[j].todo, job[j].scan, NewRow(j), job[j].paths, job[j].fresh)
        BY <1>0, <1>2, TriageMoves DEF store
    <2>2. OneBusy'
        BY <1>0, <2>1, BusyAfter
    <2>3. job[j].scan \in scans
        BY <1>0, <2>1 DEF ScanInv
    <2>4. ScanInv'
        BY <1>0, <2>1, <2>3, ScanAfter
    <2> QED
        BY <2>1, <2>2, <2>4 DEF CoreInv
<1>3. CASE UpsertFinding(j)
    <2> DEFINE pc == IF Tail(job[j].todo) = << >> THEN "build" ELSE "triage"
    <2>1. /\ Types' /\ job[j].at = "upsert" /\ scans' = scans /\ job[j].row \in Row
          /\ UNCHANGED startup /\ table' = Upsert(job[j].row) /\ serial' = serial
          /\ Becomes(j, pc, Tail(job[j].todo), job[j].scan, job[j].row, job[j].paths, job[j].fresh)
        BY <1>0, <1>3, UpsertMoves
    <2>2. OneBusy'
        BY <1>0, <2>1, BusyAfter
    <2>3. job[j].scan \in scans /\ job[j].row.scan \in scans
        BY <1>0, <2>1 DEF ScanInv, Holding
    <2>4. \A r \in Range(table') : r.scan \in scans'
        BY <1>0, <2>1, <2>3, UpsertRange, TypeFacts
    <2> HIDE DEF pc
    <2>5. ScanInv'
        BY <1>0, <2>1, <2>3, <2>4, ScanAfter
    <2> QED
        BY <2>1, <2>2, <2>5 DEF CoreInv
<1>4. CASE StoreStatus(j)
    <2>1. /\ Types' /\ job[j].at = "restatus" /\ scans' = scans /\ job[j].row \in Row
          /\ UNCHANGED startup /\ table' = update_finding(job[j].row) /\ serial' = serial
          /\ Becomes(j, "build", job[j].todo, job[j].scan, job[j].row, job[j].paths, job[j].fresh)
        BY <1>0, <1>4, StoreMoves
    <2>2. OneBusy'
        BY <1>0, <2>1, BusyAfter
    <2>3. job[j].row.scan \in scans /\ "build" \notin Holding
        BY <1>0, <2>1 DEF ScanInv, Holding
    <2>4. \A r \in Range(table') : r.scan \in scans'
        BY <1>0, <2>1, <2>3, UpdateRange, TypeFacts
    <2>5. ScanInv'
        BY <1>0, <2>1, <2>3, <2>4, ScanAfter
    <2> QED
        BY <2>1, <2>2, <2>5 DEF CoreInv
<1>5. CASE Recheck(j)
    <2>0. PICK L \in SUBSET Postures :
             \/ Becomes(j, "restore", job[j].todo, job[j].scan,
                        [job[j].row EXCEPT !.pqc = WorstOf(L)], job[j].paths, job[j].fresh)
             \/ Becomes(j, "idle", << >>, 0, << >>, {}, {})
        BY <1>0, <1>5, RecheckMoves
    <2> DEFINE n == [job[j].row EXCEPT !.pqc = WorstOf(L)]
    <2>1. /\ Types' /\ job[j].at = "recheck" /\ scans' = scans /\ job[j].row \in Row
          /\ UNCHANGED startup /\ table' = table /\ serial' = serial
          /\ \/ Becomes(j, "restore", job[j].todo, job[j].scan, n, job[j].paths, job[j].fresh)
             \/ Becomes(j, "idle", << >>, 0, << >>, {}, {})
        BY <1>0, <1>5, <2>0, RecheckMoves DEF store
    <2>2. job[j].row.scan \in scans /\ "idle" \notin Holding
        BY <1>0, <2>1 DEF ScanInv, Holding
    <2>3. n.scan = job[j].row.scan
        BY <2>1 DEF Row
    <2> HIDE DEF n
    <2>4. OneBusy'
        BY <1>0, <2>1, BusyAfter
    <2>5. ScanInv'
        BY <1>0, <2>1, <2>2, <2>3, ScanAfter
    <2> QED
        BY <2>1, <2>4, <2>5 DEF CoreInv
<1>6. CASE StorePosture(j)
    <2>1. /\ Types' /\ job[j].at = "restore" /\ scans' = scans /\ job[j].row \in Row
          /\ UNCHANGED startup /\ table' = update_finding(job[j].row) /\ serial' = serial
          /\ \/ Becomes(j, "build", job[j].todo, job[j].scan, job[j].row, job[j].paths, job[j].fresh)
             \/ Becomes(j, "idle", << >>, 0, << >>, {}, {})
        BY <1>0, <1>6, RestoreMoves
    <2>2. OneBusy'
        BY <1>0, <2>1, BusyAfter
    <2>3. job[j].row.scan \in scans /\ "build" \notin Holding /\ "idle" \notin Holding
        BY <1>0, <2>1 DEF ScanInv, Holding
    <2>4. \A r \in Range(table') : r.scan \in scans'
        BY <1>0, <2>1, <2>3, UpdateRange, TypeFacts
    <2>5. ScanInv'
        BY <1>0, <2>1, <2>3, <2>4, ScanAfter
    <2> QED
        BY <2>1, <2>2, <2>5 DEF CoreInv
<1>7. CASE BuildGraph(j)
    <2>1. /\ Types' /\ job[j].at = "build" /\ scans' = scans /\ "compare" \notin Holding
          /\ UNCHANGED startup /\ table' = table /\ serial' = serial
          /\ Becomes(j, "compare", job[j].todo, job[j].scan, job[j].row, Paths(table), job[j].fresh)
        BY <1>0, <1>7, BuildMoves DEF store, Holding
    <2>2. OneBusy'
        BY <1>0, <2>1, BusyAfter
    <2>3. ScanInv'
        BY <1>0, <2>1, ScanAfter
    <2> QED
        BY <2>1, <2>2, <2>3 DEF CoreInv
<1>8. CASE CompareSnapshot(j)
    <2>1. /\ Types' /\ job[j].at = "compare" /\ scans' = scans /\ "record" \notin Holding
          /\ UNCHANGED startup /\ table' = table /\ serial' = serial
          /\ Becomes(j, "record", job[j].todo, job[j].scan, job[j].row, job[j].paths, NewPaths(job[j].paths))
        BY <1>0, <1>8, CompareMoves DEF store, Holding
    <2>2. OneBusy'
        BY <1>0, <2>1, BusyAfter
    <2>3. ScanInv'
        BY <1>0, <2>1, ScanAfter
    <2> QED
        BY <2>1, <2>2, <2>3 DEF CoreInv
<1>9. CASE RecordSnapshot(j)
    <2>1. /\ Types' /\ job[j].at = "record" /\ scans' = scans /\ "alert" \notin Holding
          /\ UNCHANGED startup /\ table' = table /\ serial' = serial
          /\ Becomes(j, "alert", job[j].todo, job[j].scan, job[j].row, job[j].paths, job[j].fresh)
        BY <1>0, <1>9, RecordMoves DEF Holding
    <2>2. OneBusy'
        BY <1>0, <2>1, BusyAfter
    <2>3. ScanInv'
        BY <1>0, <2>1, ScanAfter
    <2> QED
        BY <2>1, <2>2, <2>3 DEF CoreInv
<1>10. CASE AlertPath(j)
    <2>1. /\ Types' /\ job[j].at = "alert" /\ scans' = scans /\ "alert" \notin Holding /\ "idle" \notin Holding
          /\ UNCHANGED startup /\ table' = table /\ serial' = serial
          /\ \/ \E k \in job[j].fresh :
                    Becomes(j, "alert", job[j].todo, job[j].scan, job[j].row, job[j].paths, job[j].fresh \ {k})
             \/ Becomes(j, "idle", << >>, 0, << >>, {}, {})
        BY <1>0, <1>10, AlertMoves DEF store, Holding
    <2>2. OneBusy'
        BY <1>0, <2>1, BusyAfter
    <2>3. ScanInv'
        BY <1>0, <2>1, ScanAfter
    <2> QED
        BY <2>1, <2>2, <2>3 DEF CoreInv
<1> QED
    BY <1>1, <1>2, <1>3, <1>4, <1>5, <1>6, <1>7, <1>8, <1>9, <1>10 DEF Handler
LEMMA CoreAfterRequest ==
    ASSUME CoreInv, NEW j \in Jobs, Request(j)
    PROVE  CoreInv'
<1>0. Types /\ OneBusy /\ ScanInv /\ \A r \in Range(table) : r.scan \in scans
    BY DEF CoreInv, ScanInv, FindingHasScan
<1>1. ASSUME NEW S \in SUBSET Keys, S # {}, Probe(j, S) PROVE CoreInv'
    <2>1. /\ Types' /\ (serial => Busy = {}) /\ scans' = scans /\ "insert" \notin Holding
          /\ UNCHANGED startup /\ table' = table /\ serial' = serial
          /\ Becomes(j, "insert", Seen(S), ops + 1, << >>, {}, {})
        BY <1>0, <1>1, ProbeMoves DEF store, Holding
    <2>2. OneBusy'
        BY <1>0, <2>1, BusyAfter
    <2>3. ScanInv'
        BY <1>0, <2>1, ScanAfter
    <2> QED
        BY <2>1, <2>2, <2>3 DEF CoreInv
<1>2. ASSUME NEW id, NEW s \in Statuses, SetFindingStatus(j, id, s) PROVE CoreInv'
    <2> DEFINE r == [get_finding(id) EXCEPT !.status = s]
    <2>1. /\ Types' /\ (serial => Busy = {}) /\ scans' = scans /\ Found(id)
          /\ UNCHANGED startup /\ table' = table /\ serial' = serial
          /\ Becomes(j, "restatus", << >>, 0, r, {}, {})
        BY <1>0, <1>2, StatusMoves DEF store
    <2>2. OneBusy'
        BY <1>0, <2>1, BusyAfter
    <2>3. r.scan \in scans
        <3>1. get_finding(id) \in Row /\ get_finding(id) \in Range(table)
            BY <1>0, <2>1, TypeFacts, GetFacts
        <3>2. r.scan = get_finding(id).scan
            BY <3>1 DEF Row
        <3> QED
            BY <1>0, <3>1, <3>2
    <2> HIDE DEF r
    <2>4. ScanInv'
        BY <1>0, <2>1, <2>3, ScanAfter
    <2> QED
        BY <2>1, <2>2, <2>4 DEF CoreInv
<1>3. ASSUME NEW id, VerifyFinding(j, id) PROVE CoreInv'
    <2>1. /\ Types' /\ (serial => Busy = {}) /\ scans' = scans /\ Found(id)
          /\ UNCHANGED startup /\ table' = table /\ serial' = serial
          /\ Becomes(j, "recheck", << >>, 0, get_finding(id), {}, {})
        BY <1>0, <1>3, VerifyMoves DEF store
    <2>2. OneBusy'
        BY <1>0, <2>1, BusyAfter
    <2>3. get_finding(id).scan \in scans
        BY <1>0, <2>1, TypeFacts, GetFacts
    <2>4. ScanInv'
        BY <1>0, <2>1, <2>3, ScanAfter
    <2> QED
        BY <2>1, <2>2, <2>4 DEF CoreInv
<1>4. CASE \E S \in (SUBSET Keys) \ {{}} : Probe(j, S)
    <2>1. PICK S \in (SUBSET Keys) \ {{}} : Probe(j, S)
        BY <1>4
    <2>2. S \in SUBSET Keys /\ S # {}
        OBVIOUS
    <2> QED
        BY <1>1, <2>1, <2>2
<1>5. CASE \E r \in Range(table), s \in Statuses : SetFindingStatus(j, r.id, s)
    BY <1>2, <1>5
<1>6. CASE \E r \in Range(table) : VerifyFinding(j, r.id)
    BY <1>3, <1>6
<1> QED
    BY <1>4, <1>5, <1>6 DEF Request

LEMMA CoreAfterBoot ==
    ASSUME CoreInv, Boot
    PROVE  CoreInv'
<1>0. /\ Types /\ OneBusy /\ ScanInv /\ \A r \in Range(table) : r.scan \in scans
      /\ \A i \in DOMAIN kept : kept[i].scan \in scans
    BY DEF CoreInv, ScanInv, FindingHasScan
<1>1. /\ Types' /\ boot # "serving" /\ scans' = scans /\ job' = job /\ serial' = serial
      /\ \A j \in Jobs : job[j].at = "idle"
    BY <1>0, BootTypes
<1>2. OneBusy'
    BY <1>0, <1>1 DEF OneBusy
<1>3. ASSUME \A r \in Range(table') : r.scan \in scans,
             \A i \in DOMAIN kept' : kept'[i].scan \in scans
      PROVE  ScanInv'
    BY <1>0, <1>1, <1>3 DEF ScanInv, FindingHasScan
<1>4. CASE DedupeRead
    <2>1. kept' = SetToSeq(KeepNewest(table)) /\ table' = table
        BY <1>4 DEF DedupeRead, store
    <2>2. kept' \in Seq(Row) /\ Range(kept') = KeepNewest(table)
        BY <1>0, <2>1, TypeFacts, KeptRows
    <2>3. ASSUME NEW r \in KeepNewest(table) PROVE r.scan \in scans
        <3>1. PICK n \in DOMAIN table : r.scan = table[n].scan
            BY <1>0, TypeFacts, KeepFacts
        <3> QED
            BY <1>0, <3>1, TypeFacts, RowsOfTable
    <2>4. \A i \in DOMAIN kept' : kept'[i].scan \in scans
        BY <2>2, <2>3, RowsOfTable
    <2> QED
        BY <1>0, <1>1, <1>2, <1>3, <2>1, <2>4 DEF CoreInv
<1>5. CASE DedupeDelete
    <2>1. table' = << >> /\ kept' = kept
        BY <1>5 DEF DedupeDelete
    <2>2. \A r \in Range(table') : r.scan \in scans
        BY <2>1 DEF Range
    <2> QED
        BY <1>0, <1>1, <1>2, <1>3, <2>1, <2>2 DEF CoreInv
<1>6. CASE DedupeInsert
    <2>1. table' = Append(table, Head(kept)) /\ kept' = Tail(kept) /\ boot = "reinsert"
        BY <1>6 DEF DedupeInsert
    <2>2. kept # << >> /\ kept \in Seq(Row) /\ table \in Seq(Row)
        BY <1>0, <2>1, TypeFacts DEF Types, JobsTyped
    <2>3. Head(kept) \in Row /\ Head(kept).scan \in scans
        BY <1>0, <2>2
    <2>4. \A i \in DOMAIN kept' : kept'[i].scan \in scans
        BY <1>0, <2>1, <2>2
    <2>5. Range(table') = Range(table) \cup {Head(kept)}
        BY <2>1, <2>2, <2>3, AppendFacts
    <2> QED
        BY <1>0, <1>1, <1>2, <1>3, <2>3, <2>4, <2>5 DEF CoreInv
<1>7. CASE CreateIndex
    <2>1. table' = table /\ kept' = << >>
        BY <1>7 DEF CreateIndex
    <2>2. \A i \in DOMAIN kept' : kept'[i].scan \in scans
        BY <2>1
    <2> QED
        BY <1>0, <1>1, <1>2, <1>3, <2>1, <2>2 DEF CoreInv
<1> QED
    BY <1>4, <1>5, <1>6, <1>7 DEF Boot

LEMMA CoreStep ==
    ASSUME CoreInv, [FindingsNext]_findingsVars
    PROVE  CoreInv'
<1>0. Types /\ OneBusy /\ ScanInv
    BY DEF CoreInv
<1>1. CASE Crash
    <2>1. /\ Types' /\ table' = table /\ scans' = scans /\ kept' = << >>
          /\ \A j \in Jobs : job'[j].at = "idle"
        BY <1>0, <1>1, CrashTypes DEF store
    <2>2. OneBusy'
        BY <2>1 DEF OneBusy
    <2>3. ScanInv'
        <3>1. "idle" \notin Holding
            BY DEF Holding
        <3>2. FindingHasScan'
            BY <1>0, <2>1 DEF ScanInv, FindingHasScan
        <3> QED
            BY <2>1, <3>1, <3>2 DEF ScanInv
    <2> QED
        BY <2>1, <2>2, <2>3 DEF CoreInv
<1>2. ASSUME NEW k \in Keys, WorldChanges(k) PROVE CoreInv'
    <2>1. /\ Types' /\ table' = table /\ scans' = scans /\ kept' = kept /\ job' = job /\ serial' = serial
        BY <1>0, <1>2, WorldTypes DEF store, startup
    <2>2. OneBusy' /\ ScanInv'
        BY <1>0, <2>1 DEF OneBusy, ScanInv, FindingHasScan
    <2> QED
        BY <2>1, <2>2 DEF CoreInv
<1>3. CASE UNCHANGED findingsVars
    <2>1. UNCHANGED <<boot, kept, table, index, scans, snapshots, alerts, world, ghosts,
                      serial, job, ops, crashes>>
        BY <1>3, StutterTypes
    <2>2. Types'
        BY <1>0, <2>1 DEF Types, FindingsTypeOK, JobsTyped
    <2>3. OneBusy' /\ ScanInv'
        BY <1>0, <2>1 DEF OneBusy, ScanInv, FindingHasScan
    <2> QED
        BY <2>2, <2>3 DEF CoreInv
<1> QED
    BY <1>1, <1>2, <1>3, CoreAfterHandler, CoreAfterRequest, CoreAfterBoot DEF FindingsNext

LEMMA CoreInit ==
    ASSUME FindingsInit
    PROVE  CoreInv
<1>1. Types /\ \A j \in Jobs : job[j].at = "idle"
    BY InitTypes
<1>2. OneBusy
    BY <1>1 DEF OneBusy
<1>3. kept = << >> /\ scans = {0} /\ table \in OldTables(origin) /\ origin \in Origins
    BY DEF FindingsInit
<1>4. \A k \in Keys, n \in 1..3, s \in Statuses : OldRow(k, n, s).scan \in scans
    BY <1>3 DEF OldRow
<1>5. \A r \in Range(table) : r.scan \in scans
    <2>1. CASE origin = "fresh"
        BY <1>3, <2>1 DEF OldTables, Range
    <2>2. CASE origin = "single"
        <3>1. PICK k \in Keys, s \in Statuses : table = <<OldRow(k, 1, s)>>
            BY <1>3, <2>2 DEF OldTables
        <3> DEFINE a == OldRow(k, 1, s)
        <3>2. table = <<a>> /\ a.scan \in scans
            BY <1>4, <3>1
        <3> HIDE DEF a
        <3> QED
            BY <3>2 DEF Range
    <2>3. CASE origin = "duplicates"
        <3>1. PICK k \in Keys, m \in Keys, s \in Statuses, t \in Statuses, u \in Statuses :
                 table = <<OldRow(k, 1, s), OldRow(k, 2, t), OldRow(m, 3, u)>>
            BY <1>3, <2>3 DEF OldTables
        <3> DEFINE a == OldRow(k, 1, s)
                   b == OldRow(k, 2, t)
                   c == OldRow(m, 3, u)
        <3>2. a.scan \in scans /\ b.scan \in scans /\ c.scan \in scans
            BY <1>4
        <3>3. table = <<a, b, c>>
            BY <3>1
        <3> HIDE DEF a, b, c
        <3> QED
            BY <3>2, <3>3 DEF Range
    <2> QED
        BY <1>3, <2>1, <2>2, <2>3, FindingsAssumption
<1>6. "idle" \notin Holding
    BY DEF Holding
<1>7. ScanInv
    BY <1>1, <1>3, <1>5, <1>6 DEF ScanInv, FindingHasScan
<1> QED
    BY <1>1, <1>2, <1>7 DEF CoreInv
-----------------------------------------------------------------------------
(* The drift alarm. *)

\* The snapshots at which k appears.
Drifts(k) == {n \in 2..Len(snapshots) : k \in snapshots[n] /\ k \notin snapshots[n - 1]}

\* The sets that the alarm counts are finite.
LEMMA DriftCounts ==
    ASSUME Types, NEW k
    PROVE  /\ IsFiniteSet(Owing(k)) /\ IsFiniteSet(Shown(k)) /\ IsFiniteSet(Drifts(k))
           /\ Cardinality(Owing(k)) \in Nat /\ Cardinality(Shown(k)) \in Nat
           /\ Cardinality(Drifts(k)) \in Nat
           /\ Owing(k) \subseteq Jobs /\ Appearances(k) = Cardinality(Drifts(k))
           /\ (Owing(k) = {} => Cardinality(Owing(k)) = 0)
<1>1. Len(snapshots) \in Nat
    BY TypeFacts
<1>2. IsFiniteSet(2..Len(snapshots)) /\ IsFiniteSet(Jobs)
    BY <1>1, FS_Interval, FindingsAssumption
<1>3. Owing(k) \subseteq Jobs /\ Shown(k) \subseteq 2..Len(snapshots) /\ Drifts(k) \subseteq 2..Len(snapshots)
    BY DEF Owing, Shown, Drifts
<1>4. IsFiniteSet(Owing(k)) /\ IsFiniteSet(Shown(k)) /\ IsFiniteSet(Drifts(k))
    BY <1>2, <1>3, FS_Subset
<1>5. Appearances(k) = Cardinality(Drifts(k))
    BY DEF Appearances, Drifts
<1> QED
    BY <1>3, <1>4, <1>5, FS_CardinalityType, FS_EmptySet

\* A handler's step outside the alarm.
LEMMA DriftFrame ==
    ASSUME Types, DriftInv, NEW j \in Jobs, UNCHANGED <<snapshots, alerts, dropped, serial>>,
           NEW at, NEW todo, NEW scan, NEW row, NEW paths, NEW fresh,
           Becomes(j, at, todo, scan, row, paths, fresh),
           at \notin {"record", "alert"}, job[j].at = "alert" => job[j].fresh \cap Severe = {}
    PROVE  DriftInv'
<1>1. /\ \A i \in Jobs : i # j => job'[i] = job[i]
      /\ job'[j].at = at
    BY DEF Becomes
<1>2. \A k : Owing(k)' = Owing(k) /\ Shown(k)' = Shown(k) /\ Appearances(k)' = Appearances(k)
    BY <1>1 DEF Owing, Shown, Appearances
<1>4. \A i \in Jobs : job'[i].at = "record" => i # j /\ job'[i] = job[i]
    BY <1>1
<1>5. \A i \in Jobs : job'[i].at = "record" =>
          job'[i].fresh \subseteq job'[i].paths /\ (job'[i].fresh # {} => snapshots' # << >>)
    BY <1>4 DEF DriftInv
<1>6. \A k \in Keys : alerts'[k] + Cardinality(Owing(k)') <= Cardinality(Shown(k)')
    BY <1>2 DEF DriftInv
<1>7. ASSUME serial'
      PROVE  /\ \A i \in Jobs : job'[i].at = "record" => job'[i].fresh = NewPaths(job'[i].paths)
             /\ \A k \in Severe : alerts'[k] + dropped'[k] + (IF Owing(k)' = {} THEN 0 ELSE 1) = Appearances(k)'
    BY <1>2, <1>4, <1>7 DEF DriftInv
<1>8. dropped' \in [Keys -> Nat] /\ \A k \in Keys \ Severe : alerts'[k] = 0 /\ dropped'[k] = 0
    BY DEF DriftInv
<1> QED
    BY <1>5, <1>6, <1>7, <1>8 DEF DriftInv, NewPaths

\* Nothing the alarm looks at changes.
LEMMA DriftStutter ==
    ASSUME DriftInv, UNCHANGED <<snapshots, alerts, dropped, serial, job>>
    PROVE  DriftInv'
BY DEF DriftInv, Owing, Shown, Appearances, NewPaths

LEMMA DriftCompare ==
    ASSUME Types, DriftInv, NEW j \in Jobs, CompareSnapshot(j)
    PROVE  DriftInv'
<1>1. /\ job[j].at = "compare" /\ UNCHANGED <<snapshots, alerts, dropped, serial>>
      /\ Becomes(j, "record", job[j].todo, job[j].scan, job[j].row, job[j].paths,
                 NewPaths(job[j].paths))
    BY CompareMoves DEF store
<1>2. /\ \A i \in Jobs : i # j => job'[i] = job[i]
      /\ job'[j].at = "record" /\ job'[j].paths = job[j].paths
      /\ job'[j].fresh = NewPaths(job[j].paths)
    BY <1>1 DEF Becomes
<1>3. \A k : Owing(k)' = Owing(k) /\ Shown(k)' = Shown(k) /\ Appearances(k)' = Appearances(k)
    BY <1>1, <1>2 DEF Owing, Shown, Appearances
<1>4. \A p : NewPaths(p) \subseteq p /\ (NewPaths(p) # {} => snapshots # << >>)
    BY DEF NewPaths
<1>5. \A i \in Jobs : job'[i].at = "record" =>
          job'[i].fresh \subseteq job'[i].paths /\ (job'[i].fresh # {} => snapshots' # << >>)
    BY <1>1, <1>2, <1>4 DEF DriftInv
<1>6. \A k \in Keys : alerts'[k] + Cardinality(Owing(k)') <= Cardinality(Shown(k)')
    BY <1>1, <1>3 DEF DriftInv
<1>7. ASSUME serial'
      PROVE  /\ \A i \in Jobs : job'[i].at = "record" => job'[i].fresh = NewPaths(job'[i].paths)
             /\ \A k \in Severe : alerts'[k] + dropped'[k] + (IF Owing(k)' = {} THEN 0 ELSE 1) = Appearances(k)'
    BY <1>1, <1>2, <1>3, <1>7 DEF DriftInv
<1>8. dropped' \in [Keys -> Nat] /\ \A k \in Keys \ Severe : alerts'[k] = 0 /\ dropped'[k] = 0
    BY <1>1 DEF DriftInv
<1> QED
    BY <1>1, <1>5, <1>6, <1>7, <1>8 DEF DriftInv, NewPaths

\* A snapshot more.
LEMMA SnapshotFacts ==
    ASSUME Types, NEW p \in SUBSET Keys, snapshots' = Append(snapshots, p), NEW k
    PROVE  /\ snapshots' # << >> /\ Shown(k) \subseteq Shown(k)'
           /\ k \in p /\ snapshots # << >> => /\ Shown(k)' = Shown(k) \cup {Len(snapshots) + 1}
                                              /\ Len(snapshots) + 1 \notin Shown(k)
           /\ k \in NewPaths(p) => /\ Drifts(k)' = Drifts(k) \cup {Len(snapshots) + 1}
                                   /\ Len(snapshots) + 1 \notin Drifts(k)
           /\ k \notin NewPaths(p) => Drifts(k)' = Drifts(k)
<1> DEFINE L == Len(snapshots)
           s == snapshots'
<1>1. /\ L \in Nat /\ Len(s) = L + 1 /\ s # << >>
      /\ \A i \in 1..L : s[i] = snapshots[i]
      /\ s[L + 1] = p
    BY TypeFacts
<1>2. snapshots # << >> <=> L >= 1
    BY TypeFacts
<1>3. snapshots # << >> => Last(snapshots) = snapshots[L]
    BY DEF Last
<1> HIDE DEF L, s
<1>4. Shown(k) = {n \in 2..L : k \in snapshots[n]} /\ Shown(k)' = {n \in 2..(L + 1) : k \in s[n]}
    BY <1>1 DEF Shown, L, s
<1>5. /\ Drifts(k) = {n \in 2..L : k \in snapshots[n] /\ k \notin snapshots[n - 1]}
      /\ Drifts(k)' = {n \in 2..(L + 1) : k \in s[n] /\ k \notin s[n - 1]}
    BY <1>1 DEF Drifts, L, s
<1>6. \A n \in 2..L : n \in 1..L /\ n - 1 \in 1..L /\ n \in 2..(L + 1) /\ n # L + 1
    BY <1>1
<1>7. \A n \in 2..(L + 1) : n = L + 1 \/ n \in 2..L
    BY <1>1
<1>8. L + 1 \notin 2..L /\ (L >= 1 => L + 1 \in 2..(L + 1) /\ L \in 1..L /\ L + 1 - 1 = L)
    BY <1>1
<1>9. Shown(k) \subseteq Shown(k)'
    BY <1>1, <1>4, <1>6
<1>10. k \in p /\ L >= 1 => Shown(k)' = Shown(k) \cup {L + 1} /\ L + 1 \notin Shown(k)
    BY <1>1, <1>4, <1>6, <1>7, <1>8
<1>11. \A n \in 2..L : n \in Drifts(k) <=> n \in Drifts(k)'
    BY <1>1, <1>5, <1>6
<1>12. L + 1 \in Drifts(k)' <=> k \in NewPaths(p)
    <2>1. CASE L >= 1
        BY <1>1, <1>2, <1>3, <1>5, <1>8, <2>1 DEF NewPaths
    <2>2. CASE ~(L >= 1)
        BY <1>1, <1>2, <1>5, <2>2 DEF NewPaths
    <2> QED
        BY <2>1, <2>2
<1>13. Drifts(k) \subseteq 2..L /\ Drifts(k)' \subseteq 2..(L + 1)
    BY <1>5
<1>14. k \in NewPaths(p) => Drifts(k)' = Drifts(k) \cup {L + 1} /\ L + 1 \notin Drifts(k)
    BY <1>7, <1>8, <1>11, <1>12, <1>13
<1>15. k \notin NewPaths(p) => Drifts(k)' = Drifts(k)
    BY <1>7, <1>11, <1>12, <1>13
<1> QED
    BY <1>1, <1>2, <1>9, <1>10, <1>14, <1>15 DEF L, s
LEMMA DriftRecord ==
    ASSUME CoreInv, DriftInv, NEW j \in Jobs, RecordSnapshot(j)
    PROVE  DriftInv'
<1> DEFINE p == job[j].paths
           f == job[j].fresh
<1>0. Types /\ OneBusy /\ Types'
    BY RecordMoves DEF CoreInv
<1>1. /\ job[j].at = "record" /\ UNCHANGED <<alerts, dropped, serial>>
      /\ snapshots' = Append(snapshots, p)
      /\ Becomes(j, "alert", job[j].todo, job[j].scan, job[j].row, p, f)
    BY <1>0, RecordMoves
<1>2. /\ \A i \in Jobs : i # j => job'[i] = job[i]
      /\ job'[j].at = "alert" /\ job'[j].fresh = f
    BY <1>1 DEF Becomes
<1>3. f \subseteq p /\ (f # {} => snapshots # << >>) /\ p \in SUBSET Keys
    BY <1>0, <1>1, TypeFacts, JobFields DEF DriftInv
<1>4. \A k : Owing(k)' = (IF k \in f \cap Severe THEN Owing(k) \cup {j} ELSE Owing(k)) /\ j \notin Owing(k)
    BY <1>1, <1>2 DEF Owing
<1> HIDE DEF p, f
<1>5. snapshots' # << >>
    BY <1>0, <1>1, <1>3, SnapshotFacts
<1>6. \A i \in Jobs : job'[i].at = "record" =>
          job'[i].fresh \subseteq job'[i].paths /\ (job'[i].fresh # {} => snapshots' # << >>)
    BY <1>2, <1>5 DEF DriftInv
<1>7. ASSUME NEW k \in Keys
      PROVE  alerts'[k] + Cardinality(Owing(k)') <= Cardinality(Shown(k)')
    <2>1. /\ alerts[k] \in Nat /\ alerts[k] + Cardinality(Owing(k)) <= Cardinality(Shown(k))
          /\ IsFiniteSet(Owing(k)) /\ IsFiniteSet(Shown(k))
          /\ Cardinality(Owing(k)) \in Nat /\ Cardinality(Shown(k)) \in Nat
        BY <1>0, TypeFacts, DriftCounts DEF DriftInv
    <2>2. CASE k \in f \cap Severe
        <3>1. k \in p /\ snapshots # << >>
            BY <1>3, <2>2
        <3>2. Shown(k)' = Shown(k) \cup {Len(snapshots) + 1} /\ Len(snapshots) + 1 \notin Shown(k)
            BY <1>0, <1>1, <1>3, <3>1, SnapshotFacts
        <3>3. Cardinality(Shown(k)') = Cardinality(Shown(k)) + 1
            BY <2>1, <3>2, FS_AddElement
        <3>4. Cardinality(Owing(k)') = Cardinality(Owing(k)) + 1
            BY <1>4, <2>1, <2>2, FS_AddElement
        <3> QED
            BY <1>1, <2>1, <3>3, <3>4
    <2>3. CASE k \notin f \cap Severe
        <3>1. Shown(k) \subseteq Shown(k)'
            BY <1>0, <1>1, <1>3, SnapshotFacts
        <3>2. IsFiniteSet(Shown(k)') /\ Cardinality(Shown(k)') \in Nat
            <4>1. Len(snapshots') \in Nat
                BY <1>0 DEF Types, FindingsTypeOK
            <4>2. IsFiniteSet(2..Len(snapshots')) /\ Shown(k)' \subseteq 2..Len(snapshots')
                BY <4>1, FS_Interval DEF Shown
            <4> QED
                BY <4>2, FS_Subset, FS_CardinalityType
        <3>3. Cardinality(Shown(k)) <= Cardinality(Shown(k)')
            BY <3>1, <3>2, FS_Subset
        <3>4. Owing(k)' = Owing(k)
            BY <1>4, <2>3
        <3> QED
            BY <1>1, <2>1, <3>2, <3>3, <3>4
    <2> QED
        BY <2>2, <2>3
<1>8. ASSUME serial'
      PROVE  /\ \A i \in Jobs : job'[i].at # "record"
             /\ \A k \in Severe : alerts'[k] + dropped'[k] + (IF Owing(k)' = {} THEN 0 ELSE 1) = Appearances(k)'
    <2>1. serial
        BY <1>1, <1>8
    <2>2. \A i \in Jobs : i # j => job[i].at = "idle"
        BY <1>0, <1>1, <2>1 DEF OneBusy
    <2>3. \A i \in Jobs : job'[i].at # "record"
        BY <1>2, <2>2
    <2>4. f = NewPaths(p)
        BY <1>1, <2>1 DEF DriftInv, f, p
    <2>5. ASSUME NEW k \in Severe
          PROVE  alerts'[k] + dropped'[k] + (IF Owing(k)' = {} THEN 0 ELSE 1) = Appearances(k)'
        <3>1. Owing(k) = {}
            BY <1>1, <2>2 DEF Owing
        <3>2. alerts[k] + dropped[k] = Appearances(k) /\ alerts[k] \in Nat /\ dropped[k] \in Nat
            <4>1. alerts[k] + dropped[k] + (IF Owing(k) = {} THEN 0 ELSE 1) = Appearances(k)
                BY <2>1 DEF DriftInv
            <4>2. k \in Keys
                BY FindingsAssumption
            <4>3. alerts[k] \in Nat /\ dropped[k] \in Nat
                BY <1>0, <4>2, TypeFacts DEF DriftInv
            <4> QED
                BY <3>1, <4>1, <4>3
        <3>3. /\ IsFiniteSet(Drifts(k)) /\ Cardinality(Drifts(k)) \in Nat
              /\ Appearances(k) = Cardinality(Drifts(k))
            BY <1>0, DriftCounts
        <3>4. Appearances(k)' = Cardinality(Drifts(k)')
            BY DEF Appearances, Drifts
        <3>5. CASE k \in f
            <4>1. Drifts(k)' = Drifts(k) \cup {Len(snapshots) + 1} /\ Len(snapshots) + 1 \notin Drifts(k)
                BY <1>0, <1>1, <1>3, <2>4, <3>5, SnapshotFacts
            <4>2. Cardinality(Drifts(k)') = Cardinality(Drifts(k)) + 1
                BY <3>3, <4>1, FS_AddElement
            <4>3. Owing(k)' # {}
                BY <1>4, <3>5
            <4> QED
                BY <1>1, <3>2, <3>3, <3>4, <4>2, <4>3
        <3>6. CASE k \notin f
            <4>1. Drifts(k)' = Drifts(k)
                BY <1>0, <1>1, <1>3, <2>4, <3>6, SnapshotFacts
            <4>2. Owing(k)' = {}
                BY <1>4, <3>1, <3>6
            <4> QED
                BY <1>1, <3>2, <3>3, <3>4, <4>1, <4>2
        <3> QED
            BY <3>5, <3>6
    <2> QED
        BY <2>3, <2>5
<1>9. dropped' \in [Keys -> Nat] /\ \A k \in Keys \ Severe : alerts'[k] = 0 /\ dropped'[k] = 0
    BY <1>1 DEF DriftInv
<1> QED
    BY <1>6, <1>7, <1>8, <1>9 DEF DriftInv, NewPaths

LEMMA DriftAlert ==
    ASSUME CoreInv, DriftInv, NEW j \in Jobs, AlertPath(j)
    PROVE  DriftInv'
<1>0. Types /\ OneBusy
    BY DEF CoreInv
<1>1. job[j].at = "alert" /\ UNCHANGED <<snapshots, dropped, serial>>
    BY <1>0, AlertMoves DEF store
<1>2. CASE job[j].fresh \cap Severe = {} /\ alerts' = alerts /\ Becomes(j, "idle", << >>, 0, << >>, {}, {})
    BY <1>0, <1>1, <1>2, DriftFrame
<1>3. ASSUME NEW k \in job[j].fresh \cap Severe, k \in Keys, alerts' = [alerts EXCEPT ![k] = @ + 1],
             Becomes(j, "alert", job[j].todo, job[j].scan, job[j].row, job[j].paths, job[j].fresh \ {k})
      PROVE  DriftInv'
    <2>1. /\ \A i \in Jobs : i # j => job'[i] = job[i]
          /\ job'[j].at = "alert" /\ job'[j].fresh = job[j].fresh \ {k}
        BY <1>3 DEF Becomes
    <2>2. \A l : /\ Owing(l)' = (IF l = k THEN Owing(l) \ {j} ELSE Owing(l))
                 /\ Shown(l)' = Shown(l) /\ Appearances(l)' = Appearances(l)
        BY <1>1, <2>1 DEF Owing, Shown, Appearances
    <2>3. j \in Owing(k)
        BY <1>1, <1>3 DEF Owing
    <2>4. \A i \in Jobs : job'[i].at = "record" => i # j /\ job'[i] = job[i]
        BY <2>1
    <2>5. \A i \in Jobs : job'[i].at = "record" =>
              job'[i].fresh \subseteq job'[i].paths /\ (job'[i].fresh # {} => snapshots' # << >>)
        BY <1>1, <2>4 DEF DriftInv
    <2>6. \A l \in Keys : alerts[l] \in Nat /\ alerts'[l] = IF l = k THEN alerts[l] + 1 ELSE alerts[l]
        BY <1>0, <1>3, TypeFacts
    <2>7. ASSUME NEW l \in Keys
          PROVE  alerts'[l] + Cardinality(Owing(l)') <= Cardinality(Shown(l)')
        <3>1. /\ alerts[l] + Cardinality(Owing(l)) <= Cardinality(Shown(l))
              /\ IsFiniteSet(Owing(l)) /\ Cardinality(Owing(l)) \in Nat /\ Cardinality(Shown(l)) \in Nat
            BY <1>0, DriftCounts DEF DriftInv
        <3>2. CASE l = k
            <4>1. Cardinality(Owing(l)') = Cardinality(Owing(l)) - 1
                BY <2>2, <2>3, <3>1, <3>2, FS_RemoveElement
            <4> QED
                BY <2>2, <2>6, <3>1, <3>2, <4>1
        <3>3. CASE l # k
            BY <2>2, <2>6, <3>1, <3>3
        <3> QED
            BY <3>2, <3>3
    <2>8. ASSUME serial'
          PROVE  /\ \A i \in Jobs : job'[i].at # "record"
                 /\ \A l \in Severe : alerts'[l] + dropped'[l] + (IF Owing(l)' = {} THEN 0 ELSE 1) = Appearances(l)'
        <3>1. serial
            BY <1>1, <2>8
        <3>2. \A i \in Jobs : i # j => job[i].at = "idle"
            BY <1>0, <1>1, <3>1 DEF OneBusy
        <3>3. \A i \in Jobs : job'[i].at # "record"
            BY <2>1, <3>2
        <3>4. Owing(k) = {j}
            BY <2>3, <3>2 DEF Owing
        <3>5. ASSUME NEW l \in Severe
              PROVE  alerts'[l] + dropped'[l] + (IF Owing(l)' = {} THEN 0 ELSE 1) = Appearances(l)'
            <4>0. l \in Keys
                BY FindingsAssumption
            <4>1. /\ alerts[l] + dropped[l] + (IF Owing(l) = {} THEN 0 ELSE 1) = Appearances(l)
                  /\ dropped[l] \in Nat /\ dropped'[l] = dropped[l]
                BY <1>1, <3>1, <4>0 DEF DriftInv
            <4>2. CASE l = k
                <5>1. Owing(l) # {} /\ Owing(l)' = {}
                    BY <2>2, <3>4, <4>2
                <5> QED
                    BY <2>2, <2>6, <4>0, <4>1, <4>2, <5>1
            <4>3. CASE l # k
                BY <2>2, <2>6, <4>0, <4>1, <4>3
            <4> QED
                BY <4>2, <4>3
        <3> QED
            BY <3>3, <3>5
    <2>9. dropped' \in [Keys -> Nat] /\ \A l \in Keys \ Severe : alerts'[l] = 0 /\ dropped'[l] = 0
        BY <1>1, <1>3, <2>6 DEF DriftInv
    <2> QED
        BY <2>5, <2>7, <2>8, <2>9 DEF DriftInv, NewPaths
<1> QED
    BY <1>0, <1>2, <1>3, AlertMoves

LEMMA DriftAfterHandler ==
    ASSUME CoreInv, DriftInv, NEW j \in Jobs, Handler(j)
    PROVE  DriftInv'
<1>0. Types
    BY DEF CoreInv
<1>1. CASE InsertScan(j)
    BY <1>0, <1>1, InsertMoves, DriftFrame
<1>2. CASE ReadTriage(j)
    BY <1>0, <1>2, TriageMoves, DriftFrame DEF store
<1>3. CASE UpsertFinding(j)
    BY <1>0, <1>3, UpsertMoves, DriftFrame
<1>4. CASE StoreStatus(j)
    <2>1. /\ job[j].at = "restatus" /\ UNCHANGED <<snapshots, alerts, dropped, serial>>
          /\ Becomes(j, "build", job[j].todo, job[j].scan, job[j].row, job[j].paths, job[j].fresh)
        BY <1>0, <1>4, StoreMoves
    <2> QED
        BY <1>0, <2>1, DriftFrame
<1>5. CASE Recheck(j)
    <2>1. /\ job[j].at = "recheck" /\ UNCHANGED <<snapshots, alerts, dropped, serial>>
          /\ \/ \E n : Becomes(j, "restore", job[j].todo, job[j].scan, n, job[j].paths, job[j].fresh)
             \/ Becomes(j, "idle", << >>, 0, << >>, {}, {})
        BY <1>0, <1>5, RecheckMoves DEF store
    <2> QED
        BY <1>0, <2>1, DriftFrame
<1>6. CASE StorePosture(j)
    BY <1>0, <1>6, RestoreMoves, DriftFrame
<1>7. CASE BuildGraph(j)
    BY <1>0, <1>7, BuildMoves, DriftFrame DEF store
<1>8. CASE CompareSnapshot(j)
    BY <1>0, <1>8, DriftCompare
<1>9. CASE RecordSnapshot(j)
    BY <1>9, DriftRecord
<1>10. CASE AlertPath(j)
    BY <1>10, DriftAlert
<1> QED
    BY <1>1, <1>2, <1>3, <1>4, <1>5, <1>6, <1>7, <1>8, <1>9, <1>10 DEF Handler

LEMMA DriftAfterRequest ==
    ASSUME CoreInv, DriftInv, NEW j \in Jobs, Request(j)
    PROVE  DriftInv'
<1>0. Types
    BY DEF CoreInv
<1>1. ASSUME NEW S \in SUBSET Keys, S # {}, Probe(j, S) PROVE DriftInv'
    BY <1>0, <1>1, ProbeMoves, DriftFrame DEF store
<1>2. ASSUME NEW id, NEW s \in Statuses, SetFindingStatus(j, id, s) PROVE DriftInv'
    <2> DEFINE r == [get_finding(id) EXCEPT !.status = s]
    <2>1. /\ job[j].at = "idle" /\ UNCHANGED <<snapshots, alerts, dropped, serial>>
          /\ Becomes(j, "restatus", << >>, 0, r, {}, {})
        BY <1>0, <1>2, StatusMoves DEF store
    <2> HIDE DEF r
    <2> QED
        BY <1>0, <2>1, DriftFrame
<1>3. ASSUME NEW id, VerifyFinding(j, id) PROVE DriftInv'
    BY <1>0, <1>3, VerifyMoves, DriftFrame DEF store
<1>4. CASE \E S \in (SUBSET Keys) \ {{}} : Probe(j, S)
    BY <1>1, <1>4
<1>5. CASE \E r \in Range(table), s \in Statuses : SetFindingStatus(j, r.id, s)
    BY <1>2, <1>5
<1>6. CASE \E r \in Range(table) : VerifyFinding(j, r.id)
    BY <1>3, <1>6
<1> QED
    BY <1>4, <1>5, <1>6 DEF Request

LEMMA DriftStep ==
    ASSUME CoreInv, DriftInv, [FindingsNext]_findingsVars
    PROVE  DriftInv'
<1>0. Types
    BY DEF CoreInv
<1>1. CASE Boot
    BY <1>0, <1>1, BootTypes, DriftStutter
<1>2. CASE Crash
    <2>1. /\ UNCHANGED <<snapshots, alerts, serial>> /\ \A j \in Jobs : job'[j].at = "idle"
        BY <1>0, <1>2, CrashTypes DEF store
    <2>2. \A k : Owing(k)' = {} /\ Shown(k)' = Shown(k) /\ Appearances(k)' = Appearances(k)
        BY <2>1 DEF Owing, Shown, Appearances
    <2>4. dropped' = [k \in Keys |-> IF Owing(k) = {} THEN dropped[k] ELSE dropped[k] + 1]
        BY <1>2 DEF Crash, At, Owing
    <2>5. dropped' \in [Keys -> Nat]
        BY <2>4 DEF DriftInv
    <2>6. \A k \in Keys \ Severe : alerts'[k] = 0 /\ dropped'[k] = 0
        <3>1. \A k \in Keys \ Severe : Owing(k) = {}
            BY DEF Owing
        <3> QED
            BY <2>1, <2>4, <3>1 DEF DriftInv
    <2>7. ASSUME serial', NEW k \in Severe
          PROVE  alerts'[k] + dropped'[k] + (IF Owing(k)' = {} THEN 0 ELSE 1) = Appearances(k)'
        <3>1. k \in Keys /\ serial
            BY <2>1, <2>7, FindingsAssumption
        <3>2. /\ alerts[k] + dropped[k] + (IF Owing(k) = {} THEN 0 ELSE 1) = Appearances(k)
              /\ alerts[k] \in Nat /\ dropped[k] \in Nat
            BY <1>0, <2>7, <3>1, TypeFacts DEF DriftInv
        <3> QED
            BY <2>1, <2>2, <2>4, <3>1, <3>2
    <2>3. ASSUME NEW k \in Keys
          PROVE  alerts'[k] + Cardinality(Owing(k)') <= Cardinality(Shown(k)')
        <3>1. /\ alerts[k] + Cardinality(Owing(k)) <= Cardinality(Shown(k)) /\ alerts[k] \in Nat
              /\ Cardinality(Owing(k)) \in Nat /\ Cardinality(Shown(k)) \in Nat
            BY <1>0, DriftCounts, TypeFacts DEF DriftInv
        <3>2. Cardinality(Owing(k)') = 0
            BY <2>2, FS_EmptySet
        <3> QED
            BY <2>1, <2>2, <3>1, <3>2
    <2> QED
        BY <2>1, <2>3, <2>5, <2>6, <2>7 DEF DriftInv
<1>3. ASSUME NEW k \in Keys, WorldChanges(k) PROVE DriftInv'
    BY <1>0, <1>3, WorldTypes, DriftStutter DEF store
<1>4. CASE UNCHANGED findingsVars
    BY <1>4, StutterTypes, DriftStutter
<1> QED
    BY <1>1, <1>2, <1>3, <1>4, DriftAfterHandler, DriftAfterRequest DEF FindingsNext

LEMMA DriftInit ==
    ASSUME FindingsInit
    PROVE  DriftInv
<1>1. /\ Types /\ \A j \in Jobs : job[j].at = "idle"
      /\ snapshots = << >> /\ alerts = [k \in Keys |-> 0] /\ dropped = [k \in Keys |-> 0]
    BY InitTypes DEF FindingsInit
<1>2. \A k : Owing(k) = {} /\ Shown(k) = {} /\ Drifts(k) = {}
    BY <1>1 DEF Owing, Shown, Drifts
<1>3. \A k : Cardinality(Owing(k)) = 0 /\ Cardinality(Shown(k)) = 0 /\ Appearances(k) = 0
    BY <1>1, <1>2, FS_EmptySet, DriftCounts
<1> QED
    BY <1>1, <1>2, <1>3, FindingsAssumption DEF DriftInv

\* The drift alarm neither misses nor repeats a critical or high path, and invents
\* none, whatever the endpoints do, for every number of findings, handlers and
\* crashes and on every table the gateway may be started on: handled one at a time,
\* such a path is alerted exactly once for each snapshot it newly appears in, but
\* for the alerts that a crash cuts off after their snapshot; and with handlers that
\* interleave no alert is about a path that no snapshot shows (snapshot_and_alert).
THEOREM DriftIsAlertedHolds == FindingsSpec => []DriftIsAlerted
<1>1. FindingsInit => CoreInv /\ DriftInv
    BY CoreInit, DriftInit
<1>2. CoreInv /\ DriftInv /\ [FindingsNext]_findingsVars => (CoreInv /\ DriftInv)'
    BY CoreStep, DriftStep
<1>3. CoreInv /\ DriftInv => DriftIsAlerted
    <2> SUFFICES ASSUME CoreInv, DriftInv PROVE DriftIsAlerted
        OBVIOUS
    <2>0. Types
        BY DEF CoreInv
    <2>1. ASSUME serial, Quiet, NEW k \in Keys
          PROVE  alerts[k] + dropped[k] = IF k \in Severe THEN Appearances(k) ELSE 0
        <3>1. Owing(k) = {}
            BY <2>1 DEF Quiet, Busy, Owing
        <3>2. alerts[k] \in Nat /\ dropped[k] \in Nat
            BY <2>0, TypeFacts DEF DriftInv
        <3>3. CASE k \in Severe
            BY <2>1, <3>1, <3>2, <3>3 DEF DriftInv
        <3>4. CASE k \notin Severe
            BY <3>2, <3>4 DEF DriftInv
        <3> QED
            BY <3>3, <3>4
    <2>2. ASSUME NEW k \in Keys PROVE alerts[k] <= Cardinality(Shown(k))
        <3>1. /\ alerts[k] + Cardinality(Owing(k)) <= Cardinality(Shown(k)) /\ alerts[k] \in Nat
              /\ Cardinality(Owing(k)) \in Nat /\ Cardinality(Shown(k)) \in Nat
            BY <2>0, DriftCounts, TypeFacts DEF DriftInv
        <3> QED
            BY <3>1
    <2> QED
        BY <2>1, <2>2 DEF DriftIsAlerted, AlertedOnce, AlertHasSnapshot, Shown
<1> QED
    BY <1>1, <1>2, <1>3, PTL DEF FindingsSpec
-----------------------------------------------------------------------------
(* One row for each finding. *)

\* A table that is served is clean and has its index.
LEMMA ServedClean ==
    ASSUME Types, RowInv, boot = "serving"
    PROVE  Clean(table) /\ index
BY TypeFacts DEF RowInv, Clean

LEMMA RowAfter ==
    ASSUME Types, RowInv, boot = "serving", UNCHANGED startup, NEW j \in Jobs,
           NEW at, NEW todo, NEW scan, NEW row, NEW paths, NEW fresh,
           Becomes(j, at, todo, scan, row, paths, fresh),
           index' = index, Clean(table'),
           at \in Holding => row.id = stable_finding_id(row.key)
    PROVE  RowInv'
<1>1. /\ \A i \in Jobs : i # j => job'[i] = job[i]
      /\ job'[j].at = at /\ job'[j].row = row
      /\ boot' = "serving" /\ index'
    BY ServedClean DEF Becomes, startup
<1>2. \A i \in Jobs : job'[i].at \in Holding => job'[i].row.id = stable_finding_id(job'[i].row.key)
    BY <1>1 DEF RowInv
<1>3. Distinct(table') /\ Stable(table')
    BY DEF Clean
<1> QED
    BY <1>1, <1>2, <1>3 DEF RowInv, Distinct, Stable

LEMMA RowAfterHandler ==
    ASSUME Types, RowInv, NEW j \in Jobs, Handler(j)
    PROVE  RowInv'
<1>0. job[j].at \in Holding => job[j].row.id = stable_finding_id(job[j].row.key)
    BY DEF RowInv
<1>1. CASE InsertScan(j)
    <2>1. "triage" \notin Holding
        BY DEF Holding
    <2> QED
        BY <1>1, <2>1, InsertMoves, ServedClean, RowAfter
<1>2. CASE ReadTriage(j)
    <2>1. /\ boot = "serving" /\ UNCHANGED <<startup, store>>
          /\ NewRow(j).id = stable_finding_id(NewRow(j).key)
          /\ Becomes(j, "upsert", job[j].todo, job[j].scan, NewRow(j), job[j].paths, job[j].fresh)
        BY <1>2, TriageMoves
    <2>2. table' = table /\ index' = index /\ UNCHANGED startup
        BY <2>1 DEF store
    <2> QED
        BY <2>1, <2>2, ServedClean, RowAfter
<1>3. CASE UpsertFinding(j)
    <2> DEFINE pc == IF Tail(job[j].todo) = << >> THEN "build" ELSE "triage"
    <2>1. /\ boot = "serving" /\ UNCHANGED startup /\ index' = index
          /\ job[j].at = "upsert" /\ job[j].row \in Row /\ table' = Upsert(job[j].row)
          /\ Becomes(j, pc, Tail(job[j].todo), job[j].scan, job[j].row, job[j].paths, job[j].fresh)
        BY <1>3, UpsertMoves
    <2>2. pc \notin Holding /\ "upsert" \in Holding
        BY DEF Holding
    <2>3. Clean(table')
        BY <1>0, <2>1, <2>2, ServedClean, UpsertFacts
    <2> HIDE DEF pc
    <2> QED
        BY <2>1, <2>2, <2>3, RowAfter
<1>4. CASE StoreStatus(j)
    <2>1. /\ boot = "serving" /\ UNCHANGED startup /\ index' = index
          /\ job[j].at = "restatus" /\ job[j].row \in Row /\ table' = update_finding(job[j].row)
          /\ Becomes(j, "build", job[j].todo, job[j].scan, job[j].row, job[j].paths, job[j].fresh)
        BY <1>4, StoreMoves
    <2>2. "build" \notin Holding /\ "restatus" \in Holding
        BY DEF Holding
    <2>3. Clean(table')
        BY <1>0, <2>1, <2>2, ServedClean, UpdateFacts
    <2> QED
        BY <2>1, <2>2, <2>3, RowAfter
<1>5. CASE Recheck(j)
    <2>0. PICK L \in SUBSET Postures :
              \/ Becomes(j, "restore", job[j].todo, job[j].scan,
                         [job[j].row EXCEPT !.pqc = WorstOf(L)], job[j].paths, job[j].fresh)
              \/ Becomes(j, "idle", << >>, 0, << >>, {}, {})
        BY <1>5, RecheckMoves
    <2> DEFINE n == [job[j].row EXCEPT !.pqc = WorstOf(L)]
    <2>1. /\ boot = "serving" /\ UNCHANGED startup /\ index' = index /\ table' = table
          /\ job[j].at = "recheck" /\ job[j].row \in Row
          /\ \/ Becomes(j, "restore", job[j].todo, job[j].scan, n, job[j].paths, job[j].fresh)
             \/ Becomes(j, "idle", << >>, 0, << >>, {}, {})
        BY <1>5, <2>0, RecheckMoves DEF store
    <2>2. "recheck" \in Holding /\ "idle" \notin Holding
        BY DEF Holding
    <2>3. n.id = job[j].row.id /\ n.key = job[j].row.key
        BY <2>1 DEF Row
    <2> HIDE DEF n
    <2>4. n.id = stable_finding_id(n.key)
        BY <1>0, <2>1, <2>2, <2>3
    <2> QED
        BY <2>1, <2>2, <2>4, ServedClean, RowAfter
<1>6. CASE StorePosture(j)
    <2>1. /\ boot = "serving" /\ UNCHANGED startup /\ index' = index
          /\ job[j].at = "restore" /\ job[j].row \in Row /\ table' = update_finding(job[j].row)
          /\ \/ Becomes(j, "build", job[j].todo, job[j].scan, job[j].row, job[j].paths, job[j].fresh)
             \/ Becomes(j, "idle", << >>, 0, << >>, {}, {})
        BY <1>6, RestoreMoves
    <2>2. "build" \notin Holding /\ "restore" \in Holding /\ "idle" \notin Holding
        BY DEF Holding
    <2>3. Clean(table')
        BY <1>0, <2>1, <2>2, ServedClean, UpdateFacts
    <2> QED
        BY <2>1, <2>2, <2>3, RowAfter
<1>7. CASE BuildGraph(j)
    <2>1. "compare" \notin Holding
        BY DEF Holding
    <2> QED
        BY <1>7, <2>1, BuildMoves, ServedClean, RowAfter DEF store
<1>8. CASE CompareSnapshot(j)
    <2>1. "record" \notin Holding
        BY DEF Holding
    <2> QED
        BY <1>8, <2>1, CompareMoves, ServedClean, RowAfter DEF store
<1>9. CASE RecordSnapshot(j)
    <2>1. "alert" \notin Holding
        BY DEF Holding
    <2> QED
        BY <1>9, <2>1, RecordMoves, ServedClean, RowAfter
<1>10. CASE AlertPath(j)
    <2>1. "alert" \notin Holding /\ "idle" \notin Holding
        BY DEF Holding
    <2> QED
        BY <1>10, <2>1, AlertMoves, ServedClean, RowAfter DEF store
<1> QED
    BY <1>1, <1>2, <1>3, <1>4, <1>5, <1>6, <1>7, <1>8, <1>9, <1>10 DEF Handler

\* A row that is read from a clean table.
LEMMA ReadClean ==
    ASSUME Clean(table), NEW id, Found(id), NEW s \in Statuses
    PROVE  /\ get_finding(id) \in Range(table) /\ get_finding(id) \in Row
           /\ get_finding(id).id = stable_finding_id(get_finding(id).key)
           /\ [get_finding(id) EXCEPT !.status = s].id = stable_finding_id([get_finding(id) EXCEPT !.status = s].key)
           /\ [get_finding(id) EXCEPT !.status = s].key = get_finding(id).key
           /\ [get_finding(id) EXCEPT !.status = s].pqc = get_finding(id).pqc
<1> DEFINE g == get_finding(id)
<1>1. g \in Range(table) /\ g \in Row
    BY GetFacts DEF Clean
<1>2. g.id = stable_finding_id(g.key)
    BY <1>1, CleanRows
<1> HIDE DEF g
<1>3. /\ [g EXCEPT !.status = s].key = g.key /\ [g EXCEPT !.status = s].id = g.id
      /\ [g EXCEPT !.status = s].pqc = g.pqc
    BY <1>1 DEF Row
<1> QED
    BY <1>1, <1>2, <1>3 DEF g

LEMMA RowAfterRequest ==
    ASSUME Types, RowInv, NEW j \in Jobs, Request(j)
    PROVE  RowInv'
<1>1. ASSUME NEW S \in SUBSET Keys, S # {}, Probe(j, S) PROVE RowInv'
    <2>1. "insert" \notin Holding
        BY DEF Holding
    <2> QED
        BY <1>1, <2>1, ProbeMoves, ServedClean, RowAfter DEF store
<1>2. ASSUME NEW id, NEW s \in Statuses, SetFindingStatus(j, id, s) PROVE RowInv'
    <2> DEFINE r == [get_finding(id) EXCEPT !.status = s]
    <2>1. /\ boot = "serving" /\ UNCHANGED startup /\ index' = index /\ table' = table /\ Found(id)
          /\ Becomes(j, "restatus", << >>, 0, r, {}, {})
        BY <1>2, StatusMoves DEF store
    <2>2. Clean(table)
        BY <2>1, ServedClean
    <2>3. r.id = stable_finding_id(r.key)
        BY <2>1, <2>2, ReadClean
    <2> HIDE DEF r
    <2> QED
        BY <2>1, <2>2, <2>3, RowAfter
<1>3. ASSUME NEW id, VerifyFinding(j, id) PROVE RowInv'
    <2>1. /\ boot = "serving" /\ UNCHANGED startup /\ index' = index /\ table' = table /\ Found(id)
          /\ Becomes(j, "recheck", << >>, 0, get_finding(id), {}, {})
        BY <1>3, VerifyMoves DEF store
    <2>2. Clean(table) /\ "open" \in Statuses
        BY <2>1, ServedClean DEF Statuses
    <2>3. get_finding(id).id = stable_finding_id(get_finding(id).key)
        BY <2>1, <2>2, ReadClean
    <2> QED
        BY <2>1, <2>2, <2>3, RowAfter
<1>4. CASE \E S \in (SUBSET Keys) \ {{}} : Probe(j, S)
    BY <1>1, <1>4
<1>5. CASE \E r \in Range(table), s \in Statuses : SetFindingStatus(j, r.id, s)
    BY <1>2, <1>5
<1>6. CASE \E r \in Range(table) : VerifyFinding(j, r.id)
    BY <1>3, <1>6
<1> QED
    BY <1>4, <1>5, <1>6 DEF Request
\* A sequence as its head and its tail.
LEMMA TailFacts ==
    ASSUME NEW S, NEW s \in Seq(S), s # << >>
    PROVE  /\ Head(s) \in S /\ Head(s) = s[1] /\ Tail(s) \in Seq(S)
           /\ Len(s) \in Nat /\ Len(s) >= 1 /\ DOMAIN s = 1..Len(s)
           /\ DOMAIN Tail(s) = 1..(Len(s) - 1)
           /\ \A i \in DOMAIN Tail(s) : i + 1 \in DOMAIN s /\ Tail(s)[i] = s[i + 1]
           /\ Range(s) = {Head(s)} \cup Range(Tail(s))
<1>1. /\ Head(s) \in S /\ Head(s) = s[1] /\ Tail(s) \in Seq(S)
      /\ Len(s) \in Nat /\ Len(s) >= 1 /\ DOMAIN s = 1..Len(s)
      /\ Len(Tail(s)) = Len(s) - 1 /\ DOMAIN Tail(s) = 1..Len(Tail(s))
    OBVIOUS
<1>2. \A i \in 1..(Len(s) - 1) : Tail(s)[i] = s[i + 1]
    OBVIOUS
<1> DEFINE t == Tail(s)
           L == Len(s)
<1> HIDE DEF t, L
<1>3. \A i \in 1..L : i = 1 \/ (i - 1 \in 1..(L - 1) /\ i - 1 + 1 = i)
    BY <1>1 DEF L
<1>4. \A i \in 1..(L - 1) : i + 1 \in 1..L
    BY <1>1 DEF L
<1>5. Range(s) \subseteq {Head(s)} \cup Range(t)
    <2> SUFFICES ASSUME NEW i \in 1..L, s[i] # Head(s) PROVE s[i] \in Range(t)
        BY <1>1 DEF Range, L
    <2>1. i - 1 \in DOMAIN t /\ t[i - 1] = s[i]
        BY <1>1, <1>2, <1>3 DEF t, L
    <2> QED
        BY <2>1 DEF Range
<1>6. {Head(s)} \cup Range(t) \subseteq Range(s)
    <2>1. Head(s) \in Range(s)
        BY <1>1 DEF Range
    <2>2. ASSUME NEW i \in DOMAIN t PROVE t[i] \in Range(s)
        BY <1>1, <1>2, <1>4 DEF Range, t, L
    <2> QED
        BY <2>1, <2>2 DEF Range
<1> QED
    BY <1>1, <1>2, <1>4, <1>5, <1>6 DEF t, L

LEMMA RowAfterBoot ==
    ASSUME Types, RowInv, Boot
    PROVE  RowInv'
<1>0. /\ job' = job /\ boot # "serving" /\ \A j \in Jobs : job[j].at = "idle"
      /\ table \in Seq(Row) /\ kept \in Seq(Row)
    BY BootTypes, TypeFacts
<1>1. \A j \in Jobs : job'[j].at \notin Holding
    BY <1>0 DEF Holding
<1>2. CASE DedupeRead
    <2>1. /\ kept' = SetToSeq(KeepNewest(table)) /\ table' = table
          /\ boot' = IF Cardinality(KeepNewest(table)) = Len(table) THEN "index" ELSE "delete"
        BY <1>2 DEF DedupeRead, store
    <2>2. Distinct(kept') /\ Stable(kept')
        BY <1>0, <2>1, KeptRows
    <2>3. boot' = "index" => Distinct(table') /\ Stable(table')
        BY <1>0, <2>1, KeptRows DEF RowInv
    <2>4. Stable(table') \/ ~Distinct(table')
        BY <2>1 DEF RowInv
    <2> QED
        BY <1>1, <2>1, <2>2, <2>3, <2>4 DEF RowInv, Distinct, Stable
<1>3. CASE DedupeDelete
    <2>1. table' = << >> /\ boot' = "reinsert" /\ kept' = kept /\ boot = "delete"
        BY <1>3 DEF DedupeDelete
    <2>2. DOMAIN table' = {}
        BY <2>1
    <2>3. Distinct(table') /\ Stable(table')
        BY <2>2 DEF Distinct, Stable
    <2>4. Distinct(kept') /\ Stable(kept')
        BY <2>1 DEF RowInv
    <2> QED
        BY <1>1, <2>1, <2>2, <2>3, <2>4 DEF RowInv, Distinct, Stable
<1>4. CASE DedupeInsert
    <2>1. /\ table' = Append(table, Head(kept)) /\ kept' = Tail(kept) /\ boot = "reinsert"
          /\ boot' = IF Tail(kept) = << >> THEN "index" ELSE "reinsert"
        BY <1>4 DEF DedupeInsert
    <2>2. kept # << >>
        BY <2>1 DEF Types, JobsTyped
    <2>3. /\ Distinct(kept) /\ Stable(kept) /\ Distinct(table) /\ Stable(table)
          /\ \A m \in DOMAIN table, n \in DOMAIN kept : table[m].key # kept[n].key
        BY <2>1 DEF RowInv
    <2> DEFINE h == Head(kept)
               r == Tail(kept)
    <2>4. /\ h \in Row /\ h = kept[1] /\ 1 \in DOMAIN kept
          /\ \A i \in DOMAIN r : i + 1 \in DOMAIN kept /\ r[i] = kept[i + 1] /\ i + 1 # 1
          /\ DOMAIN r \subseteq Nat
        BY <1>0, <2>2, TailFacts
    <2> HIDE DEF h, r
    <2>5. /\ DOMAIN table' = 1..(Len(table) + 1) /\ table'[Len(table) + 1] = h
          /\ \A i \in 1..Len(table) : table'[i] = table[i]
          /\ DOMAIN table = 1..Len(table) /\ Len(table) \in Nat
        BY <1>0, <2>1, <2>4, AppendFacts DEF h
    <2>6. \A i \in DOMAIN table' : i = Len(table) + 1 \/ (i \in DOMAIN table /\ table'[i] = table[i])
        BY <2>5
    <2>7. \A i \in DOMAIN table : table[i].key # h.key
        BY <2>3, <2>4
    <2>8. Distinct(table')
        BY <2>3, <2>5, <2>6, <2>7 DEF Distinct
    <2>9. Stable(table')
        BY <2>3, <2>4, <2>5, <2>6 DEF Stable
    <2>10. Distinct(r) /\ Stable(r)
        BY <2>3, <2>4 DEF Distinct, Stable
    <2>11. \A i \in DOMAIN r : r[i].key # h.key
        BY <2>3, <2>4 DEF Distinct
    <2>12. \A m \in DOMAIN table', n \in DOMAIN r : table'[m].key # r[n].key
        BY <2>3, <2>4, <2>5, <2>6, <2>11
    <2> QED
        BY <1>1, <2>1, <2>8, <2>9, <2>10, <2>12 DEF RowInv, Distinct, Stable, r
<1>5. CASE CreateIndex
    <2>1. /\ index' = IsInjective([i \in DOMAIN table |-> table[i].id])
          /\ boot' = "serving" /\ table' = table /\ boot = "index"
        BY <1>5 DEF CreateIndex
    <2>2. Distinct(table) /\ Stable(table)
        BY <2>1 DEF RowInv
    <2>3. \A m, n \in DOMAIN table : table[m].id = table[n].id => m = n
        BY <2>2 DEF Distinct, Stable, stable_finding_id
    <2>4. index'
        BY <2>1, <2>3 DEF IsInjective
    <2> QED
        BY <1>1, <2>1, <2>2, <2>4 DEF RowInv, Distinct, Stable
<1> QED
    BY <1>2, <1>3, <1>4, <1>5 DEF Boot

LEMMA RowStep ==
    ASSUME Types, RowInv, [FindingsNext]_findingsVars
    PROVE  RowInv'
<1>1. CASE Crash
    <2>1. /\ table' = table /\ boot' = "dedupe" /\ \A j \in Jobs : job'[j].at = "idle"
        BY <1>1, CrashTypes DEF store
    <2>2. \A j \in Jobs : job'[j].at \notin Holding
        BY <2>1 DEF Holding
    <2>3. Stable(table') \/ ~Distinct(table')
        BY <2>1 DEF RowInv
    <2> QED
        BY <2>1, <2>2, <2>3 DEF RowInv, Distinct, Stable
<1>2. ASSUME NEW k \in Keys, WorldChanges(k) PROVE RowInv'
    <2>1. /\ table' = table /\ index' = index /\ kept' = kept /\ job' = job /\ boot' = boot
        BY <1>2, WorldTypes DEF store, startup
    <2> QED
        BY <2>1 DEF RowInv, Distinct, Stable
<1>3. CASE UNCHANGED findingsVars
    <2>1. /\ table' = table /\ index' = index /\ kept' = kept /\ job' = job /\ boot' = boot
        BY <1>3, StutterTypes
    <2> QED
        BY <2>1 DEF RowInv, Distinct, Stable
<1> QED
    BY <1>1, <1>2, <1>3, RowAfterHandler, RowAfterRequest, RowAfterBoot DEF FindingsNext

\* A table of an earlier release: every finding was appended again by each scan,
\* so that some finding is there twice.
LEMMA OldTablesFacts ==
    ASSUME origin # "single", FindingsInit
    PROVE  (\A r \in Range(table) : r.pqc = "weak" /\ r.key \in Keys) /\ (table = << >> \/ ~Distinct(table))
<1>1. table \in OldTables(origin) /\ origin \in {"fresh", "duplicates"}
    BY FindingsAssumption DEF FindingsInit
<1>2. CASE origin = "fresh"
    <2>1. table = << >>
        BY <1>1, <1>2 DEF OldTables
    <2> QED
        BY <2>1 DEF Range
<1>3. CASE origin = "duplicates"
    <2>1. PICK k \in Keys, m \in Keys, s \in Statuses, t \in Statuses, u \in Statuses :
             table = <<OldRow(k, 1, s), OldRow(k, 2, t), OldRow(m, 3, u)>>
        BY <1>1, <1>3 DEF OldTables
    <2> DEFINE a == OldRow(k, 1, s)
               b == OldRow(k, 2, t)
               c == OldRow(m, 3, u)
    <2>2. a.key = k /\ b.key = k /\ c.key = m /\ a.pqc = "weak" /\ b.pqc = "weak" /\ c.pqc = "weak"
        BY DEF OldRow
    <2>3. table = <<a, b, c>>
        BY <2>1
    <2> HIDE DEF a, b, c
    <2>4. DOMAIN table = 1..3 /\ table[1] = a /\ table[2] = b /\ table[3] = c
        BY <2>3
    <2>5. ~Distinct(table)
        BY <2>2, <2>4 DEF Distinct
    <2>6. \A r \in Range(table) : r = a \/ r = b \/ r = c
        BY <2>3 DEF Range
    <2> QED
        BY <2>2, <2>5, <2>6
<1> QED
    BY <1>1, <1>2, <1>3

LEMMA RowInit ==
    ASSUME origin # "single", FindingsInit
    PROVE  RowInv
<1>1. boot = "dedupe" /\ \A j \in Jobs : job[j].at = "idle"
    BY InitTypes DEF FindingsInit
<1>2. \A j \in Jobs : job[j].at \notin Holding
    BY <1>1 DEF Holding
<1>3. Stable(table) \/ ~Distinct(table)
    BY OldTablesFacts DEF Stable
<1> QED
    BY <1>1, <1>2, <1>3 DEF RowInv
-----------------------------------------------------------------------------
(* The triage. *)

\* A handler's step keeps the triage if the table and the row it holds have it,
\* and it changes that of no finding of which another handler holds a copy.
LEMMA TriageAfter ==
    ASSUME TriageInv, boot = "serving", UNCHANGED startup, NEW j \in Jobs,
           NEW at, NEW todo, NEW scan, NEW row, NEW paths, NEW fresh,
           Becomes(j, at, todo, scan, row, paths, fresh),
           \A r \in Range(table') : r.key \notin exposed' => r.status = said'[r.key],
           \A k \in Keys \ exposed' : (\A r \in Range(table') : r.key # k) => said'[k] = "open",
           KeysOf(table) \subseteq KeysOf(table'),
           \A i \in Jobs : i # j /\ job[i].at \in {"upsert", "recheck", "restore"}
                                /\ job[i].row.key \notin exposed' =>
              job[i].row.key \notin exposed /\ said'[job[i].row.key] = said[job[i].row.key],
           at \in {"upsert", "recheck", "restore"} /\ row.key \notin exposed' => row.status = said'[row.key],
           at = "restatus" => row.key \in KeysOf(table')
    PROVE  TriageInv'
<1>1. /\ \A i \in Jobs : i # j => job'[i] = job[i]
      /\ job'[j].at = at /\ job'[j].row = row /\ boot' = "serving"
    BY DEF Becomes, startup
<1>2. ASSUME NEW i \in Jobs
      PROVE  /\ job'[i].at \in {"upsert", "recheck", "restore"} /\ job'[i].row.key \notin exposed' =>
                   job'[i].row.status = said'[job'[i].row.key]
             /\ job'[i].at = "restatus" => job'[i].row.key \in KeysOf(table')
    <2>1. CASE i = j
        BY <1>1, <2>1
    <2>2. CASE i # j
        <3>1. /\ job[i].at \in {"upsert", "recheck", "restore"} /\ job[i].row.key \notin exposed =>
                    job[i].row.status = said[job[i].row.key]
              /\ job[i].at = "restatus" => job[i].row.key \in KeysOf(table)
            BY DEF TriageInv
        <3> QED
            BY <1>1, <2>2, <3>1
    <2> QED
        BY <2>1, <2>2
<1>3. Tells(Range(table))'
    BY DEF Tells
<1> QED
    BY <1>1, <1>2, <1>3 DEF TriageInv, KeysOf

\* What TriageInv says of a table that is served.
LEMMA ServedTriage ==
    ASSUME TriageInv, boot = "serving"
    PROVE  /\ \A r \in Range(table) : r.key \notin exposed => r.status = said[r.key]
           /\ \A k \in Keys \ exposed : (\A r \in Range(table) : r.key # k) => said[k] = "open"
           /\ \A j \in Jobs : job[j].at \in {"upsert", "recheck", "restore"}
                               /\ job[j].row.key \notin exposed =>
                 job[j].row.status = said[job[j].row.key]
           /\ \A j \in Jobs : job[j].at = "restatus" => job[j].row.key \in KeysOf(table)
BY DEF TriageInv, Tells

SoundInv == CoreInv /\ RowInv /\ TriageInv /\ LookInv

LEMMA SoundFacts ==
    ASSUME SoundInv
    PROVE  Types /\ OneBusy /\ RowInv /\ TriageInv /\ LookInv
           /\ (boot = "serving" => Clean(table) /\ index /\ table \in Seq(Row))
BY ServedClean, TypeFacts DEF SoundInv, CoreInv

\* A handler that neither writes a row nor reads one.
LEMMA TriageFrame ==
    ASSUME SoundInv, boot = "serving", UNCHANGED <<startup, table, said, exposed>>, NEW j \in Jobs,
           NEW at, NEW todo, NEW scan, NEW row, NEW paths, NEW fresh,
           Becomes(j, at, todo, scan, row, paths, fresh),
           at \notin {"upsert", "recheck", "restore", "restatus"}
    PROVE  TriageInv'
<1>1. TriageInv /\ UNCHANGED startup /\ KeysOf(table) \subseteq KeysOf(table')
    BY SoundFacts
<1>2. /\ \A r \in Range(table') : r.key \notin exposed' => r.status = said'[r.key]
      /\ \A k \in Keys \ exposed' : (\A r \in Range(table') : r.key # k) => said'[k] = "open"
    BY <1>1, ServedTriage
<1> QED
    BY <1>1, <1>2, TriageAfter

LEMMA TriageAfterHandler ==
    ASSUME SoundInv, NEW j \in Jobs, Handler(j)
    PROVE  TriageInv'
<1>0. /\ Types /\ RowInv /\ TriageInv
      /\ job[j].at \in Holding => job[j].row.id = stable_finding_id(job[j].row.key)
    BY SoundFacts DEF RowInv
<1>1. CASE InsertScan(j)
    BY <1>0, <1>1, InsertMoves, TriageFrame
<1>2. CASE ReadTriage(j)
    <2> DEFINE n == NewRow(j)
    <2>1. /\ boot = "serving" /\ UNCHANGED startup /\ table' = table
          /\ said' = said /\ exposed' = exposed
          /\ n \in Row /\ n.id = stable_finding_id(n.key) /\ n.status = TriageOf(n.key)
          /\ Becomes(j, "upsert", job[j].todo, job[j].scan, n, job[j].paths, job[j].fresh)
        BY <1>0, <1>2, TriageMoves DEF store
    <2> HIDE DEF n
    <2>2. ASSUME n.key \notin exposed PROVE n.status = said[n.key]
        <3> DEFINE d == stable_finding_id(n.key)
        <3>1. n.key \in Keys
            BY <2>1, RowFields
        <3>2. \A i, k : stable_finding_id(i) = stable_finding_id(k) => i = k
            BY DEF stable_finding_id
        <3>3. Clean(table) /\ table \in Seq(Row)
            BY <2>1, SoundFacts
        <3>4. CASE Found(d)
            <4> DEFINE g == get_finding(d)
            <4>1. g \in Range(table) /\ g.id = d
                BY <3>3, <3>4, GetFacts
            <4>2. g.key = n.key
                BY <3>2, <3>3, <4>1, CleanRows
            <4>3. g.status = said[g.key]
                BY <1>0, <2>1, <2>2, <4>1, <4>2, ServedTriage
            <4>4. n.status = g.status
                BY <2>1, <3>4 DEF TriageOf
            <4> QED
                BY <4>2, <4>3, <4>4
        <3>5. CASE ~Found(d)
            <4>1. \A r \in Range(table) : r.key # n.key
                BY <3>3, <3>5, CleanRows DEF Found
            <4>2. said[n.key] = "open"
                BY <1>0, <2>1, <2>2, <3>1, <4>1, ServedTriage
            <4> QED
                BY <2>1, <3>5, <4>2 DEF TriageOf
        <3> QED
            BY <3>4, <3>5
    <2>3. /\ \A r \in Range(table') : r.key \notin exposed' => r.status = said'[r.key]
          /\ \A k \in Keys \ exposed' : (\A r \in Range(table') : r.key # k) => said'[k] = "open"
          /\ n.key \notin exposed' => n.status = said'[n.key]
          /\ KeysOf(table) \subseteq KeysOf(table')
        BY <1>0, <2>1, <2>2, ServedTriage
    <2> QED
        BY <1>0, <2>1, <2>3, TriageAfter
<1>3. CASE UpsertFinding(j)
    <2> DEFINE pc == IF Tail(job[j].todo) = << >> THEN "build" ELSE "triage"
               row == job[j].row
    <2>1. /\ boot = "serving" /\ UNCHANGED startup
          /\ said' = said /\ exposed' = exposed /\ job[j].at = "upsert"
          /\ row \in Row /\ table' = Upsert(row)
          /\ Becomes(j, pc, Tail(job[j].todo), job[j].scan, row, job[j].paths, job[j].fresh)
        BY <1>0, <1>3, UpsertMoves
    <2>2. pc \notin {"upsert", "recheck", "restore", "restatus"} /\ "upsert" \in Holding
        BY DEF Holding
    <2>3. Range(table') = {r \in Range(table) : r.key # row.key} \cup {row}
        BY <1>0, <2>1, <2>2, SoundFacts, UpsertFacts
    <2>4. row.key \notin exposed => row.status = said[row.key]
        BY <1>0, <2>1, ServedTriage
    <2> HIDE DEF pc, row
    <2>5. KeysOf(table) \subseteq KeysOf(table')
        BY <2>3 DEF KeysOf
    <2>6. \A r \in Range(table') : r.key \notin exposed' => r.status = said'[r.key]
        BY <1>0, <2>1, <2>3, <2>4, ServedTriage
    <2>7. \A k \in Keys \ exposed' : (\A r \in Range(table') : r.key # k) => said'[k] = "open"
        <3>1. \A k : (\A r \in Range(table') : r.key # k) => \A r \in Range(table) : r.key # k
            BY <2>3
        <3> QED
            BY <1>0, <2>1, <3>1, ServedTriage
    <2> QED
        BY <1>0, <2>1, <2>2, <2>5, <2>6, <2>7, TriageAfter
<1>4. CASE StoreStatus(j)
    <2> DEFINE row == job[j].row
    <2>1. /\ boot = "serving" /\ UNCHANGED startup
          /\ said' = [said EXCEPT ![row.key] = row.status] /\ job[j].at = "restatus"
          /\ exposed' = (exposed \ {row.key}) \cup ({row.key} \cap HeldBy(Jobs \ {j}))
          /\ row \in Row /\ table' = update_finding(row)
          /\ Becomes(j, "build", job[j].todo, job[j].scan, row, job[j].paths, job[j].fresh)
        BY <1>0, <1>4, StoreMoves
    <2>2. "restatus" \in Holding /\ row.key \in Keys
        BY <2>1, RowFields DEF Holding
    <2>3. row.key \in KeysOf(table)
        BY <1>0, <2>1, ServedTriage
    <2>4. Range(table') = {r \in Range(table) : r.key # row.key} \cup {row}
        <3>1. Range(table') = {r \in Range(table) : r.key # row.key}
                                \cup (IF row.key \in KeysOf(table) THEN {row} ELSE {})
            BY <1>0, <2>1, <2>2, SoundFacts, UpdateFacts
        <3> QED
            BY <2>3, <3>1
    <2>5. \A k \in Keys : said'[k] = IF k = row.key THEN row.status ELSE said[k]
        BY <1>0, <2>1, <2>2, TypeFacts
    <2>6. \A r \in Range(table) : r.key \in Keys
        BY <1>0, TypeFacts, RowsOfTable, RowFields
    <2>7. \A k : k # row.key => (k \in exposed' <=> k \in exposed)
        BY <2>1
    <2>8. ASSUME NEW i \in Jobs, i # j, job[i].at \in {"upsert", "recheck", "restore"},
                 job[i].row.key \notin exposed'
          PROVE  job[i].row.key \notin exposed /\ said'[job[i].row.key] = said[job[i].row.key]
        <3>1. job[i].row \in Row /\ job[i].row.key \in Keys
            <4>1. job[i].at \in Holding
                BY <2>8 DEF Holding
            <4> QED
                BY <1>0, <4>1, RowFields DEF Types, JobsTyped
        <3>2. job[i].row.key \in HeldBy(Jobs \ {j})
            BY <2>8 DEF HeldBy
        <3>3. job[i].row.key # row.key
            BY <2>1, <2>8, <3>2
        <3> QED
            BY <2>5, <2>7, <2>8, <3>1, <3>3
    <2> HIDE DEF row
    <2>9. KeysOf(table) \subseteq KeysOf(table')
        BY <2>4 DEF KeysOf
    <2>10. \A r \in Range(table') : r.key \notin exposed' => r.status = said'[r.key]
        BY <1>0, <2>1, <2>2, <2>4, <2>5, <2>6, <2>7, ServedTriage
    <2>11. ASSUME NEW k \in Keys \ exposed', \A r \in Range(table') : r.key # k PROVE said'[k] = "open"
        <3>1. k # row.key
            BY <2>4, <2>11
        <3>2. \A r \in Range(table) : r.key # k
            BY <2>4, <2>11, <3>1
        <3> QED
            BY <1>0, <2>1, <2>5, <2>7, <3>1, <3>2, ServedTriage
    <2> QED
        BY <1>0, <2>1, <2>8, <2>9, <2>10, <2>11, TriageAfter
<1>5. CASE Recheck(j)
    <2> DEFINE row == job[j].row
    <2>0. PICK L \in SUBSET Postures :
              \/ Becomes(j, "restore", job[j].todo, job[j].scan,
                         [row EXCEPT !.pqc = WorstOf(L)], job[j].paths, job[j].fresh)
              \/ Becomes(j, "idle", << >>, 0, << >>, {}, {})
        BY <1>0, <1>5, RecheckMoves
    <2> DEFINE n == [row EXCEPT !.pqc = WorstOf(L)]
    <2>1. /\ boot = "serving" /\ UNCHANGED startup /\ table' = table
          /\ said' = said /\ exposed' = exposed /\ job[j].at = "recheck" /\ row \in Row
          /\ \/ Becomes(j, "restore", job[j].todo, job[j].scan, n, job[j].paths, job[j].fresh)
             \/ Becomes(j, "idle", << >>, 0, << >>, {}, {})
        BY <1>0, <1>5, <2>0, RecheckMoves DEF store
    <2>2. n.status = row.status /\ n.key = row.key
        BY <2>1 DEF Row
    <2> HIDE DEF n
    <2>3. /\ \A r \in Range(table') : r.key \notin exposed' => r.status = said'[r.key]
          /\ \A k \in Keys \ exposed' : (\A r \in Range(table') : r.key # k) => said'[k] = "open"
          /\ n.key \notin exposed' => n.status = said'[n.key]
          /\ KeysOf(table) \subseteq KeysOf(table')
        BY <1>0, <2>1, <2>2, ServedTriage
    <2>4. CASE Becomes(j, "restore", job[j].todo, job[j].scan, n, job[j].paths, job[j].fresh)
        BY <1>0, <2>1, <2>3, <2>4, TriageAfter
    <2>5. CASE Becomes(j, "idle", << >>, 0, << >>, {}, {})
        BY <1>0, <2>1, <2>3, <2>5, TriageAfter
    <2> QED
        BY <2>1, <2>4, <2>5
<1>6. CASE StorePosture(j)
    <2> DEFINE row == job[j].row
    <2>1. /\ boot = "serving" /\ UNCHANGED startup
          /\ said' = said /\ exposed' = exposed /\ job[j].at = "restore"
          /\ row \in Row /\ table' = update_finding(row)
          /\ \/ Becomes(j, "build", job[j].todo, job[j].scan, row, job[j].paths, job[j].fresh)
             \/ Becomes(j, "idle", << >>, 0, << >>, {}, {})
        BY <1>0, <1>6, RestoreMoves
    <2>2. "restore" \in Holding
        BY DEF Holding
    <2>3. Range(table') = {r \in Range(table) : r.key # row.key}
                            \cup (IF row.key \in KeysOf(table) THEN {row} ELSE {})
        BY <1>0, <2>1, <2>2, SoundFacts, UpdateFacts
    <2>4. row.key \notin exposed => row.status = said[row.key]
        BY <1>0, <2>1, ServedTriage
    <2> HIDE DEF row
    <2>5. KeysOf(table) \subseteq KeysOf(table')
        <3>1. CASE row.key \in KeysOf(table)
            BY <2>3, <3>1 DEF KeysOf
        <3>2. CASE row.key \notin KeysOf(table)
            BY <2>3, <3>2 DEF KeysOf
        <3> QED
            BY <3>1, <3>2
    <2>6. \A k : (\A r \in Range(table') : r.key # k) => \A r \in Range(table) : r.key # k
        BY <2>5 DEF KeysOf
    <2>7. \A r \in Range(table') : r.key \notin exposed' => r.status = said'[r.key]
        BY <1>0, <2>1, <2>3, <2>4, ServedTriage
    <2>8. \A k \in Keys \ exposed' : (\A r \in Range(table') : r.key # k) => said'[k] = "open"
        BY <1>0, <2>1, <2>6, ServedTriage
    <2>9. CASE Becomes(j, "build", job[j].todo, job[j].scan, row, job[j].paths, job[j].fresh)
        BY <1>0, <2>1, <2>5, <2>7, <2>8, <2>9, TriageAfter
    <2>10. CASE Becomes(j, "idle", << >>, 0, << >>, {}, {})
        BY <1>0, <2>1, <2>5, <2>7, <2>8, <2>10, TriageAfter
    <2> QED
        BY <2>1, <2>9, <2>10
<1>7. CASE BuildGraph(j)
    BY <1>0, <1>7, BuildMoves, TriageFrame DEF store
<1>8. CASE CompareSnapshot(j)
    BY <1>0, <1>8, CompareMoves, TriageFrame DEF store
<1>9. CASE RecordSnapshot(j)
    BY <1>0, <1>9, RecordMoves, TriageFrame
<1>10. CASE AlertPath(j)
    BY <1>0, <1>10, AlertMoves, TriageFrame DEF store
<1> QED
    BY <1>1, <1>2, <1>3, <1>4, <1>5, <1>6, <1>7, <1>8, <1>9, <1>10 DEF Handler

LEMMA TriageAfterRequest ==
    ASSUME SoundInv, NEW j \in Jobs, Request(j)
    PROVE  TriageInv'
<1>0. Types /\ TriageInv
    BY SoundFacts
<1>1. ASSUME NEW S \in SUBSET Keys, S # {}, Probe(j, S) PROVE TriageInv'
    BY <1>0, <1>1, ProbeMoves, TriageFrame DEF store
<1>2. ASSUME NEW id, NEW s \in Statuses, SetFindingStatus(j, id, s) PROVE TriageInv'
    <2> DEFINE r == [get_finding(id) EXCEPT !.status = s]
    <2>1. /\ boot = "serving" /\ UNCHANGED startup /\ table' = table
          /\ said' = said /\ exposed' = exposed /\ Found(id)
          /\ Becomes(j, "restatus", << >>, 0, r, {}, {})
        BY <1>0, <1>2, StatusMoves DEF store
    <2>2. r.key \in KeysOf(table)
        BY <2>1, SoundFacts, ReadClean DEF KeysOf
    <2> HIDE DEF r
    <2>3. /\ \A x \in Range(table') : x.key \notin exposed' => x.status = said'[x.key]
          /\ \A k \in Keys \ exposed' : (\A x \in Range(table') : x.key # k) => said'[k] = "open"
          /\ r.key \in KeysOf(table') /\ KeysOf(table) \subseteq KeysOf(table')
        BY <1>0, <2>1, <2>2, ServedTriage
    <2> QED
        BY <1>0, <2>1, <2>3, TriageAfter
<1>3. ASSUME NEW id, VerifyFinding(j, id) PROVE TriageInv'
    <2> DEFINE r == get_finding(id)
    <2>1. /\ boot = "serving" /\ UNCHANGED startup /\ table' = table
          /\ said' = said /\ exposed' = exposed /\ Found(id)
          /\ Becomes(j, "recheck", << >>, 0, r, {}, {})
        BY <1>0, <1>3, VerifyMoves DEF store
    <2>2. r \in Range(table)
        BY <2>1, SoundFacts, GetFacts
    <2> HIDE DEF r
    <2>3. /\ \A x \in Range(table') : x.key \notin exposed' => x.status = said'[x.key]
          /\ \A k \in Keys \ exposed' : (\A x \in Range(table') : x.key # k) => said'[k] = "open"
          /\ r.key \notin exposed' => r.status = said'[r.key]
          /\ KeysOf(table) \subseteq KeysOf(table')
        BY <1>0, <2>1, <2>2, ServedTriage
    <2> QED
        BY <1>0, <2>1, <2>3, TriageAfter
<1>4. CASE \E S \in (SUBSET Keys) \ {{}} : Probe(j, S)
    BY <1>1, <1>4
<1>5. CASE \E r \in Range(table), s \in Statuses : SetFindingStatus(j, r.id, s)
    BY <1>2, <1>5
<1>6. CASE \E r \in Range(table) : VerifyFinding(j, r.id)
    BY <1>3, <1>6
<1> QED
    BY <1>4, <1>5, <1>6 DEF Request

\* Where the migration finds no finding twice, the table is what it would keep.
LEMMA KeepNothing ==
    ASSUME NEW t \in Seq(Row), Distinct(t)
    PROVE  /\ \A r \in Range(t) : \E q \in KeepNewest(t) : q.key = r.key /\ q.status = r.status
           /\ \A q \in KeepNewest(t) : \E r \in Range(t) : q.key = r.key
<1>1. DOMAIN t = 1..Len(t) /\ Len(t) \in Nat
    OBVIOUS
<1>2. NewestRows(t) = DOMAIN t
    BY <1>1 DEF NewestRows, Distinct
<1>3. ASSUME NEW r \in Range(t) PROVE \E q \in KeepNewest(t) : q.key = r.key /\ q.status = r.status
    <2>1. PICK n \in DOMAIN t : t[n] = r
        BY RowsOfTable
    <2>2. PICK q \in KeepNewest(t) : q.key = t[n].key
        BY KeepFacts
    <2>3. PICK m \in DOMAIN t : q.key = t[m].key /\ q.status = t[m].status
        BY KeepFacts
    <2>4. m = n
        BY <2>2, <2>3 DEF Distinct
    <2> QED
        BY <2>1, <2>2, <2>3, <2>4
<1>4. ASSUME NEW q \in KeepNewest(t) PROVE \E r \in Range(t) : q.key = r.key
    <2>1. PICK m \in DOMAIN t : q.key = t[m].key
        BY KeepFacts
    <2> QED
        BY <2>1, RowsOfTable
<1> QED
    BY <1>3, <1>4

\* What is told of the rows of a table is told of those the migration would keep,
\* once no finding is there twice.
LEMMA KeptTells ==
    ASSUME NEW t \in Seq(Row), Distinct(t), NEW X,
           \A q \in Range(t) : q.key \notin X => q.status = said[q.key],
           \A k \in Keys \ X : (\A q \in Range(t) : q.key # k) => said[k] = "open"
    PROVE  /\ \A q \in KeepNewest(t) : q.key \notin X => q.status = said[q.key]
           /\ \A k \in Keys \ X : (\A q \in KeepNewest(t) : q.key # k) => said[k] = "open"
<1>1. ASSUME NEW q \in KeepNewest(t), q.key \notin X PROVE q.status = said[q.key]
    <2>1. PICK m \in DOMAIN t : q.key = t[m].key /\ q.status = t[m].status
        BY KeepFacts
    <2>2. t[m] \in Range(t)
        BY RowsOfTable
    <2> QED
        BY <1>1, <2>1, <2>2
<1>2. ASSUME NEW k \in Keys \ X, \A q \in KeepNewest(t) : q.key # k PROVE said[k] = "open"
    BY <1>2, KeepNothing
<1> QED
    BY <1>1, <1>2

LEMMA TriageAfterBoot ==
    ASSUME SoundInv, Boot
    PROVE  TriageInv'
<1>0. /\ Types /\ RowInv /\ TriageInv /\ table \in Seq(Row) /\ kept \in Seq(Row)
    BY SoundFacts, TypeFacts
<1>1. /\ job' = job /\ said' = said /\ exposed' = exposed /\ \A j \in Jobs : job[j].at = "idle"
    BY <1>0, BootTypes
<1>3. CASE DedupeRead
    <2>1. /\ kept' = SetToSeq(KeepNewest(table)) /\ table' = table /\ boot = "dedupe"
          /\ boot' = IF Cardinality(KeepNewest(table)) = Len(table) THEN "index" ELSE "delete"
        BY <1>3 DEF DedupeRead, store
    <2>2. Tells(KeepNewest(table))
        BY <1>0, <1>3, <2>1 DEF TriageInv
    <2>3. CASE boot' = "delete"
        <3>1. Range(kept') = KeepNewest(table)
            BY <1>0, <2>1, KeptRows
        <3>2. Tells(Range(kept))'
            BY <1>1, <2>2, <3>1 DEF Tells
        <3>3. KeepNewest(table)' = KeepNewest(table)
            BY <2>1 DEF KeepNewest, NewestRows
        <3>4. Tells(KeepNewest(table))'
            BY <1>1, <2>2, <3>3 DEF Tells
        <3> QED
            BY <2>3, <3>2, <3>4 DEF TriageInv
    <2>4. CASE boot' = "index"
        <3>1. Distinct(table)
            BY <1>0, <2>1, <2>4, KeptRows
        <3>2. \A r \in Range(table) : r.key \notin exposed => r.status = said[r.key]
            BY <1>0, <2>2, <3>1, KeepNothing DEF Tells
        <3>3. \A k \in Keys \ exposed : (\A r \in Range(table) : r.key # k) => said[k] = "open"
            BY <1>0, <2>2, <3>1, KeepNothing DEF Tells
        <3>4. Tells(Range(table))'
            BY <1>1, <2>1, <3>2, <3>3 DEF Tells
        <3> QED
            BY <2>4, <3>4 DEF TriageInv
    <2> QED
        BY <2>1, <2>3, <2>4
<1>4. CASE DedupeDelete
    <2>1. table' = << >> /\ boot' = "reinsert" /\ kept' = kept /\ boot = "delete"
        BY <1>4 DEF DedupeDelete
    <2>2. Tells(Range(kept))
        BY <1>0, <1>4, <2>1 DEF TriageInv
    <2>3. Range(table') \cup Range(kept') = Range(kept)
        BY <2>1 DEF Range
    <2>4. Tells(Range(table) \cup Range(kept))'
        BY <1>1, <2>2, <2>3 DEF Tells
    <2> QED
        BY <2>1, <2>4 DEF TriageInv
<1>5. CASE DedupeInsert
    <2>1. /\ table' = Append(table, Head(kept)) /\ kept' = Tail(kept) /\ boot = "reinsert"
          /\ boot' = IF Tail(kept) = << >> THEN "index" ELSE "reinsert"
        BY <1>5 DEF DedupeInsert
    <2>2. kept # << >>
        BY <1>0, <2>1 DEF Types, JobsTyped
    <2>3. Tells(Range(table) \cup Range(kept))
        BY <1>0, <1>5, <2>1 DEF TriageInv
    <2>4. Head(kept) \in Row /\ Range(kept) = {Head(kept)} \cup Range(Tail(kept))
        BY <1>0, <2>2, TailFacts
    <2>5. Range(table') = Range(table) \cup {Head(kept)}
        BY <1>0, <2>1, <2>4, AppendFacts
    <2>6. Range(table') \cup Range(kept') = Range(table) \cup Range(kept)
        BY <2>1, <2>4, <2>5
    <2>7. Tells(Range(table) \cup Range(kept))'
        BY <1>1, <2>3, <2>6 DEF Tells
    <2>8. boot' = "index" => Tells(Range(table))'
        <3> SUFFICES ASSUME boot' = "index" PROVE Tells(Range(table))'
            OBVIOUS
        <3>1. kept' = << >>
            BY <2>1
        <3>2. Range(table') = Range(table') \cup Range(kept')
            BY <3>1 DEF Range
        <3> QED
            BY <2>7, <3>2 DEF Tells
    <2> QED
        BY <2>1, <2>7, <2>8 DEF TriageInv
<1>6. CASE CreateIndex
    <2>1. boot' = "serving" /\ table' = table /\ boot = "index"
        BY <1>6 DEF CreateIndex
    <2>2. Tells(Range(table))
        BY <1>0, <1>6, <2>1 DEF TriageInv
    <2>3. Tells(Range(table))'
        BY <1>1, <2>1, <2>2 DEF Tells
    <2> QED
        BY <1>1, <2>1, <2>3 DEF TriageInv
<1> QED
    BY <1>3, <1>4, <1>5, <1>6 DEF Boot

\* A crash loses the triage of the findings that were not inserted again only.
LEMMA TriageAfterCrash ==
    ASSUME SoundInv, Crash
    PROVE  TriageInv'
<1>0. /\ Types /\ RowInv /\ TriageInv /\ table \in Seq(Row) /\ kept \in Seq(Row)
      /\ boot \in {"dedupe", "delete", "reinsert", "index", "serving"}
    BY SoundFacts, TypeFacts DEF Types, FindingsTypeOK
<1>1. /\ boot' = "dedupe" /\ table' = table /\ said' = said
      /\ exposed' = exposed \cup (IF boot = "reinsert" THEN KeysOf(kept) ELSE {})
    BY DEF Crash, store
<1>2. KeepNewest(table)' = KeepNewest(table)
    BY <1>1 DEF KeepNewest, NewestRows
<1>3. SUFFICES /\ \A q \in KeepNewest(table) : q.key \notin exposed' => q.status = said[q.key]
               /\ \A k \in Keys \ exposed' : (\A q \in KeepNewest(table) : q.key # k) => said[k] = "open"
    <2>1. Tells(KeepNewest(table))'
        BY <1>1, <1>2, <1>3 DEF Tells
    <2> QED
        BY <1>1, <2>1 DEF TriageInv
<1>4. CASE boot \in {"dedupe", "delete"}
    BY <1>0, <1>1, <1>4 DEF TriageInv, Tells
<1>5. CASE boot \in {"index", "serving"}
    <2>1. Distinct(table) /\ Tells(Range(table)) /\ exposed' = exposed
        BY <1>0, <1>1, <1>5 DEF RowInv, TriageInv
    <2> QED
        BY <1>0, <2>1, KeptTells DEF Tells
<1>6. CASE boot = "reinsert"
    <2>1. Distinct(table) /\ Tells(Range(table) \cup Range(kept)) /\ exposed' = exposed \cup KeysOf(kept)
        BY <1>0, <1>1, <1>6 DEF RowInv, TriageInv
    <2>2. \A q \in Range(table) : q.key \notin exposed' => q.status = said[q.key]
        BY <2>1 DEF Tells
    <2>3. \A k \in Keys \ exposed' : (\A q \in Range(table) : q.key # k) => said[k] = "open"
        BY <2>1 DEF Tells, KeysOf
    <2> QED
        BY <1>0, <2>1, <2>2, <2>3, KeptTells
<1> QED
    BY <1>0, <1>4, <1>5, <1>6

LEMMA TriageStep ==
    ASSUME SoundInv, [FindingsNext]_findingsVars
    PROVE  TriageInv'
<1>0. Types /\ TriageInv
    BY SoundFacts
<1>1. ASSUME NEW k \in Keys, WorldChanges(k) PROVE TriageInv'
    <2>1. /\ table' = table /\ kept' = kept /\ job' = job /\ boot' = boot
          /\ said' = said /\ exposed' = exposed
        BY <1>1 DEF WorldChanges, store, startup
    <2> QED
        BY <1>0, <2>1 DEF TriageInv, Tells, KeepNewest, NewestRows, KeysOf
<1>2. CASE UNCHANGED findingsVars
    <2>1. /\ table' = table /\ kept' = kept /\ job' = job /\ boot' = boot
          /\ said' = said /\ exposed' = exposed
        BY <1>2 DEF findingsVars, store, startup
    <2> QED
        BY <1>0, <2>1 DEF TriageInv, Tells, KeepNewest, NewestRows, KeysOf
<1> QED
    BY <1>1, <1>2, TriageAfterCrash, TriageAfterHandler, TriageAfterRequest, TriageAfterBoot DEF FindingsNext

LEMMA TriageInit ==
    ASSUME FindingsInit
    PROVE  TriageInv
<1>1. /\ boot = "dedupe" /\ table \in Seq(Row) /\ exposed = {} /\ said = [k \in Keys |-> NewestStatus(table, k)]
    BY InitTypes, TypeFacts DEF FindingsInit
<1>2. ASSUME NEW r \in KeepNewest(table) PROVE r.status = said[r.key]
    <2>1. PICK n \in NewestRows(table) :
             n \in DOMAIN table /\ r.key = table[n].key /\ r.status = table[n].status
        BY <1>1, KeepFacts
    <2>2. r.key \in Keys /\ r.key \in KeysOf(table)
        BY <1>1, <2>1, KeepFacts, RowFields, RowsOfTable DEF KeysOf
    <2> DEFINE m == CHOOSE x \in NewestRows(table) : table[x].key = r.key
    <2>3. m \in NewestRows(table) /\ table[m].key = r.key
        BY <2>1
    <2>4. NewestStatus(table, r.key) = table[m].status
        BY <2>2 DEF NewestStatus
    <2> HIDE DEF m
    <2>5. m = n
        <3>1. m <= n /\ n <= m /\ m \in DOMAIN table
            BY <2>1, <2>3 DEF NewestRows
        <3> QED
            BY <1>1, <2>1, <3>1
    <2> QED
        BY <1>1, <2>1, <2>2, <2>4, <2>5
<1>3. ASSUME NEW k \in Keys, \A r \in KeepNewest(table) : r.key # k PROVE said[k] = "open"
    <2>1. \A r \in Range(table) : r.key # k
        <3> SUFFICES ASSUME NEW r \in Range(table), r.key = k PROVE FALSE
            OBVIOUS
        <3>1. PICK n \in DOMAIN table : table[n] = r
            BY <1>1, RowsOfTable
        <3>2. PICK q \in KeepNewest(table) : q.key = table[n].key
            BY <1>1, KeepFacts
        <3> QED
            BY <1>3, <3>1, <3>2
    <2>2. k \notin KeysOf(table)
        BY <2>1 DEF KeysOf
    <2> QED
        BY <1>1, <2>2 DEF NewestStatus
<1>4. Tells(KeepNewest(table))
    BY <1>1, <1>2, <1>3 DEF Tells
<1> QED
    BY <1>1, <1>4 DEF TriageInv
-----------------------------------------------------------------------------
(* The posture. *)

\* A handler's step keeps the posture if the rows have what was last seen, or
\* the handler has yet to store it.
LEMMA LookAfter ==
    ASSUME Types, OneBusy, boot = "serving", UNCHANGED startup, NEW j \in Jobs,
           serial' = serial, crashes' = crashes,
           NEW at, NEW todo, NEW scan, NEW row, NEW paths, NEW fresh,
           Becomes(j, at, todo, scan, row, paths, fresh),
           job[j].at # "idle" \/ (serial => Busy = {}),
           serial /\ crashes = 0 =>
              /\ at \in Scanning => \A i \in DOMAIN todo : todo[i][2] = WorstOf(looked'[todo[i][1]])
              /\ at = "upsert" => row.key = Head(todo)[1] /\ row.pqc = Head(todo)[2]
              /\ at \in {"restatus", "restore"} => row.pqc = WorstOf(looked'[row.key])
              /\ \A r \in Range(table') :
                    \/ r.pqc = WorstOf(looked'[r.key])
                    \/ at \in Scanning /\ \E i \in DOMAIN todo : todo[i][1] = r.key
                    \/ at = "restore" /\ row.key = r.key
    PROVE  LookInv'
<1>1. /\ \A i \in Jobs : i # j => job'[i] = job[i]
      /\ job'[j].at = at /\ job'[j].row = row /\ job'[j].todo = todo /\ boot' = "serving"
    BY DEF Becomes, startup
<1>2. serial => \A i \in Jobs : i # j => job[i].at = "idle"
    BY DEF OneBusy, Busy
<1>3. "idle" \notin Scanning
    BY DEF Scanning
<1>4. ASSUME serial', crashes' = 0, NEW i \in Jobs
      PROVE  /\ job'[i].at \in Scanning => \A n \in DOMAIN job'[i].todo :
                    job'[i].todo[n][2] = WorstOf(looked'[job'[i].todo[n][1]])
             /\ job'[i].at = "upsert" =>
                    /\ job'[i].row.key = Head(job'[i].todo)[1]
                    /\ job'[i].row.pqc = Head(job'[i].todo)[2]
             /\ job'[i].at \in {"restatus", "restore"} =>
                    job'[i].row.pqc = WorstOf(looked'[job'[i].row.key])
    BY <1>1, <1>2, <1>3, <1>4
<1>5. ASSUME serial', crashes' = 0, NEW r \in Range(table')
      PROVE  r.pqc = WorstOf(looked'[r.key]) \/ \E i \in Jobs : Pending(i, r.key)'
    <2>1. CASE r.pqc = WorstOf(looked'[r.key])
        BY <2>1
    <2>2. CASE at \in Scanning /\ \E i \in DOMAIN todo : todo[i][1] = r.key
        <3>1. Pending(j, r.key)'
            BY <1>1, <2>2 DEF Pending
        <3> QED
            BY <3>1
    <2>3. CASE at = "restore" /\ row.key = r.key
        <3>1. Pending(j, r.key)'
            BY <1>1, <2>3 DEF Pending
        <3> QED
            BY <3>1
    <2> QED
        BY <1>5, <2>1, <2>2, <2>3
<1> QED
    BY <1>1, <1>4, <1>5 DEF LookInv, Pending

\* What LookInv says of a table that is served, j being the one busy handler or
\* no handler being busy.
LEMMA ServedLook ==
    ASSUME SoundInv, boot = "serving", serial, crashes = 0, NEW j \in Jobs,
           job[j].at # "idle" \/ Busy = {}
    PROVE  /\ job[j].at \in Scanning => \A i \in DOMAIN job[j].todo :
                 job[j].todo[i][2] = WorstOf(looked[job[j].todo[i][1]])
           /\ job[j].at = "upsert" =>
                 job[j].row.key = Head(job[j].todo)[1] /\ job[j].row.pqc = Head(job[j].todo)[2]
           /\ job[j].at \in {"restatus", "restore"} => job[j].row.pqc = WorstOf(looked[job[j].row.key])
           /\ \A r \in Range(table) :
                 \/ r.pqc = WorstOf(looked[r.key])
                 \/ job[j].at \in Scanning /\ \E i \in DOMAIN job[j].todo : job[j].todo[i][1] = r.key
                 \/ job[j].at = "restore" /\ job[j].row.key = r.key
<1>1. LookInv /\ OneBusy
    BY SoundFacts
<1>2. \A i \in Jobs : i # j => job[i].at = "idle"
    BY <1>1 DEF OneBusy, Busy
<1>3. "idle" \notin Scanning
    BY DEF Scanning
<1>4. \A k : \A i \in Jobs : Pending(i, k) => i = j
    BY <1>2, <1>3 DEF Pending
<1>5. \A r \in Range(table) : r.pqc = WorstOf(looked[r.key]) \/ Pending(j, r.key)
    BY <1>1, <1>4 DEF LookInv
<1> QED
    BY <1>1, <1>5 DEF LookInv, Pending

\* A handler that is at none of the places where it has something to store.
LEMMA LookFrame ==
    ASSUME SoundInv, boot = "serving", UNCHANGED <<startup, table, looked, serial, crashes>>, NEW j \in Jobs,
           NEW at, NEW todo, NEW scan, NEW row, NEW paths, NEW fresh,
           Becomes(j, at, todo, scan, row, paths, fresh),
           job[j].at # "idle" \/ (serial => Busy = {}),
           job[j].at \notin Scanning, job[j].at # "restore",
           at \notin Scanning, at \notin {"restatus", "restore"}
    PROVE  LookInv'
<1>1. Types /\ OneBusy /\ UNCHANGED startup /\ serial' = serial /\ crashes' = crashes
    BY SoundFacts
<1>2. "upsert" \in Scanning
    BY DEF Scanning
<1>3. serial /\ crashes = 0 => \A r \in Range(table') : r.pqc = WorstOf(looked'[r.key])
    BY ServedLook
<1> QED
    BY <1>1, <1>2, <1>3, LookAfter

LEMMA LookAfterHandler ==
    ASSUME SoundInv, NEW j \in Jobs, Handler(j)
    PROVE  LookInv'
<1>0. /\ Types /\ OneBusy /\ RowInv
      /\ job[j].at \in Holding => job[j].row.id = stable_finding_id(job[j].row.key)
    BY SoundFacts DEF RowInv
<1>1. CASE InsertScan(j)
    <2>1. /\ boot = "serving" /\ UNCHANGED startup /\ table' = table /\ serial' = serial
          /\ crashes' = crashes /\ looked' = looked /\ job[j].at = "insert"
          /\ Becomes(j, "triage", job[j].todo, job[j].scan, job[j].row, job[j].paths, job[j].fresh)
        BY <1>0, <1>1, InsertMoves
    <2>2. "insert" \in Scanning /\ "triage" \in Scanning
        BY DEF Scanning
    <2>3. serial /\ crashes = 0 =>
              /\ \A i \in DOMAIN job[j].todo : job[j].todo[i][2] = WorstOf(looked'[job[j].todo[i][1]])
              /\ \A r \in Range(table') :
                    r.pqc = WorstOf(looked'[r.key]) \/ \E i \in DOMAIN job[j].todo : job[j].todo[i][1] = r.key
        BY <2>1, <2>2, ServedLook
    <2> QED
        BY <1>0, <2>1, <2>2, <2>3, LookAfter
<1>2. CASE ReadTriage(j)
    <2>1. /\ boot = "serving" /\ UNCHANGED startup /\ table' = table /\ serial' = serial
          /\ crashes' = crashes /\ looked' = looked /\ job[j].at = "triage"
          /\ NewRow(j).key = Head(job[j].todo)[1] /\ NewRow(j).pqc = Head(job[j].todo)[2]
          /\ Becomes(j, "upsert", job[j].todo, job[j].scan, NewRow(j), job[j].paths, job[j].fresh)
        BY <1>0, <1>2, TriageMoves DEF store
    <2>2. "upsert" \in Scanning /\ "triage" \in Scanning
        BY DEF Scanning
    <2>3. serial /\ crashes = 0 =>
              /\ \A i \in DOMAIN job[j].todo : job[j].todo[i][2] = WorstOf(looked'[job[j].todo[i][1]])
              /\ \A r \in Range(table') :
                    r.pqc = WorstOf(looked'[r.key]) \/ \E i \in DOMAIN job[j].todo : job[j].todo[i][1] = r.key
        BY <2>1, <2>2, ServedLook
    <2> QED
        BY <1>0, <2>1, <2>2, <2>3, LookAfter
<1>3. CASE UpsertFinding(j)
    <2> DEFINE todo == job[j].todo
               rest == Tail(todo)
               pc == IF rest = << >> THEN "build" ELSE "triage"
               row == job[j].row
    <2>1. /\ boot = "serving" /\ UNCHANGED startup /\ serial' = serial
          /\ crashes' = crashes /\ looked' = looked /\ job[j].at = "upsert"
          /\ row \in Row /\ table' = Upsert(row) /\ todo # << >>
          /\ Becomes(j, pc, rest, job[j].scan, row, job[j].paths, job[j].fresh)
        BY <1>0, <1>3, UpsertMoves
    <2>2. /\ "upsert" \in Holding /\ "upsert" \in Scanning /\ "triage" \in Scanning
          /\ pc # "upsert" /\ pc \notin {"restatus", "restore"}
        BY DEF Holding, Scanning
    <2>3. Range(table') = {r \in Range(table) : r.key # row.key} \cup {row}
        BY <1>0, <2>1, <2>2, SoundFacts, UpsertFacts
    <2>4. /\ todo \in Seq(Keys \X Postures) /\ Head(todo) = todo[1]
          /\ Len(todo) \in Nat /\ Len(todo) >= 1 /\ DOMAIN todo = 1..Len(todo)
          /\ DOMAIN rest = 1..(Len(todo) - 1)
          /\ \A i \in DOMAIN rest : i + 1 \in DOMAIN todo /\ rest[i] = todo[i + 1]
        BY <1>0, <2>1, TypeFacts, JobFields, TailFacts
    <2>5. ASSUME serial, crashes = 0
          PROVE  /\ \A i \in DOMAIN rest : rest[i][2] = WorstOf(looked[rest[i][1]])
                 /\ \A r \in Range(table') :
                       \/ r.pqc = WorstOf(looked[r.key])
                       \/ pc \in Scanning /\ \E i \in DOMAIN rest : rest[i][1] = r.key
        <3>1. /\ \A i \in DOMAIN todo : todo[i][2] = WorstOf(looked[todo[i][1]])
              /\ row.key = Head(todo)[1] /\ row.pqc = Head(todo)[2]
              /\ \A r \in Range(table) : r.pqc = WorstOf(looked[r.key]) \/ \E i \in DOMAIN todo : todo[i][1] = r.key
            BY <2>1, <2>2, <2>5, ServedLook
        <3> HIDE DEF todo, rest, row, pc
        <3>2. \A i \in DOMAIN rest : rest[i][2] = WorstOf(looked[rest[i][1]])
            BY <2>4, <3>1
        <3>3. row.pqc = WorstOf(looked[row.key])
            BY <2>4, <3>1
        <3>4. ASSUME NEW r \in Range(table), r.key # row.key, r.pqc # WorstOf(looked[r.key])
              PROVE  pc \in Scanning /\ \E i \in DOMAIN rest : rest[i][1] = r.key
            <4>1. PICK i \in DOMAIN todo : todo[i][1] = r.key
                BY <3>1, <3>4
            <4>2. i # 1
                BY <2>4, <3>1, <3>4, <4>1
            <4>3. i - 1 \in DOMAIN rest /\ i - 1 + 1 = i
                BY <2>4, <4>2
            <4>4. rest[i - 1][1] = r.key
                BY <2>4, <4>1, <4>3
            <4>5. rest # << >>
                BY <4>3
            <4> QED
                BY <2>2, <4>3, <4>4, <4>5 DEF pc
        <3> QED
            BY <2>3, <3>2, <3>3, <3>4
    <2> HIDE DEF todo, rest, pc, row
    <2> QED
        BY <1>0, <2>1, <2>2, <2>5, LookAfter
<1>4. CASE StoreStatus(j)
    <2> DEFINE row == job[j].row
    <2>1. /\ boot = "serving" /\ UNCHANGED startup /\ serial' = serial
          /\ crashes' = crashes /\ looked' = looked /\ job[j].at = "restatus"
          /\ row \in Row /\ table' = update_finding(row)
          /\ Becomes(j, "build", job[j].todo, job[j].scan, row, job[j].paths, job[j].fresh)
        BY <1>0, <1>4, StoreMoves
    <2>2. "restatus" \in Holding /\ "restatus" \notin Scanning /\ "build" \notin Scanning
        BY DEF Holding, Scanning
    <2>3. Range(table') = {r \in Range(table) : r.key # row.key}
                            \cup (IF row.key \in KeysOf(table) THEN {row} ELSE {})
        BY <1>0, <2>1, <2>2, SoundFacts, UpdateFacts
    <2>4. ASSUME serial, crashes = 0 PROVE \A r \in Range(table') : r.pqc = WorstOf(looked[r.key])
        <3>1. row.pqc = WorstOf(looked[row.key]) /\ \A r \in Range(table) : r.pqc = WorstOf(looked[r.key])
            BY <2>1, <2>2, <2>4, ServedLook
        <3> HIDE DEF row
        <3> QED
            BY <2>3, <3>1
    <2> HIDE DEF row
    <2> QED
        BY <1>0, <2>1, <2>2, <2>4, LookAfter
<1>5. CASE Recheck(j)
    <2> DEFINE row == job[j].row
    <2>0. PICK L \in SUBSET Postures :
              \/ /\ Becomes(j, "restore", job[j].todo, job[j].scan,
                            [row EXCEPT !.pqc = WorstOf(L)], job[j].paths, job[j].fresh)
                 /\ looked' = [looked EXCEPT ![row.key] = L]
              \/ /\ Becomes(j, "idle", << >>, 0, << >>, {}, {})
                 /\ looked' = looked
        BY <1>0, <1>5, RecheckMoves
    <2> DEFINE n == [row EXCEPT !.pqc = WorstOf(L)]
    <2>1. /\ boot = "serving" /\ UNCHANGED startup /\ serial' = serial /\ table' = table
          /\ crashes' = crashes /\ job[j].at = "recheck" /\ row \in Row
        BY <1>0, <1>5, RecheckMoves DEF store
    <2>2. n.pqc = WorstOf(L) /\ n.key = row.key /\ row.key \in Keys
        BY <2>1 DEF Row
    <2>3. "recheck" \notin Scanning /\ "restore" \notin Scanning /\ "idle" \notin Scanning
        BY DEF Scanning
    <2>4. serial /\ crashes = 0 => \A r \in Range(table) : r.pqc = WorstOf(looked[r.key])
        BY <2>1, <2>3, ServedLook
    <2>5. \A r \in Range(table) : r.key \in Keys
        BY <1>0, TypeFacts, RowsOfTable, RowFields
    <2> HIDE DEF n, row
    <2>6. CASE /\ Becomes(j, "restore", job[j].todo, job[j].scan, n, job[j].paths, job[j].fresh)
               /\ looked' = [looked EXCEPT ![row.key] = L]
        <3>1. \A k \in Keys : looked'[k] = IF k = row.key THEN L ELSE looked[k]
            BY <1>0, <2>6, TypeFacts
        <3>2. serial /\ crashes = 0 =>
                 /\ n.pqc = WorstOf(looked'[n.key])
                 /\ \A r \in Range(table') : r.pqc = WorstOf(looked'[r.key]) \/ n.key = r.key
            BY <2>1, <2>2, <2>4, <2>5, <3>1
        <3> QED
            BY <1>0, <2>1, <2>3, <2>6, <3>2, LookAfter
    <2>7. CASE Becomes(j, "idle", << >>, 0, << >>, {}, {}) /\ looked' = looked
        BY <1>0, <2>1, <2>3, <2>4, <2>7, LookAfter
    <2> QED
        BY <2>0, <2>6, <2>7 DEF n
<1>6. CASE StorePosture(j)
    <2> DEFINE row == job[j].row
    <2>1. /\ boot = "serving" /\ UNCHANGED startup /\ serial' = serial
          /\ crashes' = crashes /\ looked' = looked /\ job[j].at = "restore"
          /\ row \in Row /\ table' = update_finding(row)
          /\ \/ Becomes(j, "build", job[j].todo, job[j].scan, row, job[j].paths, job[j].fresh)
             \/ Becomes(j, "idle", << >>, 0, << >>, {}, {})
        BY <1>0, <1>6, RestoreMoves
    <2>2. "restore" \in Holding /\ {"restore", "build", "idle"} \cap Scanning = {}
        BY DEF Holding, Scanning
    <2>3. Range(table') = {r \in Range(table) : r.key # row.key}
                            \cup (IF row.key \in KeysOf(table) THEN {row} ELSE {})
        BY <1>0, <2>1, <2>2, SoundFacts, UpdateFacts
    <2>4. ASSUME serial, crashes = 0 PROVE \A r \in Range(table') : r.pqc = WorstOf(looked[r.key])
        <3>1. row.pqc = WorstOf(looked[row.key]) /\ \A r \in Range(table) : r.pqc = WorstOf(looked[r.key]) \/ row.key = r.key
            BY <2>1, <2>2, <2>4, ServedLook
        <3> HIDE DEF row
        <3> QED
            BY <2>3, <3>1
    <2> HIDE DEF row
    <2>5. CASE Becomes(j, "build", job[j].todo, job[j].scan, row, job[j].paths, job[j].fresh)
        BY <1>0, <2>1, <2>2, <2>4, <2>5, LookAfter
    <2>6. CASE Becomes(j, "idle", << >>, 0, << >>, {}, {})
        BY <1>0, <2>1, <2>2, <2>4, <2>6, LookAfter
    <2> QED
        BY <2>1, <2>5, <2>6
<1>7. {"build", "compare", "record", "alert", "idle"} \cap Scanning = {}
    BY DEF Scanning
<1>8. CASE BuildGraph(j)
    BY <1>0, <1>7, <1>8, BuildMoves, LookFrame DEF store
<1>9. CASE CompareSnapshot(j)
    BY <1>0, <1>7, <1>9, CompareMoves, LookFrame DEF store
<1>10. CASE RecordSnapshot(j)
    BY <1>0, <1>7, <1>10, RecordMoves, LookFrame
<1>11. CASE AlertPath(j)
    BY <1>0, <1>7, <1>11, AlertMoves, LookFrame DEF store
<1> QED
    BY <1>1, <1>2, <1>3, <1>4, <1>5, <1>6, <1>8, <1>9, <1>10, <1>11 DEF Handler
LEMMA LookAfterRequest ==
    ASSUME SoundInv, NEW j \in Jobs, Request(j)
    PROVE  LookInv'
<1>0. /\ Types /\ OneBusy /\ "idle" \notin Scanning
      /\ {"restatus", "recheck"} \cap Scanning = {} /\ "insert" \in Scanning
    BY SoundFacts DEF Scanning
<1>1. ASSUME NEW S \in SUBSET Keys, S # {}, Probe(j, S) PROVE LookInv'
    <2> DEFINE todo == Seen(S)
    <2>1. /\ boot = "serving" /\ UNCHANGED startup /\ table' = table /\ serial' = serial
          /\ crashes' = crashes /\ job[j].at = "idle" /\ (serial => Busy = {})
          /\ Becomes(j, "insert", todo, ops + 1, << >>, {}, {})
        BY <1>0, <1>1, ProbeMoves DEF store
    <2>2. \A k \in Keys : looked'[k] = IF k \in S THEN {world[k]} ELSE looked[k]
        BY <1>1 DEF Probe
    <2>8. \A k \in Keys : WorstOf({world[k]}) = world[k]
        BY <1>0, TypeFacts DEF WorstOf, Postures
    <2>3. /\ \A i \in DOMAIN todo : todo[i][1] \in S /\ todo[i][2] = world[todo[i][1]]
          /\ \A k \in S : \E i \in DOMAIN todo : todo[i][1] = k
        BY <1>0, <1>1, ProbeFacts
    <2> HIDE DEF todo
    <2>4. \A i \in DOMAIN todo : todo[i][2] = WorstOf(looked'[todo[i][1]])
        <3>1. ASSUME NEW i \in DOMAIN todo PROVE todo[i][2] = WorstOf(looked'[todo[i][1]])
            <4> DEFINE k == todo[i][1]
            <4>1. k \in S /\ k \in Keys /\ todo[i][2] = world[k]
                BY <2>3
            <4> HIDE DEF k
            <4>2. looked'[k] = {world[k]} /\ WorstOf({world[k]}) = world[k]
                BY <2>2, <2>8, <4>1
            <4> QED
                BY <4>1, <4>2 DEF k
        <3> QED
            BY <3>1
    <2>5. \A r \in Range(table) : r.key \in Keys
        BY <1>0, TypeFacts, RowsOfTable, RowFields
    <2>6. serial /\ crashes = 0 => \A r \in Range(table) : r.pqc = WorstOf(looked[r.key])
        BY <1>0, <2>1, ServedLook
    <2>7. serial /\ crashes = 0 => \A r \in Range(table') :
              r.pqc = WorstOf(looked'[r.key]) \/ \E i \in DOMAIN todo : todo[i][1] = r.key
        BY <2>1, <2>2, <2>3, <2>5, <2>6
    <2> QED
        BY <1>0, <2>1, <2>4, <2>7, LookAfter
<1>2. ASSUME NEW id, NEW s \in Statuses, SetFindingStatus(j, id, s) PROVE LookInv'
    <2> DEFINE r == [get_finding(id) EXCEPT !.status = s]
               g == get_finding(id)
    <2>1. /\ boot = "serving" /\ UNCHANGED startup /\ table' = table /\ serial' = serial
          /\ crashes' = crashes /\ looked' = looked /\ job[j].at = "idle" /\ (serial => Busy = {})
          /\ Found(id) /\ Becomes(j, "restatus", << >>, 0, r, {}, {})
        BY <1>0, <1>2, StatusMoves DEF store
    <2>2. g \in Range(table) /\ r.key = g.key /\ r.pqc = g.pqc
        BY <2>1, SoundFacts, ReadClean
    <2> HIDE DEF r, g
    <2>3. serial /\ crashes = 0 => \A x \in Range(table) : x.pqc = WorstOf(looked[x.key])
        BY <1>0, <2>1, ServedLook
    <2>4. serial /\ crashes = 0 => r.pqc = WorstOf(looked'[r.key])
        BY <2>1, <2>2, <2>3
    <2> QED
        BY <1>0, <2>1, <2>3, <2>4, LookAfter
<1>3. ASSUME NEW id, VerifyFinding(j, id) PROVE LookInv'
    BY <1>0, <1>3, VerifyMoves, LookFrame DEF store
<1>4. CASE \E S \in (SUBSET Keys) \ {{}} : Probe(j, S)
    BY <1>1, <1>4
<1>5. CASE \E r \in Range(table), s \in Statuses : SetFindingStatus(j, r.id, s)
    BY <1>2, <1>5
<1>6. CASE \E r \in Range(table) : VerifyFinding(j, r.id)
    BY <1>3, <1>6
<1> QED
    BY <1>4, <1>5, <1>6 DEF Request

LEMMA LookAfterBoot ==
    ASSUME SoundInv, Boot
    PROVE  LookInv'
<1>0. /\ Types /\ LookInv /\ table \in Seq(Row) /\ kept \in Seq(Row)
    BY SoundFacts, TypeFacts
<1>1. /\ job' = job /\ looked' = looked /\ crashes' = crashes /\ boot # "serving"
      /\ \A j \in Jobs : job[j].at = "idle"
    BY <1>0, BootTypes
<1>2. CASE crashes # 0
    BY <1>1, <1>2 DEF LookInv
<1>3. CASE crashes = 0
    <2>1. \A r \in Range(table) \cup Range(kept) : r.pqc = WorstOf(looked[r.key])
        BY <1>0, <1>1, <1>3 DEF LookInv
    <2>2. ASSUME \A r \in Range(table') \cup Range(kept') : r.pqc = WorstOf(looked[r.key])
          PROVE  LookInv'
        <3>1. \A j \in Jobs : job'[j].at \notin Scanning /\ job'[j].at = "idle"
            BY <1>1 DEF Scanning
        <3> QED
            BY <1>1, <2>2, <3>1 DEF LookInv
    <2>3. CASE DedupeRead
        <3>1. kept' = SetToSeq(KeepNewest(table)) /\ table' = table
            BY <2>3 DEF DedupeRead, store
        <3>2. Range(kept') = KeepNewest(table)
            BY <1>0, <3>1, KeptRows
        <3>3. ASSUME NEW r \in KeepNewest(table) PROVE r.pqc = WorstOf(looked[r.key])
            <4>1. PICK n \in DOMAIN table : r.key = table[n].key /\ r.pqc = table[n].pqc
                BY <1>0, KeepFacts
            <4>2. table[n] \in Range(table)
                BY <1>0, RowsOfTable
            <4> QED
                BY <2>1, <4>1, <4>2
        <3> QED
            BY <2>1, <2>2, <3>1, <3>2, <3>3
    <2>4. CASE DedupeDelete
        <3>1. table' = << >> /\ kept' = kept
            BY <2>4 DEF DedupeDelete
        <3>2. Range(table') = {}
            BY <3>1 DEF Range
        <3> QED
            BY <2>1, <2>2, <3>1, <3>2
    <2>5. CASE DedupeInsert
        <3>1. table' = Append(table, Head(kept)) /\ kept' = Tail(kept) /\ boot = "reinsert"
            BY <2>5 DEF DedupeInsert
        <3>2. kept # << >>
            BY <1>0, <3>1 DEF Types, JobsTyped
        <3>3. Head(kept) \in Row /\ Range(kept) = {Head(kept)} \cup Range(Tail(kept))
            BY <1>0, <3>2, TailFacts
        <3>4. Range(table') = Range(table) \cup {Head(kept)}
            BY <1>0, <3>1, <3>3, AppendFacts
        <3> QED
            BY <2>1, <2>2, <3>1, <3>3, <3>4
    <2>6. CASE CreateIndex
        <3>1. table' = table /\ kept' = << >>
            BY <2>6 DEF CreateIndex
        <3>2. Range(kept') = {}
            BY <3>1 DEF Range
        <3> QED
            BY <2>1, <2>2, <3>1, <3>2
    <2> QED
        BY <2>3, <2>4, <2>5, <2>6 DEF Boot
<1> QED
    BY <1>2, <1>3

LEMMA LookStep ==
    ASSUME SoundInv, [FindingsNext]_findingsVars
    PROVE  LookInv'
<1>0. Types /\ LookInv
    BY SoundFacts
<1>1. CASE Crash
    <2>1. crashes' # 0
        BY <1>0, <1>1, CrashTypes, TypeFacts
    <2> QED
        BY <2>1 DEF LookInv
<1>2. ASSUME NEW k \in Keys, WorldChanges(k) PROVE LookInv'
    <2>1. /\ table' = table /\ serial' = serial /\ kept' = kept /\ job' = job /\ boot' = boot
          /\ looked' = looked /\ crashes' = crashes
        BY <1>0, <1>2, WorldTypes DEF store, startup
    <2> QED
        BY <1>0, <2>1 DEF LookInv, Pending
<1>3. CASE UNCHANGED findingsVars
    <2>1. /\ table' = table /\ serial' = serial /\ kept' = kept /\ job' = job /\ boot' = boot
          /\ looked' = looked /\ crashes' = crashes
        BY <1>3, StutterTypes
    <2> QED
        BY <1>0, <2>1 DEF LookInv, Pending
<1> QED
    BY <1>1, <1>2, <1>3, LookAfterHandler, LookAfterRequest, LookAfterBoot DEF FindingsNext

LEMMA LookInit ==
    ASSUME origin # "single", FindingsInit
    PROVE  LookInv
<1>1. boot = "dedupe" /\ kept = << >> /\ looked = [k \in Keys |-> {"weak"}]
    BY DEF FindingsInit
<1>2. Range(kept) = {}
    BY <1>1 DEF Range
<1>3. \A r \in Range(table) : r.pqc = WorstOf(looked[r.key])
    BY <1>1, OldTablesFacts DEF WorstOf
<1> QED
    BY <1>1, <1>2, <1>3 DEF LookInv

LEMMA SoundInitially == FindingsInit /\ origin # "single" => SoundInv
BY CoreInit, RowInit, TriageInit, LookInit DEF SoundInv

LEMMA SoundStep == SoundInv /\ [FindingsNext]_findingsVars => SoundInv'
<1> SUFFICES ASSUME SoundInv, [FindingsNext]_findingsVars PROVE SoundInv'
    OBVIOUS
<1>1. CoreInv /\ Types /\ RowInv
    BY SoundFacts DEF SoundInv
<1> QED
    BY <1>1, CoreStep, RowStep, TriageStep, LookStep DEF SoundInv

\* The core of it holds for every old table; the rest where the migration leaves
\* no random id behind.
TableInv == CoreInv /\ (origin = "single" \/ SoundInv)

LEMMA TableInitially == FindingsInit => TableInv
BY CoreInit, SoundInitially DEF TableInv

LEMMA OriginStays == [FindingsNext]_findingsVars => origin' = origin
<1> SUFFICES ASSUME FindingsNext PROVE origin' = origin
    BY DEF findingsVars
<1>1. ASSUME NEW j \in Jobs, Handler(j) PROVE origin' = origin
    BY <1>1 DEF Handler, InsertScan, ReadTriage, UpsertFinding, StoreStatus, Recheck, StorePosture,
                BuildGraph, CompareSnapshot, RecordSnapshot, AlertPath
<1>2. ASSUME NEW j \in Jobs, Request(j) PROVE origin' = origin
    BY <1>2 DEF Request, Probe, SetFindingStatus, VerifyFinding
<1>3. Boot \/ Crash => origin' = origin
    BY DEF Boot, DedupeRead, DedupeDelete, DedupeInsert, CreateIndex, Crash
<1> QED
    BY <1>1, <1>2, <1>3 DEF FindingsNext, WorldChanges

LEMMA TableStep == TableInv /\ [FindingsNext]_findingsVars => TableInv'
BY CoreStep, SoundStep, OriginStays DEF TableInv

\* What the findings table says can be relied on, for every number of findings,
\* handlers, requests and crashes, every grouping of the findings on ports and
\* whatever handlers interleave: each finding names a stored scan; started on any
\* table but one of random ids without duplicates, which the migration leaves
\* alone, each finding is there once, with the triage that was last stored unless
\* a handler or a crash met it half-way; handled one at a time, its posture is the
\* last one seen (record_scan, set_finding_status, verify_finding, dedupe_findings).
THEOREM FindingsAreSoundHolds == FindingsSpec => []FindingsAreSound
<1>1. FindingsInit => TableInv
    BY TableInitially
<1>2. TableInv /\ [FindingsNext]_findingsVars => TableInv'
    BY TableStep
<1>3. TableInv => FindingsAreSound
    <2>0. CoreInv => FindingsTypeOK /\ FindingHasScan
        BY DEF CoreInv, Types, ScanInv
    <2> SUFFICES ASSUME SoundInv PROVE OneRowPerFinding /\ TriageKept /\ RowIsLastLook
        BY <2>0 DEF TableInv, FindingsAreSound
    <2>1. FindingsTypeOK /\ FindingHasScan /\ RowInv /\ TriageInv /\ Types
        BY SoundFacts DEF SoundInv, CoreInv, Types, ScanInv
    <2>2. OneRowPerFinding
        BY <2>1 DEF OneRowPerFinding, RowInv, Distinct
    <2>3. TriageKept
        BY <2>1, ServedTriage DEF TriageKept
    <2>4. ASSUME serial, crashes = 0, Quiet, NEW r \in Range(table) PROVE r.pqc = WorstOf(looked[r.key])
        <3>1. LookInv /\ \A j \in Jobs : job[j].at = "idle"
            BY <2>4, SoundFacts DEF Quiet, Busy
        <3>2. \A j \in Jobs : ~Pending(j, r.key)
            BY <3>1 DEF Pending, Scanning
        <3> QED
            BY <2>4, <3>1, <3>2 DEF LookInv, Quiet
    <2>5. RowIsLastLook
        BY <2>4 DEF RowIsLastLook
    <2> QED
        BY <2>2, <2>3, <2>5
<1> QED
    BY <1>1, <1>2, <1>3, PTL DEF FindingsSpec

\* No finding is lost while the gateway serves, whatever handlers interleave: a
\* re-scan, a triage or a re-verification replaces the row of its finding and no
\* other, and a restart leaves the rows to the migration.
THEOREM FindingsStayHolds == FindingsSpec => [][FindingsStay]_findingsVars
<1>1. FindingsInit => TableInv
    BY TableInitially
<1>2. TableInv /\ [FindingsNext]_findingsVars => TableInv'
    BY TableStep
<1>3. TableInv /\ [FindingsNext]_findingsVars => [FindingsStay]_findingsVars
    <2> SUFFICES ASSUME SoundInv, FindingsNext, boot = "serving"
                 PROVE  KeysOf(table) \subseteq KeysOf(table')
        BY DEF FindingsStay, TableInv
    <2>0. Types /\ Clean(table) /\ index /\ RowInv
        BY SoundFacts
    <2>1. table' = table => KeysOf(table) \subseteq KeysOf(table')
        OBVIOUS
    <2>2. ASSUME NEW row \in Row, row.id = stable_finding_id(row.key),
                 table' = Upsert(row) \/ table' = update_finding(row)
          PROVE  KeysOf(table) \subseteq KeysOf(table')
        <3>1. Range(Upsert(row)) = {r \in Range(table) : r.key # row.key} \cup {row}
            BY <2>0, <2>2, UpsertFacts
        <3>2. Range(update_finding(row)) =
                 {r \in Range(table) : r.key # row.key}
                   \cup (IF row.key \in KeysOf(table) THEN {row} ELSE {})
            BY <2>0, <2>2, UpdateFacts
        <3> QED
            BY <2>2, <3>1, <3>2 DEF KeysOf
    <2>3. ASSUME NEW j \in Jobs, Handler(j) PROVE KeysOf(table) \subseteq KeysOf(table')
        <3>1. job[j].at \in Holding => job[j].row \in Row /\ job[j].row.id = stable_finding_id(job[j].row.key)
            BY <2>0 DEF RowInv, Types, JobsTyped
        <3>2. CASE UpsertFinding(j)
            <4>1. job[j].at \in Holding /\ table' = Upsert(job[j].row)
                BY <3>2 DEF UpsertFinding, At, Holding
            <4> QED
                BY <2>2, <3>1, <4>1
        <3>3. CASE StoreStatus(j) \/ StorePosture(j)
            <4>1. job[j].at \in Holding /\ table' = update_finding(job[j].row)
                BY <3>3 DEF StoreStatus, StorePosture, At, Holding
            <4> QED
                BY <2>2, <3>1, <4>1
        <3>4. CASE ~(UpsertFinding(j) \/ StoreStatus(j) \/ StorePosture(j))
            BY <2>1, <2>3, <3>4 DEF Handler, InsertScan, ReadTriage, Recheck, BuildGraph,
                                    CompareSnapshot, RecordSnapshot, AlertPath, store
        <3> QED
            BY <3>2, <3>3, <3>4
    <2>4. ASSUME NEW j \in Jobs, Request(j) PROVE table' = table
        BY <2>4 DEF Request, Probe, SetFindingStatus, VerifyFinding, store
    <2>5. ~Boot
        BY DEF Boot, DedupeRead, DedupeDelete, DedupeInsert, CreateIndex
    <2>6. Crash => table' = table
        BY DEF Crash, store
    <2>7. ASSUME NEW k \in Keys, WorldChanges(k) PROVE table' = table
        BY <2>7 DEF WorldChanges, store
    <2> QED
        BY <2>1, <2>3, <2>4, <2>5, <2>6, <2>7 DEF FindingsNext
<1> QED
    BY <1>1, <1>2, <1>3, PTL DEF FindingsSpec
=============================================================================
