---------------------------- MODULE DesktopProofs ----------------------------
(***************************************************************************)
(* Proofs about Desktop for any hosts, assets, findings, connections and   *)
(* pages, any number of clicks, workers, foreign writes and restarts.      *)
(***************************************************************************)
EXTENDS Desktop, FiniteSetTheorems, SequenceTheorems, TLAPS

-----------------------------------------------------------------------------
(* The inductive invariant, by the part of the client it is about. *)

RowType == [air : BOOLEAN, status : Statuses]
Triages == {"none", "open", "acknowledged", "suppressed"}
ConnType == [tested : {"no", "connected", "failed"}, scanned : {"no", "yes"}]
CertStates == {"active", "revoked"}
StoreType == [rows : [Ids -> RowType \cup {Gone}], triage : [Keys -> Triages], conns : [Conns -> ConnType \cup {Gone}],
              certs : Seq(CertStates), others : SUBSET Others, scans : {0, 1}, tickets : {0, 1}, postures : {0, 1}]
StoreOK(d) == d \in StoreType /\ Len(d.certs) <= MaxCerts

\* The snapshot and the store; the snapshot lags only behind others.
StoresOK ==
    /\ StoreOK(db) /\ StoreOK(data)
    /\ behind \in BOOLEAN /\ (data # db => behind)

JobType == [op : {"test", "scan", "ticket"}, conn : Conns, key : Keys \cup {"none"}, chan : Nat,
            at : {"begin", "call", "write"}, row : ConnType \cup {Gone}]
NetType == [busy : BOOLEAN, rx : Nat, next : Nat, jobs : SUBSET JobType, inbox : SUBSET Nat]

\* One operation runs, or its message waits, or nothing is busy; a job past its
\* first read has a connection's row.
NetOK ==
    /\ net \in NetType
    /\ \A i, j \in net.jobs : i = j
    /\ net.jobs # {} => net.inbox = {}
    /\ net.busy <=> (net.jobs # {} \/ net.inbox # {})
    /\ \A j \in net.jobs : j.chan = net.rx /\ (j.at # "begin" => j.row \in ConnType)

ScanOK == scan \in [busy : BOOLEAN, at : {"none", "scanning", "sent"}, recorded : BOOLEAN]

ProbeOK ==
    probe \in [results : [Ids -> {"none", "probing", "reachable", "unreachable"}], rx : Nat, latest : Ids \cup {"none"},
               jobs : SUBSET [id : Ids, chan : Nat], inbox : SUBSET [id : Ids, st : {"reachable", "unreachable"}]]

\* A graph was built with the overrides it has unless the next sync is forced.
GraphFine(g) ==
    /\ {"sig", "over"} \subseteq DOMAIN g
    /\ g.sig # Forced => g.built = g.over
GraphOK == GraphFine(graph)

TabsFine(ts) == ts \in Seq(Pages) /\ ts # <<>> /\ IsInjective(ts)
TabsOK == page \in Pages /\ TabsFine(tabs)

TermType == [lines : Seq(Nat), printed : Nat, captures : Nat, inbox : Nat, open : BOOLEAN, float : BOOLEAN]

\* The lines up to the number printed.
IsTail(ls, printed) == ls \in Seq(Nat) /\ \A n \in 1..Len(ls) : ls[n] = printed - Len(ls) + n
TermFine(t) == t \in TermType /\ IsTail(t.lines, t.printed)
TermOK == TermFine(term)

SelectedOK == selected = <<>> \/ Len(selected) = 2

DesktopInv ==
    /\ phase \in {"poll", "ui"} /\ events \in Nat /\ key \in 0..MaxCerts
    /\ StoresOK /\ NetOK /\ ScanOK /\ ProbeOK /\ GraphOK /\ TabsOK /\ TermOK /\ SelectedOK

-----------------------------------------------------------------------------
(* Tabs. *)

\* The active page gets a tab, and no page two.
LEMMA WithTabFine == ASSUME NEW p \in Pages, NEW ts, TabsFine(ts) PROVE TabsFine(WithTab(p, ts))
<1>1. CASE Contains(ts, p)
    BY <1>1 DEF WithTab
<1>2. CASE ~Contains(ts, p)
    <2> DEFINE new == Append(ts, p)
    <2>1. ts \in Seq(Pages) /\ IsInjective(ts)
        BY DEF TabsFine
    <2>2. /\ new \in Seq(Pages) /\ new # <<>> /\ Len(new) = Len(ts) + 1 /\ new[Len(ts) + 1] = p
          /\ \A i \in 1..Len(ts) : new[i] = ts[i]
        BY <2>1, AppendProperties
    <2>3. Len(ts) \in Nat /\ DOMAIN ts = 1..Len(ts) /\ DOMAIN new = 1..(Len(ts) + 1)
        BY <2>1, <2>2, LenProperties
    <2>4. \A i \in 1..Len(ts) : ts[i] # p
        BY <1>2 DEF Contains
    <2>5. WithTab(p, ts) = new
        BY <1>2 DEF WithTab
    <2> HIDE DEF new
    <2>6. \A i, j \in DOMAIN new : new[i] = new[j] => i = j
        BY <2>1, <2>2, <2>3, <2>4 DEF IsInjective
    <2> QED
        BY <2>2, <2>5, <2>6 DEF TabsFine, IsInjective
<1> QED
    BY <1>1, <1>2

\* The tabs up to one of them.
LEMMA PrefixFine ==
    ASSUME NEW ts, TabsFine(ts), NEW i \in DOMAIN ts
    PROVE  TabsFine(SubSeq(ts, 1, i)) /\ Last(SubSeq(ts, 1, i)) \in Pages
<1> DEFINE new == SubSeq(ts, 1, i)
<1>1. ts \in Seq(Pages) /\ IsInjective(ts)
    BY DEF TabsFine
<1>2. Len(ts) \in Nat /\ DOMAIN ts = 1..Len(ts) /\ \A j \in 1..Len(ts) : ts[j] \in Pages
    BY <1>1, LenProperties
<1>3. i \in Nat /\ 1 <= i /\ i <= Len(ts)
    BY <1>2
<1>4. new \in Seq(Pages) /\ Len(new) = i /\ \A j \in 1..i : new[j] = ts[j]
    <2>1. 1 \in Int /\ i \in Int /\ \A j \in 1..i : ts[j] \in Pages
        BY <1>2, <1>3
    <2>2. new \in Seq(Pages) /\ Len(new) = (IF 1 <= i THEN i - 1 + 1 ELSE 0) /\ \A j \in 1..(i - 1 + 1) : new[j] = ts[1 + j - 1]
        BY <2>1, SubSeqProperties
    <2> HIDE DEF new
    <2> QED
        BY <1>3, <2>2
<1> HIDE DEF new
<1>5. DOMAIN new = 1..i
    BY <1>4, LenProperties
<1>6. new # <<>>
    BY <1>3, <1>4
<1>7. \A j, k \in DOMAIN new : new[j] = new[k] => j = k
    BY <1>1, <1>2, <1>3, <1>4, <1>5 DEF IsInjective
<1>8. Last(new) \in Pages
    BY <1>2, <1>3, <1>4 DEF Last
<1> QED
    BY <1>4, <1>6, <1>7, <1>8 DEF TabsFine, IsInjective, new

LEMMA OneTab == ASSUME NEW p \in Pages PROVE TabsFine(<<p>>)
BY DEF TabsFine, IsInjective

\* retain of the one tab of a page: the tabs left keep their order.
LEMMA RetainedFine ==
    ASSUME NEW ts, TabsFine(ts), NEW k \in DOMAIN ts
    PROVE  Retained(ts, ts[k]) \in Seq(Pages) /\ IsInjective(Retained(ts, ts[k]))
<1> DEFINE kept == {i \in DOMAIN ts : ts[i] # ts[k]}
           Place(i) == Cardinality({j \in kept : j <= i})
           At(n) == CHOOSE i \in kept : Place(i) = n
           m == Len(ts) - 1
           new == [n \in 1..m |-> ts[At(n)]]
<1>1. ts \in Seq(Pages) /\ IsInjective(ts)
    BY DEF TabsFine
<1>2. Len(ts) \in Nat /\ DOMAIN ts = 1..Len(ts) /\ \A j \in 1..Len(ts) : ts[j] \in Pages
    BY <1>1, LenProperties
<1>3. k \in Nat /\ 1 <= k /\ k <= Len(ts) /\ m \in Nat
    BY <1>2
<1>4. kept = (1..Len(ts)) \ {k}
    BY <1>1, <1>2 DEF IsInjective
<1>5. Cardinality(kept) = m
    <2>1. IsFiniteSet(1..Len(ts)) /\ Cardinality(1..Len(ts)) = Len(ts)
        BY <1>2, <1>3, FS_Interval
    <2>2. Cardinality((1..Len(ts)) \ {k}) = IF k \in 1..Len(ts) THEN Len(ts) - 1 ELSE Len(ts)
        BY <2>1, FS_RemoveElement
    <2>3. k \in 1..Len(ts)
        BY <1>2
    <2> HIDE DEF kept
    <2> QED
        BY <1>4, <2>2, <2>3
<1>6. \A i \in kept : Place(i) = IF i < k THEN i ELSE i - 1
    <2> TAKE i \in kept
    <2>1. i \in 1..Len(ts) /\ i # k /\ i \in Nat
        BY <1>2, <1>4
    <2>2. {j \in kept : j <= i} = (1..i) \ {k}
        BY <1>2, <1>4, <2>1
    <2>3. IsFiniteSet(1..i) /\ Cardinality(1..i) = i
        BY <2>1, FS_Interval
    <2>4. Cardinality((1..i) \ {k}) = IF k \in 1..i THEN i - 1 ELSE i
        BY <2>3, FS_RemoveElement
    <2>5. (k \in 1..i) <=> ~(i < k)
        BY <1>3, <2>1
    <2>6. Place(i) = Cardinality((1..i) \ {k})
        BY <2>2, Zenon
    <2> HIDE DEF Place, kept
    <2> QED
        BY <2>4, <2>5, <2>6
<1> HIDE DEF Place
<1>7. \A n \in 1..m : At(n) \in kept /\ Place(At(n)) = n
    <2> TAKE n \in 1..m
    <2>1. \E i \in kept : Place(i) = n
        <3>1. CASE n < k
            <4>1. n \in kept
                BY <1>2, <1>3, <1>4, <3>1
            <4> QED
                BY <1>6, <3>1, <4>1
        <3>2. CASE ~(n < k)
            <4>1. n + 1 \in kept /\ ~(n + 1 < k) /\ (n + 1) - 1 = n
                BY <1>2, <1>3, <1>4, <3>2
            <4> QED
                BY <1>6, <4>1
        <3> QED
            BY <3>1, <3>2
    <2> QED
        BY <2>1
<1>8. Retained(ts, ts[k]) = new
    BY <1>5 DEF Retained, Place
<1> HIDE DEF At
<1>9. \A n \in 1..m : ts[At(n)] \in Pages
    BY <1>2, <1>4, <1>7
<1>10. new \in Seq(Pages) /\ DOMAIN new = 1..m /\ \A n \in 1..m : new[n] = ts[At(n)]
    BY <1>3, <1>9
<1> HIDE DEF new
<1>11. \A a, b \in DOMAIN new : new[a] = new[b] => a = b
    <2> SUFFICES ASSUME NEW a \in 1..m, NEW b \in 1..m, ts[At(a)] = ts[At(b)] PROVE a = b
        BY <1>10
    <2>1. At(a) = At(b)
        BY <1>1, <1>2, <1>4, <1>7 DEF IsInjective
    <2> QED
        BY <1>7, <2>1
<1> QED
    BY <1>8, <1>10, <1>11 DEF IsInjective

LEMMA CloseTabFine ==
    ASSUME page \in Pages, NEW ts, TabsFine(ts), NEW k \in DOMAIN ts
    PROVE  TabsFine(CloseTab(ts[k], ts).tabs) /\ CloseTab(ts[k], ts).page \in Pages
<1> DEFINE rest == Retained(ts, ts[k])
           left == IF rest = <<>> THEN <<"Overview">> ELSE rest
<1>1. TabsFine(left)
    BY RetainedFine, OneTab, DesktopAssumption DEF TabsFine
<1>2. CloseTab(ts[k], ts).tabs = left /\ CloseTab(ts[k], ts).page = IF page = ts[k] THEN Last(left) ELSE page
    BY DEF CloseTab
<1> HIDE DEF left
<1>3. Last(left) \in Pages
    <2>1. left \in Seq(Pages) /\ left # <<>>
        BY <1>1 DEF TabsFine
    <2> QED
        BY <2>1, LenProperties DEF Last
<1> QED
    BY <1>1, <1>2, <1>3

LEMMA SliceFacts ==
    ASSUME NEW S, NEW s \in Seq(S), NEW a \in Nat, NEW b \in Nat, 1 <= a, a <= b + 1, b <= Len(s)
    PROVE  /\ SubSeq(s, a, b) \in Seq(S) /\ Len(SubSeq(s, a, b)) = b + 1 - a
           /\ \A i \in 1..(b + 1 - a) : SubSeq(s, a, b)[i] = s[i + a - 1]
<1> DEFINE new == SubSeq(s, a, b)
<1>1. Len(s) \in Nat /\ \A i \in 1..Len(s) : s[i] \in S
    BY LenProperties
<1>2. a \in Int /\ b \in Int /\ \A i \in a..b : s[i] \in S
    BY <1>1
<1>3. new \in Seq(S) /\ Len(new) = (IF a <= b THEN b - a + 1 ELSE 0) /\ \A i \in 1..(b - a + 1) : new[i] = s[a + i - 1]
    BY <1>2, SubSeqProperties
<1>4. Len(new) = b + 1 - a
    BY <1>3
<1>5. \A i \in 1..(b + 1 - a) : new[i] = s[i + a - 1]
    <2> TAKE i \in 1..(b + 1 - a)
    <2>1. i \in 1..(b - a + 1) /\ a + i - 1 = i + a - 1
        OBVIOUS
    <2>2. new[i] = s[a + i - 1]
        BY <1>3, <2>1
    <2> QED
        BY <2>1, <2>2
<1> QED
    BY <1>3, <1>4, <1>5

LEMMA ConcatFacts ==
    ASSUME NEW S, NEW s \in Seq(S), NEW t \in Seq(S), NEW u, u = s \o t
    PROVE  /\ u \in Seq(S) /\ Len(u) = Len(s) + Len(t)
           /\ \A i \in 1..Len(s) : u[i] = s[i]
           /\ \A i \in 1..Len(t) : u[Len(s) + i] = t[i]
<1>1. Len(s) \in Nat /\ Len(t) \in Nat
    BY LenProperties
<1>2. /\ u \in Seq(S) /\ Len(u) = Len(s) + Len(t)
      /\ \A i \in 1..(Len(s) + Len(t)) : u[i] = IF i <= Len(s) THEN s[i] ELSE t[i - Len(s)]
    BY ConcatProperties
<1>3. \A i \in 1..Len(s) : u[i] = s[i]
    BY <1>1, <1>2
<1>4. \A i \in 1..Len(t) : u[Len(s) + i] = t[i]
    BY <1>1, <1>2
<1> QED
    BY <1>2, <1>3, <1>4

LEMMA RemoveAtFacts ==
    ASSUME NEW S, NEW s \in Seq(S), NEW k \in 1..Len(s), NEW u, u = RemoveAt(s, k)
    PROVE  /\ u \in Seq(S) /\ Len(u) = Len(s) - 1
           /\ \A i \in 1..(Len(s) - 1) : u[i] = IF i < k THEN s[i] ELSE s[i + 1]
<1> DEFINE a == SubSeq(s, 1, k - 1)
           b == SubSeq(s, k + 1, Len(s))
<1>1. Len(s) \in Nat /\ k \in Nat /\ 1 <= k /\ k <= Len(s)
    BY LenProperties
<1>2. a \in Seq(S) /\ Len(a) = k - 1 /\ \A i \in 1..(k - 1) : a[i] = s[i]
    <2>1. a \in Seq(S) /\ Len(a) = (k - 1) + 1 - 1 /\ \A i \in 1..((k - 1) + 1 - 1) : a[i] = s[i + 1 - 1]
        BY <1>1, SliceFacts
    <2> HIDE DEF a
    <2> QED
        BY <1>1, <2>1
<1>3. b \in Seq(S) /\ Len(b) = Len(s) - k /\ \A i \in 1..(Len(s) - k) : b[i] = s[k + i]
    <2>1. b \in Seq(S) /\ Len(b) = Len(s) + 1 - (k + 1) /\ \A i \in 1..(Len(s) + 1 - (k + 1)) : b[i] = s[i + (k + 1) - 1]
        BY <1>1, SliceFacts
    <2> HIDE DEF b
    <2> QED
        BY <1>1, <2>1
<1> DEFINE new == a \o b
<1>4. u = new
    BY DEF RemoveAt
<1> HIDE DEF a, b
<1>5. /\ new \in Seq(S) /\ Len(new) = Len(s) - 1
      /\ \A i \in 1..(k - 1) : new[i] = s[i]
      /\ \A i \in 1..(Len(s) - k) : new[(k - 1) + i] = s[k + i]
    <2>0. a \in Seq(S) /\ b \in Seq(S) /\ new = a \o b
        BY <1>2, <1>3
    <2> HIDE DEF new
    <2>1. /\ new \in Seq(S) /\ Len(new) = Len(a) + Len(b)
          /\ \A i \in 1..Len(a) : new[i] = a[i]
          /\ \A i \in 1..Len(b) : new[Len(a) + i] = b[i]
        BY <2>0, ConcatFacts
    <2> QED
        BY <1>1, <1>2, <1>3, <2>1
<1> HIDE DEF new
<1>6. \A i \in 1..(Len(s) - 1) : new[i] = IF i < k THEN s[i] ELSE s[i + 1]
    <2> TAKE i \in 1..(Len(s) - 1)
    <2>1. CASE i < k
        BY <1>1, <1>5, <2>1
    <2>2. CASE ~(i < k)
        <3>1. i - k + 1 \in 1..(Len(s) - k) /\ (k - 1) + (i - k + 1) = i /\ k + (i - k + 1) = i + 1
            BY <1>1, <2>2
        <3> QED
            BY <1>5, <2>2, <3>1
    <2> QED
        BY <2>1, <2>2
<1> QED
    BY <1>4, <1>5, <1>6

LEMMA InsertAtFacts ==
    ASSUME NEW S, NEW s \in Seq(S), NEW k \in 1..(Len(s) + 1), NEW e \in S, NEW u, u = InsertAt(s, k, e)
    PROVE  /\ u \in Seq(S) /\ Len(u) = Len(s) + 1
           /\ \A i \in 1..(Len(s) + 1) : u[i] = IF i < k THEN s[i] ELSE IF i = k THEN e ELSE s[i - 1]
<1> DEFINE a == SubSeq(s, 1, k - 1)
           b == SubSeq(s, k, Len(s))
           c == a \o <<e>>
<1>1. Len(s) \in Nat /\ k \in Nat /\ 1 <= k /\ k <= Len(s) + 1
    BY LenProperties
<1>2. a \in Seq(S) /\ Len(a) = k - 1 /\ \A i \in 1..(k - 1) : a[i] = s[i]
    <2>1. a \in Seq(S) /\ Len(a) = (k - 1) + 1 - 1 /\ \A i \in 1..((k - 1) + 1 - 1) : a[i] = s[i + 1 - 1]
        BY <1>1, SliceFacts
    <2> HIDE DEF a
    <2> QED
        BY <1>1, <2>1
<1>3. b \in Seq(S) /\ Len(b) = Len(s) + 1 - k /\ \A i \in 1..(Len(s) + 1 - k) : b[i] = s[i + k - 1]
    BY <1>1, SliceFacts
<1>4. u = c \o b
    BY Zenon DEF InsertAt
<1> HIDE DEF a, b
<1>5. c \in Seq(S) /\ Len(c) = k /\ c[k] = e /\ \A i \in 1..(k - 1) : c[i] = s[i]
    <2>1. <<e>> \in Seq(S) /\ Len(<<e>>) = 1 /\ <<e>>[1] = e
        OBVIOUS
    <2> DEFINE one == <<e>>
    <2>2. Len(one) = 1 /\ one[1] = e
        BY <2>1
    <2>3. a \in Seq(S) /\ one \in Seq(S) /\ c = a \o one
        BY <1>2, <2>1
    <2> HIDE DEF c, one
    <2>4. /\ c \in Seq(S) /\ Len(c) = Len(a) + Len(one) /\ \A i \in 1..Len(a) : c[i] = a[i]
          /\ \A i \in 1..Len(one) : c[Len(a) + i] = one[i]
        BY <2>3, ConcatFacts
    <2>5. Len(a) + 1 = k /\ 1 \in 1..Len(one)
        BY <1>1, <1>2, <2>2
    <2>6. c[k] = e
        BY <2>2, <2>4, <2>5
    <2> QED
        BY <1>1, <1>2, <2>2, <2>4, <2>5, <2>6
<1> DEFINE new == c \o b
<1> HIDE DEF c
<1>6. /\ new \in Seq(S) /\ Len(new) = Len(s) + 1
      /\ \A i \in 1..k : new[i] = c[i]
      /\ \A i \in 1..(Len(s) + 1 - k) : new[k + i] = s[i + k - 1]
    <2>0. c \in Seq(S) /\ b \in Seq(S) /\ new = c \o b
        BY <1>3, <1>5
    <2> HIDE DEF new
    <2>1. /\ new \in Seq(S) /\ Len(new) = Len(c) + Len(b)
          /\ \A i \in 1..Len(c) : new[i] = c[i]
          /\ \A i \in 1..Len(b) : new[Len(c) + i] = b[i]
        BY <2>0, ConcatFacts
    <2>2. Len(c) = k /\ Len(b) = Len(s) + 1 - k /\ Len(new) = Len(s) + 1
        BY <1>1, <1>3, <1>5, <2>1
    <2>3. \A i \in 1..(Len(s) + 1 - k) : new[k + i] = b[i] /\ b[i] = s[i + k - 1]
        BY <1>3, <2>1, <2>2
    <2> QED
        BY <2>1, <2>2, <2>3
<1> HIDE DEF new
<1>7. \A i \in 1..(Len(s) + 1) : new[i] = IF i < k THEN s[i] ELSE IF i = k THEN e ELSE s[i - 1]
    <2> TAKE i \in 1..(Len(s) + 1)
    <2>1. CASE i <= k
        BY <1>1, <1>5, <1>6, <2>1
    <2>2. CASE i > k
        <3>1. i - k \in 1..(Len(s) + 1 - k) /\ k + (i - k) = i /\ (i - k) + k - 1 = i - 1
            BY <1>1, <2>2
        <3>2. new[k + (i - k)] = s[(i - k) + k - 1]
            BY <1>6, <3>1
        <3>3. ~(i < k) /\ i # k
            BY <1>1, <2>2
        <3> QED
            BY <3>1, <3>2, <3>3
    <2>3. i <= k \/ i > k
        BY <1>1
    <2> QED
        BY <2>1, <2>2, <2>3
<1> QED
    BY <1>4, <1>6, <1>7 DEF new

\* A tab that is moved leaves the others in their order.
LEMMA MovedFine ==
    ASSUME NEW ts, TabsFine(ts), NEW from \in DOMAIN ts, NEW to \in DOMAIN ts
    PROVE  TabsFine(InsertAt(RemoveAt(ts, from), to, ts[from]))
<1> DEFINE r == RemoveAt(ts, from)
           new == InsertAt(r, to, ts[from])
           L == Len(ts)
<1>1. ts \in Seq(Pages) /\ IsInjective(ts)
    BY DEF TabsFine
<1>2. L \in Nat /\ DOMAIN ts = 1..L /\ from \in 1..L /\ to \in 1..L /\ ts[from] \in Pages
    BY <1>1, LenProperties
<1>3. r \in Seq(Pages) /\ Len(r) = L - 1 /\ \A i \in 1..(L - 1) : r[i] = IF i < from THEN ts[i] ELSE ts[i + 1]
    <2>1. r = RemoveAt(ts, from) /\ from \in 1..Len(ts)
        BY <1>2
    <2> HIDE DEF r
    <2>2. r \in Seq(Pages) /\ Len(r) = Len(ts) - 1
        BY <1>1, <2>1, RemoveAtFacts, SMTT(30)
    <2>3. \A i \in 1..(Len(ts) - 1) : r[i] = IF i < from THEN ts[i] ELSE ts[i + 1]
        <3> TAKE i \in 1..(Len(ts) - 1)
        <3> QED
            BY <1>1, <2>1, RemoveAtFacts, ZenonT(30)
    <2> QED
        BY <2>2, <2>3
<1> HIDE DEF r
<1>4. /\ new \in Seq(Pages) /\ Len(new) = L
      /\ \A i \in 1..L : new[i] = IF i < to THEN r[i] ELSE IF i = to THEN ts[from] ELSE r[i - 1]
    <2> DEFINE e == ts[from]
    <2>1. Len(r) + 1 = L
        BY <1>2, <1>3
    <2>2. to \in 1..(Len(r) + 1) /\ r \in Seq(Pages) /\ e \in Pages /\ new = InsertAt(r, to, e)
        BY <1>2, <1>3, <2>1
    <2> HIDE DEF new, e
    <2>3. /\ new \in Seq(Pages) /\ Len(new) = Len(r) + 1
          /\ \A i \in 1..(Len(r) + 1) : new[i] = IF i < to THEN r[i] ELSE IF i = to THEN e ELSE r[i - 1]
        BY <2>2, InsertAtFacts, SMTT(30)
    <2> QED
        BY <2>1, <2>3 DEF e
<1> HIDE DEF new
<1>5. DOMAIN new = 1..L /\ new # <<>>
    <2>1. DOMAIN new = 1..L /\ 1 \in 1..L
        BY <1>2, <1>4, LenProperties
    <2> QED
        BY <2>1
<1> HIDE DEF L
<1> DEFINE Was(i) == IF i = to THEN from
                     ELSE LET j == IF i < to THEN i ELSE i - 1 IN IF j < from THEN j ELSE j + 1
<1>6. \A i \in 1..L : Was(i) \in 1..L /\ new[i] = ts[Was(i)]
    <2> TAKE i \in 1..L
    <2>1. CASE i = to
        BY <1>2, <1>4, <2>1
    <2>2. CASE i < to
        <3>1. i \in 1..(L - 1) /\ i # to
            BY <1>2, <2>2
        <3>2. new[i] = r[i]
            BY <1>4, <2>2
        <3> QED
            BY <1>2, <1>3, <2>2, <3>1, <3>2
    <2>3. CASE i > to
        <3>1. i - 1 \in 1..(L - 1) /\ i # to /\ ~(i < to) /\ (i - 1) + 1 = i
            BY <1>2, <2>3
        <3>2. new[i] = r[i - 1]
            BY <1>4, <3>1
        <3> QED
            BY <1>2, <1>3, <3>1, <3>2
    <2> QED
        BY <1>2, <2>1, <2>2, <2>3
<1>7. \A i, j \in 1..L : Was(i) = Was(j) => i = j
    BY <1>2
<1> HIDE DEF Was
<1>8. \A i, j \in DOMAIN new : new[i] = new[j] => i = j
    BY <1>1, <1>2, <1>5, <1>6, <1>7 DEF IsInjective
<1> QED
    BY <1>4, <1>5, <1>8 DEF TabsFine, IsInjective, new, r

-----------------------------------------------------------------------------
(* The terminal. *)

LEMMA TailGrows ==
    ASSUME NEW ls, NEW printed \in Nat, IsTail(ls, printed), NEW n \in Nat
    PROVE  IsTail(ls \o [j \in 1..n |-> printed + j], printed + n)
<1> DEFINE more == [j \in 1..n |-> printed + j]
           new == ls \o more
<1>1. ls \in Seq(Nat) /\ Len(ls) \in Nat /\ \A i \in 1..Len(ls) : ls[i] = printed - Len(ls) + i
    BY LenProperties DEF IsTail
<1>2. more \in Seq(Nat) /\ Len(more) = n /\ \A j \in 1..n : more[j] = printed + j
    OBVIOUS
<1> HIDE DEF more
<1>3. /\ new \in Seq(Nat) /\ Len(new) = Len(ls) + n
      /\ \A i \in 1..Len(ls) : new[i] = ls[i]
      /\ \A i \in 1..n : new[Len(ls) + i] = more[i]
    <2>0. ls \in Seq(Nat) /\ more \in Seq(Nat) /\ new = ls \o more
        BY <1>1, <1>2
    <2> HIDE DEF new
    <2>1. /\ new \in Seq(Nat) /\ Len(new) = Len(ls) + Len(more)
          /\ \A i \in 1..Len(ls) : new[i] = ls[i]
          /\ \A i \in 1..Len(more) : new[Len(ls) + i] = more[i]
        BY <2>0, ConcatFacts
    <2> QED
        BY <1>2, <2>1
<1> HIDE DEF new
<1>4. \A i \in 1..Len(new) : new[i] = (printed + n) - Len(new) + i
    <2> TAKE i \in 1..Len(new)
    <2>1. CASE i <= Len(ls)
        <3>1. i \in 1..Len(ls)
            BY <1>1, <1>3, <2>1
        <3> QED
            BY <1>1, <1>3, <3>1
    <2>2. CASE i > Len(ls)
        <3>1. i - Len(ls) \in 1..n /\ Len(ls) + (i - Len(ls)) = i
            BY <1>1, <1>3, <2>2
        <3>2. new[i] = printed + (i - Len(ls))
            BY <1>2, <1>3, <3>1
        <3> QED
            BY <1>1, <1>3, <3>1, <3>2
    <2> QED
        BY <1>1, <1>3, <2>1, <2>2
<1> QED
    BY <1>3, <1>4 DEF IsTail, new, more

LEMMA TrimmedTail == ASSUME NEW ls, NEW printed \in Nat, IsTail(ls, printed) PROVE IsTail(Trim(ls), printed)
<1>1. ls \in Seq(Nat) /\ Len(ls) \in Nat /\ \A i \in 1..Len(ls) : ls[i] = printed - Len(ls) + i
    BY LenProperties DEF IsTail
<1>2. CASE Len(ls) > TermCap
    <2> DEFINE a == Len(ls) - TermCap + 1
               new == SubSeq(ls, a, Len(ls))
    <2>1. a \in Nat /\ 1 <= a /\ a <= Len(ls) + 1 /\ Len(ls) + 1 - a = TermCap /\ TermCap \in Nat
        BY <1>1, <1>2, DesktopAssumption
    <2>2. new \in Seq(Nat) /\ Len(new) = Len(ls) + 1 - a /\ \A i \in 1..(Len(ls) + 1 - a) : new[i] = ls[i + a - 1]
        <3> HIDE DEF a
        <3> QED
            BY <1>1, <2>1, SliceFacts
    <2>3. Trim(ls) = new
        BY <1>2 DEF Trim
    <2> HIDE DEF new
    <2>4. \A i \in 1..Len(new) : new[i] = printed - Len(new) + i
        <3> TAKE i \in 1..Len(new)
        <3>1. i + a - 1 \in 1..Len(ls) /\ new[i] = ls[i + a - 1]
            BY <1>1, <2>1, <2>2
        <3>2. ls[i + a - 1] = printed - Len(ls) + (i + a - 1)
            BY <1>1, <3>1
        <3>3. Len(new) = TermCap /\ Len(ls) + 1 - a = TermCap
            BY <2>1, <2>2
        <3>4. TermCap \in Nat /\ Len(ls) \in Nat
            BY <1>1, <2>1
        <3> HIDE DEF a, new
        <3>5. a = Len(ls) + 1 - TermCap /\ i \in Nat
            BY <2>1, <3>3, <3>4
        <3> QED
            BY <3>1, <3>2, <3>3, <3>4, <3>5
    <2> QED
        BY <2>2, <2>3, <2>4 DEF IsTail
<1>3. CASE ~(Len(ls) > TermCap)
    BY <1>3 DEF Trim
<1> QED
    BY <1>2, <1>3

LEMMA SaidFine == ASSUME NEW t, TermFine(t), NEW n \in Nat PROVE TermFine(Said(t, n))
<1> DEFINE ls == Trim(t.lines \o [j \in 1..n |-> t.printed + j])
           p == t.printed + n
<1>1. t \in TermType /\ t.printed \in Nat /\ IsTail(t.lines, t.printed)
    BY DEF TermFine, TermType
<1>2. p \in Nat /\ IsTail(ls, p)
    BY <1>1, TailGrows, TrimmedTail
<1>3. Said(t, n) = [t EXCEPT !.lines = ls, !.printed = p]
    BY DEF Said
<1> HIDE DEF ls, p
<1>4. ls \in Seq(Nat)
    BY <1>2 DEF IsTail
<1> QED
    BY <1>1, <1>2, <1>3, <1>4 DEF TermFine, TermType

LEMMA DrainFine == ASSUME NEW t, TermFine(t) PROVE TermFine(Drain(t))
<1> DEFINE ls == t.lines \o [j \in 1..t.inbox |-> t.printed + j]
           p == t.printed + t.inbox
<1>1. t \in TermType /\ t.printed \in Nat /\ t.inbox \in Nat /\ IsTail(t.lines, t.printed)
    BY DEF TermFine, TermType
<1>2. p \in Nat /\ IsTail(ls, p)
    BY <1>1, TailGrows
<1>3. Drain(t) = [t EXCEPT !.lines = ls, !.printed = p, !.inbox = 0]
    BY DEF Drain
<1> HIDE DEF ls, p
<1>4. ls \in Seq(Nat)
    BY <1>2 DEF IsTail
<1> DEFINE new == [t EXCEPT !.lines = ls, !.printed = p, !.inbox = 0]
<1>5. new \in TermType /\ new.lines = ls /\ new.printed = p
    BY <1>1, <1>2, <1>4 DEF TermType
<1> HIDE DEF new
<1> QED
    BY <1>2, <1>3, <1>5 DEF TermFine, new

LEMMA ClearedFine == ASSUME NEW p \in Nat PROVE <<>> \in Seq(Nat) /\ IsTail(<<>>, p)
BY DEF IsTail

-----------------------------------------------------------------------------
(* The store and what is shown of it. *)

\* What a step that only looks leaves: the snapshot and the store as they are.
LEMMA LooksOK == ASSUME StoresOK, Looks PROVE StoresOK'
BY DEF StoresOK, Looks

\* After a write of the client the snapshot is the store.
LEMMA RefreshedOK == ASSUME NEW d, StoreOK(d), Refreshed(d) PROVE StoresOK'
BY DEF StoresOK, Refreshed

\* A worker or the gateway writes: the client is behind.
LEMMA WrittenOK ==
    ASSUME StoresOK, NEW d, StoreOK(d), db' = d, behind' = (behind \/ d # db) \/ behind' = TRUE, UNCHANGED data
    PROVE  StoresOK'
<1>1. StoreOK(db') /\ StoreOK(data')
    BY DEF StoresOK
<1>2. behind' \in BOOLEAN /\ (data' # db' => behind')
    BY DEF StoresOK
<1> QED
    BY <1>1, <1>2 DEF StoresOK, StoreOK

LEMMA RowSaved ==
    ASSUME NEW d, StoreOK(d), NEW i \in Ids, NEW row \in RowType \cup {Gone}
    PROVE  StoreOK([d EXCEPT !.rows[i] = row])
<1> DEFINE e == [d EXCEPT !.rows = [d.rows EXCEPT ![i] = row]]
<1>1. d \in StoreType /\ Len(d.certs) <= MaxCerts /\ [d.rows EXCEPT ![i] = row] \in [Ids -> RowType \cup {Gone}]
    BY DEF StoreOK, StoreType
<1>2. e \in StoreType /\ e.certs = d.certs
    BY <1>1 DEF StoreType
<1> QED
    BY <1>1, <1>2 DEF StoreOK

LEMMA TriageSaved ==
    ASSUME NEW d, StoreOK(d), NEW k \in Keys, NEW st \in Triages
    PROVE  StoreOK([d EXCEPT !.triage[k] = st]) /\ StoreOK([d EXCEPT !.triage[k] = st, !.scans = 1])
<1> DEFINE f == [d.triage EXCEPT ![k] = st]
           e == [d EXCEPT !.triage = f]
           g == [d EXCEPT !.triage = f, !.scans = 1]
<1>1. d \in StoreType /\ Len(d.certs) <= MaxCerts /\ f \in [Keys -> Triages]
    BY DEF StoreOK, StoreType
<1>2. e \in StoreType /\ e.certs = d.certs /\ g \in StoreType /\ g.certs = d.certs
    BY <1>1 DEF StoreType
<1>3. [d EXCEPT !.triage[k] = st] = e /\ [d EXCEPT !.triage[k] = st, !.scans = 1] = g
    OBVIOUS
<1> HIDE DEF e, g
<1> QED
    BY <1>1, <1>2, <1>3 DEF StoreOK

LEMMA ConnSaved ==
    ASSUME NEW d, StoreOK(d), NEW c \in Conns, NEW row \in ConnType \cup {Gone}
    PROVE  StoreOK([d EXCEPT !.conns[c] = row]) /\ StoreOK([d EXCEPT !.postures = 1, !.conns[c] = row])
<1> DEFINE f == [d.conns EXCEPT ![c] = row]
           e == [d EXCEPT !.conns = f]
           g == [d EXCEPT !.postures = 1, !.conns = f]
<1>1. d \in StoreType /\ Len(d.certs) <= MaxCerts /\ f \in [Conns -> ConnType \cup {Gone}]
    BY DEF StoreOK, StoreType
<1>2. e \in StoreType /\ e.certs = d.certs /\ g \in StoreType /\ g.certs = d.certs
    BY <1>1 DEF StoreType
<1>3. [d EXCEPT !.conns[c] = row] = e /\ [d EXCEPT !.postures = 1, !.conns[c] = row] = g
    BY <1>1 DEF StoreType
<1> HIDE DEF e, g
<1> QED
    BY <1>1, <1>2, <1>3 DEF StoreOK

LEMMA CertsSaved ==
    ASSUME NEW d, StoreOK(d), NEW cs \in Seq(CertStates), Len(cs) <= MaxCerts
    PROVE  StoreOK([d EXCEPT !.certs = cs])
<1> DEFINE e == [d EXCEPT !.certs = cs]
<1>1. e \in StoreType /\ e.certs = cs
    BY DEF StoreOK, StoreType
<1> HIDE DEF e
<1>2. StoreOK(e)
    BY <1>1 DEF StoreOK
<1> QED
    BY <1>2 DEF e

LEMMA CountsSaved ==
    ASSUME NEW d, StoreOK(d)
    PROVE  /\ StoreOK([d EXCEPT !.postures = 1]) /\ StoreOK([d EXCEPT !.tickets = 1])
           /\ \A o \in Others : StoreOK([d EXCEPT !.others = {o}])
BY DEF StoreOK, StoreType

LEMMA CertRevoked ==
    ASSUME NEW d, StoreOK(d), NEW n
    PROVE  StoreOK([d EXCEPT !.certs[n] = "revoked"])
<1> DEFINE cs == [d.certs EXCEPT ![n] = "revoked"]
<1>1. d.certs \in Seq(CertStates) /\ Len(d.certs) <= MaxCerts /\ Len(d.certs) \in Nat
    BY LenProperties DEF StoreOK, StoreType
<1>2. cs \in Seq(CertStates) /\ Len(cs) = Len(d.certs)
    <2>1. CASE n \in 1..Len(d.certs)
        BY <1>1, <2>1, ExceptSeq DEF CertStates
    <2>2. CASE n \notin 1..Len(d.certs)
        <3>1. DOMAIN d.certs = 1..Len(d.certs) /\ d.certs \in [1..Len(d.certs) -> CertStates]
            BY <1>1, LenProperties
        <3>2. cs = d.certs
            BY <2>2, <3>1
        <3> QED
            BY <1>1, <3>2
    <2> QED
        BY <2>1, <2>2
<1>3. [d EXCEPT !.certs[n] = "revoked"] = [d EXCEPT !.certs = cs]
    BY DEF StoreOK, StoreType
<1> HIDE DEF cs
<1> QED
    BY <1>1, <1>2, <1>3, CertsSaved

LEMMA CertIssued ==
    ASSUME NEW d, StoreOK(d), Len(d.certs) < MaxCerts
    PROVE  StoreOK([d EXCEPT !.certs = Append(@, "active")]) /\ Len(d.certs) + 1 \in 0..MaxCerts
<1> DEFINE cs == Append(d.certs, "active")
<1>1. d.certs \in Seq(CertStates) /\ Len(d.certs) \in Nat /\ "active" \in CertStates
    BY LenProperties DEF StoreOK, StoreType, CertStates
<1>2. cs \in Seq(CertStates) /\ Len(cs) = Len(d.certs) + 1
    BY <1>1, AppendProperties
<1>3. [d EXCEPT !.certs = Append(@, "active")] = [d EXCEPT !.certs = cs]
    OBVIOUS
<1>4. Len(cs) <= MaxCerts /\ Len(d.certs) + 1 \in 0..MaxCerts
    BY <1>1, <1>2, DesktopAssumption
<1> HIDE DEF cs
<1> QED
    BY <1>2, <1>3, <1>4, CertsSaved

-----------------------------------------------------------------------------
(* Clicks. *)

LEMMA RestFacts ==
    ASSUME NEW changed, RestOf(changed)
    PROVE  /\ "scan" \notin changed => UNCHANGED scan
           /\ "net" \notin changed => UNCHANGED net
           /\ "probe" \notin changed => UNCHANGED probe
           /\ "graph" \notin changed => UNCHANGED graph
           /\ "key" \notin changed => UNCHANGED key
           /\ "page" \notin changed => UNCHANGED page
           /\ "term" \notin changed => UNCHANGED term
           /\ "tabs" \notin changed => tabs' = WithTab(page, tabs)
           /\ "selected" \notin changed => selected' = Panel
BY DEF RestOf, Keeps

\* What the records of a snapshot look like.
LEMMA RecordIsPair == ASSUME NEW d, NEW r \in Records(d) PROVE Len(r) = 2
BY DEF Records

\* A click keeps the invariant if what it changes does.
LEMMA ClickKeeps ==
    ASSUME DesktopInv, NEW group, Click(group), NEW changed, RestOf(changed), StoresOK',
           "scan" \in changed => ScanOK', "net" \in changed => NetOK', "probe" \in changed => ProbeOK',
           "graph" \in changed => GraphOK', "key" \in changed => key' \in 0..MaxCerts,
           "page" \in changed => page' \in Pages, "tabs" \in changed => TabsFine(tabs'),
           "term" \in changed => TermOK', "selected" \in changed => SelectedOK'
    PROVE  DesktopInv'
<1>1. phase' = "poll" /\ events' = events + 1 /\ events \in Nat
    BY DEF Click, DesktopInv
<1>2. ScanOK' /\ ProbeOK' /\ GraphOK' /\ TermOK'
    BY RestFacts DEF DesktopInv, ScanOK, ProbeOK, GraphOK, TermOK
<1>3. NetOK'
    BY RestFacts DEF DesktopInv, NetOK
<1>4. key' \in 0..MaxCerts
    BY RestFacts DEF DesktopInv
<1>5. TabsOK'
    <2>1. page \in Pages /\ TabsFine(tabs) /\ TabsFine(WithTab(page, tabs))
        BY WithTabFine DEF DesktopInv, TabsOK
    <2>2. page' \in Pages
        BY <2>1, RestFacts
    <2>3. TabsFine(tabs')
        BY <2>1, RestFacts
    <2> QED
        BY <2>2, <2>3 DEF TabsOK, TabsFine
<1>6. SelectedOK'
    <2>1. Panel = <<>> \/ Len(Panel) = 2
        BY RecordIsPair DEF Panel
    <2>2. CASE "selected" \in changed
        BY <2>2
    <2>3. CASE "selected" \notin changed
        <3>1. selected' = Panel
            BY <2>3, RestFacts
        <3> QED
            BY <2>1, <3>1 DEF SelectedOK
    <2> QED
        BY <2>2, <2>3
<1> QED
    BY <1>1, <1>2, <1>3, <1>4, <1>5, <1>6 DEF DesktopInv

\* A row of any table is selected.
LEMMA SelectKeeps == ASSUME DesktopInv, NEW group, NEW kinds, Select(group, kinds) PROVE DesktopInv'
<1>1. Click(group) /\ Looks /\ RestOf({"selected"}) /\ \E r \in Records(data) : selected' = r
    BY DEF Select
<1>2. StoresOK' /\ SelectedOK'
    BY <1>1, LooksOK, RecordIsPair DEF DesktopInv, SelectedOK
<1> QED
    BY <1>1, <1>2, ClickKeeps

LEMMA ClosePanelKeeps == ASSUME DesktopInv, ClosePanel PROVE DesktopInv'
<1>1. Click("rows") /\ Looks /\ RestOf({"selected"}) /\ selected' = <<>>
    BY DEF ClosePanel
<1>2. StoresOK' /\ SelectedOK'
    BY <1>1, LooksOK DEF DesktopInv, SelectedOK
<1> QED
    BY <1>1, <1>2, ClickKeeps

\* A click that writes the store, and nothing else.
LEMMA SaveKeeps == ASSUME DesktopInv, NEW group, Click(group), NEW d, StoreOK(d), Refreshed(d), RestOf({}) PROVE DesktopInv'
BY RefreshedOK, ClickKeeps

LEMMA RefreshKeeps == ASSUME DesktopInv, Refresh PROVE DesktopInv'
BY SaveKeeps DEF Refresh, DesktopInv, StoresOK

LEMMA SaveRowOK ==
    ASSUME DesktopInv, NEW i \in Ids, NEW row \in RowType \cup {Gone}, SaveRow(i, row)
    PROVE  StoresOK'
<1>1. StoreOK([db EXCEPT !.rows[i] = row])
    BY RowSaved DEF DesktopInv, StoresOK
<1> QED
    BY <1>1, RefreshedOK DEF SaveRow

\* Add, toggle and delete of a host or an asset, in the table or in its panel.
LEMMA RowKeeps ==
    ASSUME DesktopInv, NEW i \in Ids, NEW row \in RowType \cup {Gone}, Click("rows"), SaveRow(i, row),
           RestOf({}) \/ (RestOf({"selected"}) /\ selected' = <<>>)
    PROVE  DesktopInv'
<1>1. StoresOK'
    BY SaveRowOK
<1>2. CASE RestOf({})
    BY <1>1, <1>2, ClickKeeps
<1>3. CASE RestOf({"selected"}) /\ selected' = <<>>
    <2>1. SelectedOK'
        BY <1>3 DEF SelectedOK
    <2> QED
        BY <1>1, <1>3, <2>1, ClickKeeps
<1> QED
    BY <1>2, <1>3

LEMMA NewRow == ASSUME NEW air \in BOOLEAN PROVE [air |-> air, status |-> "unknown"] \in RowType \cup {Gone}
BY DEF RowType, Statuses

LEMMA ToggledRow == ASSUME NEW row \in RowType \cup {Gone}, row # Gone PROVE Toggled(row) \in RowType \cup {Gone}
BY DEF Toggled, RowType

LEMMA AddKeeps ==
    ASSUME DesktopInv, NEW i \in Ids, NEW air \in BOOLEAN, AddTarget(i, air) \/ AddAsset(i, air)
    PROVE  DesktopInv'
BY NewRow, RowKeeps DEF AddTarget, AddAsset

LEMMA ToggleKeeps ==
    ASSUME DesktopInv, NEW i \in Ids, ToggleTargetAirgap(i) \/ ToggleAssetAirgap(i)
    PROVE  DesktopInv'
<1>1. data.rows[i] # Gone /\ Click("rows") /\ SaveRow(i, Toggled(data.rows[i])) /\ RestOf({})
    BY DEF ToggleTargetAirgap, ToggleAssetAirgap
<1>2. data.rows[i] \in RowType \cup {Gone}
    BY DEF DesktopInv, StoresOK, StoreOK, StoreType
<1> QED
    BY <1>1, <1>2, ToggledRow, RowKeeps

LEMMA DeleteKeeps == ASSUME DesktopInv, NEW i \in Ids, DeleteRow(i) PROVE DesktopInv'
BY RowKeeps DEF DeleteRow

LEMMA BodyKeeps == ASSUME DesktopInv, NEW i \in Ids, HostBody(i) \/ AssetBody(i) PROVE DesktopInv'
<1>1. \/ ToggleTargetAirgap(i) \/ ToggleAssetAirgap(i)
      \/ Click("rows") /\ SaveRow(i, Gone) /\ RestOf({"selected"}) /\ selected' = <<>>
    BY DEF HostBody, AssetBody
<1>2. Gone \in RowType \cup {Gone}
    OBVIOUS
<1> QED
    BY <1>1, <1>2, ToggleKeeps, RowKeeps

\* A probe: its target shows as being probed, an earlier receiver is dropped.
LEMMA StartProbeKeeps == ASSUME DesktopInv, NEW i \in Ids, StartProbe(i) PROVE DesktopInv'
<1> DEFINE new == [results |-> [probe.results EXCEPT ![i] = "probing"], rx |-> events', latest |-> i, inbox |-> {},
                   jobs |-> probe.jobs \cup {[id |-> i, chan |-> events']}]
<1>1. Click("probes") /\ Looks /\ RestOf({"probe"}) /\ probe' = new
    BY DEF StartProbe
<1>2. events' \in Nat
    BY <1>1 DEF Click, DesktopInv
<1>3. /\ probe.results \in [Ids -> {"none", "probing", "reachable", "unreachable"}]
      /\ probe.jobs \in SUBSET [id : Ids, chan : Nat]
    BY DEF DesktopInv, ProbeOK
<1>4. ProbeOK'
    BY <1>1, <1>2, <1>3 DEF ProbeOK
<1>5. StoresOK'
    BY <1>1, LooksOK DEF DesktopInv
<1> QED
    BY <1>1, <1>4, <1>5, ClickKeeps

LEMMA RowViewsKeep == ASSUME DesktopInv, NEW i \in Ids, EstateView(i) \/ AssetsView(i) PROVE DesktopInv'
<1>1. \/ \E air \in BOOLEAN : AddTarget(i, air) \/ AddAsset(i, air)
      \/ ToggleTargetAirgap(i) \/ ToggleAssetAirgap(i) \/ StartProbe(i) \/ DeleteRow(i) \/ Select("rows", {"row"})
    BY DEF EstateView, AssetsView
<1> QED
    BY <1>1, AddKeeps, ToggleKeeps, StartProbeKeeps, DeleteKeeps, SelectKeeps

LEMMA ListsKeep ==
    ASSUME DesktopInv, EndpointsView \/ SessionsView \/ AlertsView \/ ScansView \/ RemediationsView \/ FindingsView
    PROVE  DesktopInv'
BY SelectKeeps DEF EndpointsView, SessionsView, AlertsView, ScansView, RemediationsView, FindingsView

-----------------------------------------------------------------------------
(* The scan, the graph, findings and certificates. *)

LEMMA StartedOK == ASSUME ScanOK PROVE Started(scan) \in [busy : BOOLEAN, at : {"none", "scanning", "sent"}, recorded : BOOLEAN]
BY DEF ScanOK, Started

\* A synced graph was built with the overrides it has; ticking one forces the next sync.
LEMMA SyncedFine == ASSUME NEW g, GraphFine(g), NEW d PROVE GraphFine(Synced(g, d)) /\ GraphFine(SetOverride(g))
<1>1. GraphFine(Synced(g, d))
    <2>1. CASE g.sig = Signature(d) /\ Signature(d) # <<0, 0, 0>>
        BY <2>1 DEF Synced
    <2>2. CASE ~(g.sig = Signature(d) /\ Signature(d) # <<0, 0, 0>>)
        <3> DEFINE new == [sig |-> Signature(d), of |-> Inputs(d), over |-> g.over, built |-> g.over]
        <3>1. Synced(g, d) = new
            BY <2>2 DEF Synced
        <3>2. GraphFine(new)
            BY DEF GraphFine
        <3> QED
            BY <3>1, <3>2
    <2> QED
        BY <2>1, <2>2
<1>2. GraphFine(SetOverride(g))
    <2> DEFINE o == ~g.over
               new == [g EXCEPT !.over = o, !.sig = Forced]
    <2>1. SetOverride(g) = new
        BY DEF SetOverride
    <2> HIDE DEF o
    <2>2. DOMAIN new = DOMAIN g /\ new.sig = Forced
        BY DEF GraphFine
    <2> HIDE DEF new
    <2>3. GraphFine(new)
        BY <2>2 DEF GraphFine
    <2> QED
        BY <2>1, <2>3
<1> QED
    BY <1>1, <1>2

LEMMA ExportKeeps == ASSUME DesktopInv, ExportBoardReport PROVE DesktopInv'
<1>1. Click("findings") /\ Looks /\ graph' = Synced(graph, data) /\ RestOf({"graph"})
    BY DEF ExportBoardReport
<1>2. GraphOK' /\ StoresOK'
    BY <1>1, SyncedFine, LooksOK DEF DesktopInv, GraphOK
<1> QED
    BY <1>1, <1>2, ClickKeeps

LEMMA OverviewKeeps == ASSUME DesktopInv, OverviewView PROVE DesktopInv'
<1>1. CASE Click("findings") /\ scan' = Started(scan) /\ Looks /\ RestOf({"scan"})
    <2>1. ScanOK' /\ StoresOK'
        BY <1>1, StartedOK, LooksOK DEF DesktopInv, ScanOK
    <2> QED
        BY <1>1, <2>1, ClickKeeps
<1> QED
    BY <1>1, ExportKeeps DEF OverviewView

LEMMA AttackPathsKeep == ASSUME DesktopInv, AttackPathsView PROVE DesktopInv'
<1>1. Click("findings") /\ Looks /\ RestOf({"graph", "selected"})
    BY DEF AttackPathsView
<1>2. \/ graph' = SetOverride(Synced(graph, data)) /\ selected' = Panel
      \/ graph' = Synced(graph, data) /\ \E r \in Records(data) : selected' = r
    BY DEF AttackPathsView
<1>3. GraphFine(Synced(graph, data)) /\ GraphFine(SetOverride(Synced(graph, data)))
    BY SyncedFine DEF DesktopInv, GraphOK
<1>4. GraphOK' /\ StoresOK'
    BY <1>1, <1>2, <1>3, LooksOK DEF DesktopInv, GraphOK
<1>5. SelectedOK'
    BY <1>2, RecordIsPair DEF SelectedOK, Panel
<1> QED
    BY <1>1, <1>4, <1>5, ClickKeeps

LEMMA SetStatusKeeps ==
    ASSUME DesktopInv, NEW k \in Keys, NEW st \in {"open", "acknowledged", "suppressed"}, SetStatus(k, st)
    PROVE  DesktopInv'
<1> DEFINE s == IF db.triage[k] = "none" THEN "none" ELSE st
<1>1. Click("findings") /\ Refreshed([db EXCEPT !.triage[k] = s]) /\ RestOf({})
    BY DEF SetStatus
<1>2. s \in Triages
    BY DEF Triages
<1> HIDE DEF s
<1>3. StoreOK([db EXCEPT !.triage[k] = s])
    BY <1>2, TriageSaved DEF DesktopInv, StoresOK
<1> QED
    BY <1>1, <1>3, SaveKeeps

LEMMA IssuedKeeps ==
    ASSUME DesktopInv, Click("certs"), Len(db.certs) < MaxCerts, Refreshed([db EXCEPT !.certs = Append(@, "active")]),
           key' = Len(db.certs) + 1, RestOf({"key"})
    PROVE  DesktopInv'
<1>1. StoreOK([db EXCEPT !.certs = Append(@, "active")]) /\ key' \in 0..MaxCerts
    BY CertIssued DEF DesktopInv, StoresOK
<1>2. StoresOK'
    BY <1>1, RefreshedOK
<1> QED
    BY <1>1, <1>2, ClickKeeps

LEMMA CertificatesKeep == ASSUME DesktopInv, CertificatesView PROVE DesktopInv'
<1>1. CASE IssueCert
    BY <1>1, IssuedKeeps DEF IssueCert
<1>2. CASE \E n \in DOMAIN data.certs : RenewCert(n)
    BY <1>2, IssuedKeeps DEF RenewCert
<1>3. CASE \E n \in DOMAIN data.certs : RevokeCert(n)
    <2>1. PICK n : Click("certs") /\ Refreshed([db EXCEPT !.certs[n] = "revoked"]) /\ RestOf({})
        BY <1>3 DEF RevokeCert
    <2>2. StoreOK([db EXCEPT !.certs[n] = "revoked"])
        BY CertRevoked DEF DesktopInv, StoresOK
    <2> QED
        BY <2>1, <2>2, SaveKeeps
<1>4. CASE DismissKey
    <2>1. Click("certs") /\ Looks /\ RestOf({"key"}) /\ key' \in 0..MaxCerts
        BY <1>4, DesktopAssumption DEF DismissKey
    <2>2. StoresOK'
        BY <2>1, LooksOK DEF DesktopInv
    <2> QED
        BY <2>1, <2>2, ClickKeeps
<1> QED
    BY <1>1, <1>2, <1>3, <1>4, SelectKeeps DEF CertificatesView

-----------------------------------------------------------------------------
(* The network operation. *)

LEMMA ToggleOnlineKeeps == ASSUME DesktopInv, NEW group, ToggleOnline(group) PROVE DesktopInv'
<1>1. Click(group) /\ Looks /\ RestOf({"online"})
    BY DEF ToggleOnline
<1>2. StoresOK'
    BY <1>1, LooksOK DEF DesktopInv
<1> QED
    BY <1>1, <1>2, ClickKeeps

\* Nothing is spawned while an operation runs, so the new one is alone.
LEMMA SpawnKeeps ==
    ASSUME DesktopInv, NEW op \in {"test", "scan", "ticket"}, NEW c \in Conns, NEW k \in Keys \cup {"none"}, SpawnNetOp(op, c, k)
    PROVE  DesktopInv'
<1> DEFINE j == [op |-> op, conn |-> c, key |-> k, chan |-> net.next, at |-> "begin", row |-> Gone]
           new == [busy |-> TRUE, rx |-> net.next, next |-> net.next + 1, inbox |-> {}, jobs |-> {j}]
<1>1. Click("net") /\ Looks /\ RestOf({"net"}) /\ ~net.busy
    BY DEF SpawnNetOp, MaySpawn
<1>2. net.jobs = {} /\ net.next \in Nat
    BY <1>1 DEF DesktopInv, NetOK, NetType
<1>3. net' = new
    BY <1>2 DEF SpawnNetOp
<1>4. j \in JobType /\ j.chan = net.next /\ j.at = "begin"
    BY <1>2 DEF JobType
<1> HIDE DEF j
<1>5. NetOK'
    <2>1. new \in NetType /\ new.jobs = {j} /\ new.inbox = {} /\ new.busy /\ new.rx = net.next
        BY <1>2, <1>4 DEF NetType
    <2> HIDE DEF new
    <2> QED
        BY <1>3, <1>4, <2>1 DEF NetOK
<1>6. StoresOK'
    BY <1>1, LooksOK DEF DesktopInv
<1> QED
    BY <1>1, <1>5, <1>6, ClickKeeps

LEMMA ConnectionsKeep == ASSUME DesktopInv, ConnectionsView PROVE DesktopInv'
<1>1. \/ Select("net", {"conn"})
      \/ \E c \in Conns : SpawnNetOp("test", c, "none") \/ SpawnNetOp("scan", c, "none")
    BY DEF ConnectionsView
<1> QED
    BY <1>1, SelectKeeps, SpawnKeeps

LEMMA FindingBodyKeeps == ASSUME DesktopInv, NEW k \in Keys, FindingBody(k) PROVE DesktopInv'
<1>1. \/ \E st \in {"open", "acknowledged", "suppressed"} : SetStatus(k, st)
      \/ \E c \in Conns : SpawnNetOp("ticket", c, k)
    BY DEF FindingBody, OpenTicket
<1> QED
    BY <1>1, SetStatusKeeps, SpawnKeeps

-----------------------------------------------------------------------------
(* The shell. *)

LEMMA ShellKeeps ==
    ASSUME DesktopInv, NEW p \in Pages, NEW ts, TabsFine(ts), Shell(p, ts), Looks, RestOf({"page", "tabs"})
    PROVE  DesktopInv'
<1>1. Click("shell") /\ page' = p /\ tabs' = ts
    BY DEF Shell
<1>2. StoresOK'
    BY LooksOK DEF DesktopInv
<1> QED
    BY <1>1, <1>2, ClickKeeps

LEMMA NavigateKeeps == ASSUME DesktopInv, NEW p \in Pages, Navigate(p) PROVE DesktopInv'
BY WithTabFine, ShellKeeps DEF Navigate, DesktopInv, TabsOK

LEMMA MoveTabKeeps == ASSUME DesktopInv, NEW from, NEW to, MoveTab(from, to) PROVE DesktopInv'
<1> DEFINE ts == WithTab(page, tabs)
<1>1. /\ from \in DOMAIN ts /\ to \in DOMAIN ts
      /\ Shell(page, InsertAt(RemoveAt(ts, from), to, ts[from])) /\ Looks /\ RestOf({"page", "tabs"})
    BY DEF MoveTab
<1>2. page \in Pages /\ TabsFine(ts)
    BY WithTabFine DEF DesktopInv, TabsOK
<1> HIDE DEF ts
<1>3. TabsFine(InsertAt(RemoveAt(ts, from), to, ts[from]))
    BY <1>1, <1>2, MovedFine
<1> QED
    BY <1>1, <1>2, <1>3, ShellKeeps

LEMMA TabStripKeeps == ASSUME DesktopInv, TabStrip PROVE DesktopInv'
<1> DEFINE ts == WithTab(page, tabs)
<1>1. Looks /\ RestOf({"page", "tabs"})
    BY DEF TabStrip
<1>2. PICK i \in DOMAIN ts :
         \/ Shell(ts[i], ts)
         \/ Shell(CloseTab(ts[i], ts).page, CloseTab(ts[i], ts).tabs)
         \/ Shell(IF Contains(SubSeq(ts, 1, i), page) THEN page ELSE Last(SubSeq(ts, 1, i)), SubSeq(ts, 1, i))
         \/ Shell(ts[i], <<ts[i]>>)
         \/ Shell("Overview", <<"Overview">>)
    BY DEF TabStrip
<1>3. page \in Pages /\ TabsFine(ts)
    BY WithTabFine DEF DesktopInv, TabsOK
<1> HIDE DEF ts
<1>4. ts[i] \in Pages /\ TabsFine(<<ts[i]>>)
    <2>1. ts[i] \in Pages
        BY <1>3, LenProperties DEF TabsFine
    <2> QED
        BY <2>1, OneTab
<1>5. TabsFine(CloseTab(ts[i], ts).tabs) /\ CloseTab(ts[i], ts).page \in Pages
    BY <1>3, CloseTabFine
<1>6. TabsFine(SubSeq(ts, 1, i)) /\ Last(SubSeq(ts, 1, i)) \in Pages
    BY <1>3, PrefixFine
<1>7. "Overview" \in Pages /\ TabsFine(<<"Overview">>)
    BY OneTab, DesktopAssumption
<1> QED
    BY <1>1, <1>2, <1>3, <1>4, <1>5, <1>6, <1>7, ShellKeeps

\* A command prints its lines, trims the terminal and has its effect.
LEMMA RunTerminalKeeps == ASSUME DesktopInv, RunTerminal PROVE DesktopInv'
<1>1. Click("shell")
    BY DEF RunTerminal
<1>2. TermFine(term) /\ StoresOK /\ ScanOK /\ GraphFine(graph) /\ StoreOK(db)
    BY DEF DesktopInv, TermOK, GraphOK, StoresOK
<1>3. TermFine(Said(term, 2)) /\ TermFine(Said(term, 3))
    BY <1>2, SaidFine
<1>4. CASE term' = [term EXCEPT !.lines = <<>>, !.printed = @ + 1] /\ Looks /\ RestOf({"term"})
    <2>1. term \in TermType /\ term.printed + 1 \in Nat
        BY <1>2 DEF TermFine, TermType
    <2> DEFINE none == <<>>
               new == [term EXCEPT !.lines = none, !.printed = term.printed + 1]
    <2>2. term' = new /\ none \in Seq(Nat)
        BY <1>4
    <2> HIDE DEF none
    <2>3. new \in TermType /\ new.lines = none /\ new.printed = term.printed + 1
        BY <2>1, <2>2 DEF TermType
    <2> HIDE DEF new
    <2>4. TermFine(new)
        BY <2>1, <2>3, ClearedFine DEF TermFine, none
    <2>5. TermOK'
        BY <2>2, <2>4 DEF TermOK
    <2> QED
        BY <1>1, <1>2, <1>4, <2>5, LooksOK, ClickKeeps
<1>5. CASE \E n \in 2..3 : term' = Said(term, n) /\ Looks /\ RestOf({"term"})
    <2>1. TermOK'
        BY <1>3, <1>5 DEF TermOK
    <2> QED
        BY <1>1, <1>2, <1>5, <2>1, LooksOK, ClickKeeps
<1>6. CASE term' = Said(term, 2) /\ scan' = Started(scan) /\ Looks /\ RestOf({"term", "scan"})
    <2>1. TermOK' /\ ScanOK' /\ StoresOK'
        BY <1>2, <1>3, <1>6, StartedOK, LooksOK DEF TermOK, ScanOK
    <2> QED
        BY <1>1, <1>6, <2>1, ClickKeeps
<1>7. CASE term' = Said(term, 2) /\ graph' = Synced(graph, data) /\ Looks /\ RestOf({"term", "graph"})
    <2>1. TermOK' /\ GraphOK' /\ StoresOK'
        BY <1>2, <1>3, <1>7, SyncedFine, LooksOK DEF TermOK, GraphOK
    <2> QED
        BY <1>1, <1>7, <2>1, ClickKeeps
<1>8. CASE term' = Said(term, 2) /\ page' \in Pages /\ Looks /\ RestOf({"term", "page"})
    <2>1. TermOK' /\ StoresOK'
        BY <1>2, <1>3, <1>8, LooksOK DEF TermOK
    <2> QED
        BY <1>1, <1>8, <2>1, ClickKeeps
<1>9. CASE term' = Said(term, 2) /\ Refreshed(db) /\ RestOf({"term"})
    <2>1. TermOK' /\ StoresOK'
        BY <1>2, <1>3, <1>9, RefreshedOK DEF TermOK
    <2> QED
        BY <1>1, <1>9, <2>1, ClickKeeps
<1>10. CASE /\ term' = [Said(term, 2) EXCEPT !.captures = IF online THEN @ + 1 ELSE @]
            /\ Looks /\ RestOf({"term"})
    <2> DEFINE t == Said(term, 2)
               c == IF online THEN t.captures + 1 ELSE t.captures
    <2>1. t \in TermType /\ IsTail(t.lines, t.printed)
        BY <1>3 DEF TermFine
    <2>2. term' = [t EXCEPT !.captures = c]
        BY <1>10
    <2>3. c \in Nat
        BY <2>1 DEF TermType
    <2> HIDE DEF t, c
    <2>4. term' \in TermType /\ term'.lines = t.lines /\ term'.printed = t.printed
        BY <2>1, <2>2, <2>3 DEF TermType
    <2>5. TermOK'
        BY <2>1, <2>4 DEF TermOK, TermFine
    <2> QED
        BY <1>1, <1>2, <1>10, <2>5, LooksOK, ClickKeeps
<1> QED
    BY <1>4, <1>5, <1>6, <1>7, <1>8, <1>9, <1>10 DEF RunTerminal

LEMMA TerminalBodyKeeps == ASSUME DesktopInv, TerminalBody PROVE DesktopInv'
<1>1. Click("shell") /\ Looks /\ RestOf({"term"})
    BY DEF TerminalBody
<1>2. term \in TermType /\ IsTail(term.lines, term.printed) /\ term.printed \in Nat
    BY DEF DesktopInv, TermOK, TermFine, TermType
<1> DEFINE none == <<>>
           a == [term EXCEPT !.open = ~term.open]
           b == [term EXCEPT !.float = ~term.float]
           c == [term EXCEPT !.lines = none]
<1>3. term' = a \/ term' = b \/ term' = c
    BY DEF TerminalBody
<1>4. none \in Seq(Nat) /\ IsTail(none, term.printed)
    BY <1>2, ClearedFine
<1> HIDE DEF none
<1>5. TermFine(a) /\ TermFine(b) /\ TermFine(c)
    BY <1>2, <1>4 DEF TermFine, TermType
<1>6. TermOK' /\ StoresOK'
    BY <1>1, <1>3, <1>5, LooksOK DEF DesktopInv, TermOK
<1> QED
    BY <1>1, <1>6, ClickKeeps

\* Whatever the user clicks.
LEMMA ViewsKeep == ASSUME DesktopInv, Views PROVE DesktopInv'
BY RowViewsKeep, BodyKeeps, ListsKeep, ClosePanelKeeps, RefreshKeeps, OverviewKeeps, AttackPathsKeep, FindingBodyKeeps,
   CertificatesKeep, ConnectionsKeep, ToggleOnlineKeeps, NavigateKeeps, TabStripKeeps, MoveTabKeeps,
   RunTerminalKeeps, TerminalBodyKeeps DEF Views

-----------------------------------------------------------------------------
(* Frames. *)

\* The operation's message is read and the receiver dropped: nothing runs then.
LEMMA PollNetOK == ASSUME NetOK, net' = PollNet(net) PROVE NetOK'
<1>1. CASE net.inbox = {}
    <2>1. net' = net
        BY <1>1 DEF PollNet
    <2> QED
        BY <2>1 DEF NetOK
<1>2. CASE net.inbox # {}
    <2> DEFINE new == [net EXCEPT !.busy = FALSE, !.rx = 0, !.inbox = {}]
    <2>1. net' = new /\ net \in NetType
        BY <1>2 DEF PollNet, NetOK
    <2>2. new \in NetType /\ new.jobs = net.jobs /\ new.inbox = {} /\ ~new.busy
        BY <2>1 DEF NetType
    <2>3. net.jobs = {}
        BY <1>2 DEF NetOK
    <2> HIDE DEF new
    <2> QED
        BY <2>1, <2>2, <2>3 DEF NetOK
<1> QED
    BY <1>1, <1>2

LEMMA PollProbesOK == ASSUME ProbeOK, probe' = PollProbes(probe) PROVE ProbeOK'
<1> DEFINE R == {"none", "probing", "reachable", "unreachable"}
           M == [id : Ids, st : {"reachable", "unreachable"}]
           Res(i) == IF \E m \in probe.inbox : m.id = i THEN (CHOOSE m \in probe.inbox : m.id = i).st ELSE probe.results[i]
           res == [i \in Ids |-> Res(i)]
<1>1. probe.inbox \subseteq M /\ probe.results \in [Ids -> R]
    BY DEF ProbeOK
<1>2. \A i \in Ids : Res(i) \in R
    <2> TAKE i \in Ids
    <2>1. CASE \E m \in probe.inbox : m.id = i
        <3> DEFINE c == CHOOSE m \in probe.inbox : m.id = i
        <3>1. c \in probe.inbox
            BY <2>1
        <3>2. c.st \in R
            BY <1>1, <3>1
        <3>3. Res(i) = c.st
            BY <2>1
        <3> QED
            BY <3>2, <3>3
    <2>2. CASE ~\E m \in probe.inbox : m.id = i
        <3>1. Res(i) = probe.results[i]
            BY <2>2
        <3> QED
            BY <1>1, <3>1
    <2> QED
        BY <2>1, <2>2
<1>3. probe' = [probe EXCEPT !.results = res, !.inbox = {}]
    BY DEF PollProbes
<1> HIDE DEF Res
<1>4. res \in [Ids -> R]
    BY <1>2
<1> HIDE DEF res
<1> QED
    BY <1>3, <1>4 DEF ProbeOK

LEMMA PollKeeps == ASSUME DesktopInv, Poll PROVE DesktopInv'
<1>1. /\ phase' = "ui" /\ scan' = PollScan(scan) /\ net' = PollNet(net) /\ probe' = PollProbes(probe) /\ term' = Drain(term)
      /\ UNCHANGED <<db, selected, graph, key, tabs, page, events>>
    BY DEF Poll, bounds
<1>2. (data' = db /\ behind' = FALSE) \/ (data' = data /\ behind' = behind)
    <2> DEFINE refreshed == scan.at = "sent" \/ net.inbox # {}
    <2>1. data' = (IF refreshed THEN db ELSE data) /\ behind' = (behind /\ ~refreshed)
        BY DEF Poll
    <2>2. behind \in BOOLEAN
        BY DEF DesktopInv, StoresOK
    <2> HIDE DEF refreshed
    <2>3. CASE refreshed
        BY <2>1, <2>3
    <2>4. CASE ~refreshed
        BY <2>1, <2>2, <2>4
    <2> QED
        BY <2>3, <2>4
<1>3. StoresOK'
    BY <1>1, <1>2 DEF DesktopInv, StoresOK
<1>4. ScanOK'
    BY <1>1 DEF DesktopInv, ScanOK, PollScan, IdleScan
<1>5. NetOK' /\ ProbeOK'
    BY <1>1, PollNetOK, PollProbesOK DEF DesktopInv
<1>6. TermOK'
    BY <1>1, DrainFine DEF DesktopInv, TermOK
<1>7. GraphOK' /\ TabsOK' /\ SelectedOK'
    BY <1>1 DEF DesktopInv, GraphOK, TabsOK, SelectedOK
<1> QED
    BY <1>1, <1>3, <1>4, <1>5, <1>6, <1>7 DEF DesktopInv

LEMMA NoClickKeeps == ASSUME DesktopInv, NoClick PROVE DesktopInv'
<1>1. /\ phase' = "poll" /\ selected' = Panel /\ tabs' = WithTab(page, tabs)
      /\ UNCHANGED <<db, data, behind, scan, net, probe, graph, key, page, term, events>>
    BY DEF NoClick, bounds
<1>2. StoresOK' /\ NetOK' /\ ScanOK' /\ ProbeOK' /\ GraphOK' /\ TermOK'
    BY <1>1 DEF DesktopInv, StoresOK, NetOK, ScanOK, ProbeOK, GraphOK, TermOK
<1>3. TabsOK'
    BY <1>1, WithTabFine DEF DesktopInv, TabsOK
<1>4. SelectedOK'
    BY <1>1, RecordIsPair DEF Panel, SelectedOK
<1> QED
    BY <1>1, <1>2, <1>3, <1>4 DEF DesktopInv

-----------------------------------------------------------------------------
(* Workers, the gateway and restarts. *)

\* What a worker thread leaves to the user interface.
Aside == UNCHANGED <<phase, data, events, key, graph, tabs, page, selected>>

LEMMA AsideKeeps ==
    ASSUME DesktopInv, Aside, StoresOK', NetOK', ScanOK', ProbeOK', TermOK'
    PROVE  DesktopInv'
BY DEF Aside, DesktopInv, GraphOK, TabsOK, SelectedOK

LEMMA ScanRecordsKeeps == ASSUME DesktopInv, ScanRecords PROVE DesktopInv'
<1>1. Aside /\ behind' = TRUE /\ UNCHANGED <<data, net, probe, term>> /\ scan' = [scan EXCEPT !.recorded = TRUE]
    BY DEF ScanRecords, Aside, ui, bounds
<1>2. PICK k \in Keys : db' = [db EXCEPT !.triage[k] = IF @ = "none" THEN "open" ELSE @, !.scans = 1]
    BY DEF ScanRecords
<1> DEFINE st == IF db.triage[k] = "none" THEN "open" ELSE db.triage[k]
<1>3. StoreOK(db) /\ StoresOK
    BY DEF DesktopInv, StoresOK
<1>4. st \in Triages
    BY <1>3 DEF StoreOK, StoreType, Triages
<1>5. db' = [db EXCEPT !.triage[k] = st, !.scans = 1]
    BY <1>2
<1> HIDE DEF st
<1>6. StoresOK'
    BY <1>1, <1>3, <1>4, <1>5, TriageSaved, WrittenOK
<1>7. ScanOK' /\ NetOK' /\ ProbeOK' /\ TermOK'
    BY <1>1 DEF DesktopInv, ScanOK, NetOK, ProbeOK, TermOK
<1> QED
    BY <1>1, <1>6, <1>7, AsideKeeps

LEMMA ScanEndsKeeps == ASSUME DesktopInv, ScanEnds PROVE DesktopInv'
<1>1. Aside /\ UNCHANGED <<data, net, probe, term>> /\ scan' = [scan EXCEPT !.at = "sent"]
    BY DEF ScanEnds, Aside, ui, bounds
<1>2. UNCHANGED <<db, behind>> \/ (db' = [db EXCEPT !.postures = 1] /\ behind' = TRUE)
    BY DEF ScanEnds
<1>3. StoreOK(db) /\ StoresOK
    BY DEF DesktopInv, StoresOK
<1>4. StoresOK'
    <2>1. CASE UNCHANGED <<db, behind>>
        BY <1>1, <1>3, <2>1 DEF StoresOK
    <2>2. CASE db' = [db EXCEPT !.postures = 1] /\ behind' = TRUE
        BY <1>1, <1>3, <2>2, CountsSaved, WrittenOK
    <2> QED
        BY <1>2, <2>1, <2>2
<1>5. ScanOK' /\ NetOK' /\ ProbeOK' /\ TermOK'
    BY <1>1 DEF DesktopInv, ScanOK, NetOK, ProbeOK, TermOK
<1> QED
    BY <1>1, <1>4, <1>5, AsideKeeps

\* The only job ends: its message is in the inbox of the receiver that waits.
LEMMA SendsKeep == ASSUME NetOK, StoresOK, UNCHANGED data, NEW j \in net.jobs, NEW d, StoreOK(d), NetSends(j, d) PROVE NetOK' /\ StoresOK'
<1> DEFINE new == [net EXCEPT !.jobs = net.jobs \ {j}, !.inbox = IF net.rx = j.chan THEN {j.chan} ELSE net.inbox]
<1>1. net' = new
    BY DEF NetSends
<1>2. net \in NetType /\ net.rx = j.chan /\ net.jobs = {j} /\ net.busy /\ j.chan \in Nat
    BY DEF NetOK, NetType, JobType
<1>3. new \in NetType /\ new.jobs = {} /\ new.inbox = {j.chan} /\ new.busy
    BY <1>2 DEF NetType
<1> HIDE DEF new
<1>4. NetOK'
    BY <1>1, <1>3 DEF NetOK
<1>5. StoresOK'
    BY WrittenOK DEF NetSends
<1> QED
    BY <1>4, <1>5

LEMMA GoesOnKeeps ==
    ASSUME NetOK, StoresOK, UNCHANGED data, NEW j \in net.jobs, NEW k \in JobType, k.chan = j.chan, k.row \in ConnType,
           NEW d, StoreOK(d), NetGoesOn(j, k, d)
    PROVE  NetOK' /\ StoresOK'
<1> DEFINE new == [net EXCEPT !.jobs = (net.jobs \ {j}) \cup {k}]
<1>1. net' = new
    BY DEF NetGoesOn
<1>2. net \in NetType /\ net.rx = j.chan /\ net.jobs = {j} /\ net.busy /\ net.inbox = {}
    BY DEF NetOK
<1>3. new \in NetType /\ new.jobs = {k} /\ new.inbox = {} /\ new.busy /\ new.rx = net.rx
    BY <1>2 DEF NetType
<1> HIDE DEF new
<1>4. NetOK'
    BY <1>1, <1>2, <1>3 DEF NetOK
<1>5. StoresOK'
    BY WrittenOK DEF NetGoesOn
<1> QED
    BY <1>4, <1>5

LEMMA NetOpKeeps == ASSUME DesktopInv, NEW j \in net.jobs, NetOp(j) PROVE DesktopInv'
<1>1. Aside /\ UNCHANGED <<data, scan, probe, term>>
    BY DEF NetOp, Aside, ui, bounds
<1>2. NetOK /\ StoresOK /\ StoreOK(db) /\ j \in JobType /\ j.conn \in Conns
    BY DEF DesktopInv, StoresOK, NetOK, NetType, JobType
<1>3. j.at # "begin" => j.row \in ConnType
    BY <1>2 DEF NetOK
<1> SUFFICES NetOK' /\ StoresOK'
    <2>1. ScanOK' /\ ProbeOK' /\ TermOK'
        BY <1>1 DEF DesktopInv, ScanOK, ProbeOK, TermOK
    <2> QED
        BY <1>1, <2>1, AsideKeeps
<1>4. CASE NetBegins(j)
    <2>1. CASE NetSends(j, db)
        BY <1>1, <1>2, <2>1, SendsKeep
    <2>2. CASE /\ db.conns[j.conn] # Gone
               /\ NetGoesOn(j, [j EXCEPT !.at = "call", !.row = db.conns[j.conn]], db)
        <3> DEFINE row == db.conns[j.conn]
                   k == [j EXCEPT !.at = "call", !.row = row]
        <3>1. row \in ConnType
            BY <1>2, <2>2 DEF StoreOK, StoreType
        <3>2. NetGoesOn(j, k, db)
            BY <2>2
        <3> HIDE DEF row
        <3>3. k \in JobType /\ k.chan = j.chan /\ k.row \in ConnType
            BY <1>2, <3>1 DEF JobType
        <3> HIDE DEF k
        <3> QED
            BY <1>1, <1>2, <3>2, <3>3, GoesOnKeeps
    <2> QED
        BY <1>4, <2>1, <2>2 DEF NetBegins
<1>5. CASE TestConnection(j)
    <2>1. PICK ok \in {"connected", "failed"} : NetSends(j, [db EXCEPT !.conns[j.conn] = [j.row EXCEPT !.tested = ok]])
        BY <1>5 DEF TestConnection
    <2> DEFINE row == [j.row EXCEPT !.tested = ok]
    <2>2. j.row \in ConnType
        BY <1>3, <1>5 DEF TestConnection
    <2>3. row \in ConnType
        BY <2>2 DEF ConnType
    <2> HIDE DEF row
    <2>4. StoreOK([db EXCEPT !.conns[j.conn] = row])
        BY <1>2, <2>3, ConnSaved
    <2> QED
        BY <1>1, <1>2, <2>1, <2>4, SendsKeep DEF row
<1>6. CASE ScanConnection(j)
    <2>1. j.row \in ConnType
        BY <1>3, <1>6 DEF ScanConnection
    <2>2. CASE NetSends(j, db)
        BY <1>1, <1>2, <2>2, SendsKeep
    <2>3. CASE \E k \in Keys : NetGoesOn(j, [j EXCEPT !.at = "write"],
                                         [db EXCEPT !.triage[k] = IF @ = "none" THEN "open" ELSE @, !.scans = 1])
        <3>1. PICK k \in Keys : NetGoesOn(j, [j EXCEPT !.at = "write"],
                                          [db EXCEPT !.triage[k] = IF @ = "none" THEN "open" ELSE @, !.scans = 1])
            BY <2>3
        <3> DEFINE st == IF db.triage[k] = "none" THEN "open" ELSE db.triage[k]
                   d == [db EXCEPT !.triage[k] = st, !.scans = 1]
                   e == [j EXCEPT !.at = "write"]
        <3>2. st \in Triages
            BY <1>2 DEF StoreOK, StoreType, Triages
        <3>3. NetGoesOn(j, e, d)
            BY <3>1
        <3> HIDE DEF st
        <3>4. StoreOK(d)
            BY <1>2, <3>2, TriageSaved
        <3>5. e \in JobType /\ e.chan = j.chan /\ e.row \in ConnType
            BY <1>2, <2>1 DEF JobType
        <3> HIDE DEF d, e
        <3> QED
            BY <1>1, <1>2, <3>3, <3>4, <3>5, GoesOnKeeps
    <2>4. CASE NetSends(j, [db EXCEPT !.postures = 1, !.conns[j.conn] = [j.row EXCEPT !.scanned = "yes"]])
        <3> DEFINE row == [j.row EXCEPT !.scanned = "yes"]
        <3>1. row \in ConnType
            BY <2>1 DEF ConnType
        <3> HIDE DEF row
        <3>2. StoreOK([db EXCEPT !.postures = 1, !.conns[j.conn] = row])
            BY <1>2, <3>1, ConnSaved
        <3> QED
            BY <1>1, <1>2, <2>4, <3>2, SendsKeep DEF row
    <2> QED
        BY <1>6, <2>2, <2>3, <2>4 DEF ScanConnection
<1>7. CASE FileTicket(j)
    <2>1. StoreOK([db EXCEPT !.tickets = 1])
        BY <1>2, CountsSaved
    <2> QED
        BY <1>1, <1>2, <1>7, <2>1, SendsKeep DEF FileTicket
<1> QED
    BY <1>4, <1>5, <1>6, <1>7 DEF NetOp

LEMMA ProbeEndsKeeps == ASSUME DesktopInv, NEW j \in probe.jobs, ProbeEnds(j) PROVE DesktopInv'
<1>1. Aside /\ UNCHANGED <<db, data, behind, scan, net, term>>
    BY DEF ProbeEnds, Aside, ui, bounds
<1>2. PICK st \in {"reachable", "unreachable"} :
         probe' = [probe EXCEPT !.jobs = @ \ {j}, !.inbox = IF probe.rx = j.chan THEN @ \cup {[id |-> j.id, st |-> st]} ELSE @]
    BY DEF ProbeEnds
<1> DEFINE jobs == probe.jobs \ {j}
           box == IF probe.rx = j.chan THEN probe.inbox \cup {[id |-> j.id, st |-> st]} ELSE probe.inbox
<1>3. j.id \in Ids /\ jobs \in SUBSET [id : Ids, chan : Nat]
    BY DEF DesktopInv, ProbeOK
<1>4. box \in SUBSET [id : Ids, st : {"reachable", "unreachable"}]
    BY <1>3 DEF DesktopInv, ProbeOK
<1>5. probe' = [probe EXCEPT !.jobs = jobs, !.inbox = box]
    BY <1>2
<1> HIDE DEF jobs, box
<1>6. ProbeOK'
    BY <1>3, <1>4, <1>5 DEF DesktopInv, ProbeOK
<1>7. StoresOK' /\ NetOK' /\ ScanOK' /\ TermOK'
    BY <1>1 DEF DesktopInv, StoresOK, NetOK, ScanOK, TermOK
<1> QED
    BY <1>1, <1>6, <1>7, AsideKeeps

LEMMA CaptureEndsKeeps == ASSUME DesktopInv, CaptureEnds PROVE DesktopInv'
<1>1. Aside /\ UNCHANGED <<db, data, behind, scan, net, probe>>
    BY DEF CaptureEnds, Aside, bounds
<1>2. term \in TermType /\ IsTail(term.lines, term.printed) /\ term.captures > 0
    BY DEF CaptureEnds, DesktopInv, TermOK, TermFine
<1>3. PICK n \in 1..2 : term' = [term EXCEPT !.captures = @ - 1, !.inbox = @ + n]
    BY DEF CaptureEnds
<1> DEFINE c == term.captures - 1
           b == term.inbox + n
           new == [term EXCEPT !.captures = c, !.inbox = b]
<1>4. c \in Nat /\ b \in Nat /\ term' = new
    BY <1>2, <1>3 DEF TermType
<1> HIDE DEF c, b
<1>5. new \in TermType /\ new.lines = term.lines /\ new.printed = term.printed
    BY <1>2, <1>4 DEF TermType
<1> HIDE DEF new
<1>6. TermOK'
    BY <1>2, <1>4, <1>5 DEF TermOK, TermFine
<1>7. StoresOK' /\ NetOK' /\ ScanOK' /\ ProbeOK'
    BY <1>1 DEF DesktopInv, StoresOK, NetOK, ScanOK, ProbeOK
<1> QED
    BY <1>1, <1>6, <1>7, AsideKeeps

LEMMA GatewayKeeps == ASSUME DesktopInv, GatewayWrites PROVE DesktopInv'
<1>1. Aside /\ behind' = TRUE /\ UNCHANGED <<data, scan, net, probe, term>>
    BY DEF GatewayWrites, Aside, ui
<1>2. StoreOK(db) /\ StoresOK
    BY DEF DesktopInv, StoresOK
<1>3. StoreOK(db')
    <2>1. CASE \E i \in Ids : db' = [db EXCEPT !.rows[i] = [air |-> IF @ = Gone THEN FALSE ELSE @.air, status |-> "weak"]]
        <3>1. PICK i \in Ids : db' = [db EXCEPT !.rows[i] = [air |-> IF @ = Gone THEN FALSE ELSE @.air, status |-> "weak"]]
            BY <2>1
        <3> DEFINE row == [air |-> IF db.rows[i] = Gone THEN FALSE ELSE db.rows[i].air, status |-> "weak"]
        <3>2. db.rows[i] \in RowType \cup {Gone}
            BY <1>2 DEF StoreOK, StoreType
        <3>3. row \in RowType \cup {Gone}
            BY <3>2 DEF RowType, Statuses
        <3>4. db' = [db EXCEPT !.rows[i] = row]
            BY <3>1
        <3> HIDE DEF row
        <3> QED
            BY <1>2, <3>3, <3>4, RowSaved
    <2>2. CASE \E c \in Conns : db' = [db EXCEPT !.conns[c] = Gone]
        <3>1. PICK c \in Conns : db' = [db EXCEPT !.conns[c] = Gone]
            BY <2>2
        <3>2. StoreOK([db EXCEPT !.conns[c] = Gone])
            BY <1>2, ConnSaved
        <3> QED
            BY <3>1, <3>2
    <2>3. CASE \E o \in Others : db' = [db EXCEPT !.others = {o}]
        <3>1. \A o \in Others : StoreOK([db EXCEPT !.others = {o}])
            BY <1>2, CountsSaved
        <3> QED
            BY <2>3, <3>1
    <2>4. CASE \E n \in DOMAIN db.certs : db' = [db EXCEPT !.certs[n] = "revoked"]
        BY <1>2, <2>4, CertRevoked
    <2> QED
        BY <2>1, <2>2, <2>3, <2>4 DEF GatewayWrites
<1>4. StoresOK'
    BY <1>1, <1>2, <1>3, WrittenOK
<1>5. ScanOK' /\ NetOK' /\ ProbeOK' /\ TermOK'
    BY <1>1 DEF DesktopInv, ScanOK, NetOK, ProbeOK, TermOK
<1> QED
    BY <1>1, <1>4, <1>5, AsideKeeps

\* What main and App::new start with.
LEMMA FreshFacts ==
    /\ IdleScan \in [busy : BOOLEAN, at : {"none", "scanning", "sent"}, recorded : BOOLEAN]
    /\ IdleNet \in NetType /\ IdleNet.jobs = {} /\ IdleNet.inbox = {} /\ ~IdleNet.busy
    /\ IdleProbe \in [results : [Ids -> {"none", "probing", "reachable", "unreachable"}], rx : Nat, latest : Ids \cup {"none"},
                      jobs : SUBSET [id : Ids, chan : Nat], inbox : SUBSET [id : Ids, st : {"reachable", "unreachable"}]]
    /\ GraphFine(FirstGraph) /\ TabsFine(<<"Overview">>) /\ TermFine(FirstTerm)
    /\ "Overview" \in Pages /\ 0 \in 0..MaxCerts
<1>1. /\ IdleScan \in [busy : BOOLEAN, at : {"none", "scanning", "sent"}, recorded : BOOLEAN]
      /\ "Overview" \in Pages /\ 0 \in 0..MaxCerts
    BY DesktopAssumption DEF IdleScan
<1>2. IdleNet \in NetType /\ IdleNet.jobs = {} /\ IdleNet.inbox = {} /\ ~IdleNet.busy
    BY DEF NetType, IdleNet
<1>3. IdleProbe \in [results : [Ids -> {"none", "probing", "reachable", "unreachable"}], rx : Nat, latest : Ids \cup {"none"},
                     jobs : SUBSET [id : Ids, chan : Nat], inbox : SUBSET [id : Ids, st : {"reachable", "unreachable"}]]
    BY DEF IdleProbe
<1>4. GraphFine(FirstGraph)
    BY DEF GraphFine, FirstGraph
<1>5. TabsFine(<<"Overview">>)
    BY OneTab, DesktopAssumption
<1>6. TermFine(FirstTerm)
    <2> DEFINE one == <<1>>
    <2>1. one \in Seq(Nat) /\ Len(one) = 1 /\ one[1] = 1
        OBVIOUS
    <2>2. IsTail(one, 1)
        <3> HIDE DEF one
        <3> QED
            BY <2>1 DEF IsTail
    <2>3. FirstTerm.lines = one /\ FirstTerm.printed = 1
        BY DEF FirstTerm
    <2>4. FirstTerm \in TermType
        BY <2>1 DEF FirstTerm, TermType
    <2> HIDE DEF one
    <2> QED
        BY <2>2, <2>3, <2>4 DEF TermFine
<1> QED
    BY <1>1, <1>2, <1>3, <1>4, <1>5, <1>6

\* The next process starts with nothing of the last one but the store.
LEMMA QuitKeeps == ASSUME DesktopInv, Quit PROVE DesktopInv'
<1>1. /\ phase' = "poll" /\ data' = db /\ behind' = FALSE /\ scan' = IdleScan /\ net' = IdleNet /\ probe' = IdleProbe
      /\ graph' = FirstGraph /\ key' = 0 /\ tabs' = <<"Overview">> /\ page' = "Overview" /\ term' = FirstTerm
      /\ selected' = <<>> /\ UNCHANGED <<db, events>>
    BY DEF Quit
<1>2. StoresOK'
    BY <1>1 DEF DesktopInv, StoresOK
<1>3. NetOK'
    BY <1>1, FreshFacts DEF NetOK
<1>4. ScanOK' /\ ProbeOK' /\ SelectedOK'
    BY <1>1, FreshFacts DEF ScanOK, ProbeOK, SelectedOK
<1>5. GraphOK' /\ TabsOK' /\ TermOK'
    BY <1>1, FreshFacts DEF GraphOK, TabsOK, TermOK
<1> QED
    BY <1>1, <1>2, <1>3, <1>4, <1>5, FreshFacts DEF DesktopInv

LEMMA InitOK == ASSUME Init PROVE DesktopInv
<1>1. StoresOK
    <2> DEFINE rows == [i \in Ids |-> IF i \in Hosts THEN [air |-> FALSE, status |-> "unknown"] ELSE Gone]
               triage == [k \in Keys |-> "none"]
               conns == [c \in Conns |-> [tested |-> "no", scanned |-> "no"]]
               none == <<>>
               d == [rows |-> rows, triage |-> triage, conns |-> conns, certs |-> none, others |-> {},
                     scans |-> 0, tickets |-> 0, postures |-> 0]
    <2>1. db = d /\ data = db /\ behind = FALSE
        BY DEF Init
    <2>2. rows \in [Ids -> RowType \cup {Gone}]
        BY DEF RowType, Statuses
    <2>3. triage \in [Keys -> Triages] /\ conns \in [Conns -> ConnType \cup {Gone}]
        BY DEF Triages, ConnType
    <2>4. none \in Seq(CertStates) /\ Len(none) = 0
        OBVIOUS
    <2> HIDE DEF rows, triage, conns, none
    <2>5. d \in StoreType /\ d.certs = none
        BY <2>2, <2>3, <2>4 DEF StoreType
    <2> HIDE DEF d
    <2>6. StoreOK(d)
        BY <2>4, <2>5, DesktopAssumption DEF StoreOK
    <2> QED
        BY <2>1, <2>6 DEF StoresOK
<1>2. NetOK
    BY FreshFacts DEF Init, NetOK
<1>3. ScanOK /\ ProbeOK /\ SelectedOK
    BY FreshFacts DEF Init, ScanOK, ProbeOK, SelectedOK
<1>4. GraphOK /\ TabsOK /\ TermOK
    BY FreshFacts DEF Init, GraphOK, TabsOK, TermOK
<1>5. phase \in {"poll", "ui"} /\ events \in Nat /\ key \in 0..MaxCerts
    BY FreshFacts DEF Init
<1> QED
    BY <1>1, <1>2, <1>3, <1>4, <1>5 DEF DesktopInv

LEMMA StutterKeeps == ASSUME DesktopInv, UNCHANGED desktopVars PROVE DesktopInv'
<1>1. UNCHANGED <<phase, events, key, db, data, behind, scan, net, probe, graph, tabs, page, term, selected>>
    BY DEF desktopVars, ui, bounds
<1>2. StoresOK' /\ NetOK' /\ ScanOK' /\ ProbeOK' /\ TermOK'
    BY <1>1 DEF DesktopInv, StoresOK, NetOK, ScanOK, ProbeOK, TermOK
<1> QED
    BY <1>1, <1>2, AsideKeeps DEF Aside

LEMMA StepKeeps == ASSUME DesktopInv, [Next]_desktopVars PROVE DesktopInv'
<1>1. CASE Workers
    BY <1>1, ScanRecordsKeeps, ScanEndsKeeps, NetOpKeeps, ProbeEndsKeeps, CaptureEndsKeeps DEF Workers
<1> QED
    BY <1>1, PollKeeps, NoClickKeeps, ViewsKeep, GatewayKeeps, QuitKeeps, StutterKeeps DEF Next

\* Whatever is clicked, however the workers interleave, whatever the gateway
\* writes: the client and the store it shows keep to their invariant.
THEOREM DesktopInvariant == Spec => []DesktopInv
BY InitOK, StepKeeps, PTL DEF Spec

-----------------------------------------------------------------------------
(* What follows from the invariant. *)

LEMMA SnapshotTyped == ASSUME NEW d, StoreOK(d) PROVE SnapshotType(d)
<1>1. d \in StoreType /\ Len(d.certs) <= MaxCerts
    BY DEF StoreOK
<1> QED
    BY <1>1 DEF StoreType, SnapshotType, RowType, Triages, ConnType, CertStates

LEMMA WindowFollows == ASSUME DesktopInv PROVE WindowIsTrue
<1>1. DesktopTypeOK
    <2>1. SnapshotType(db) /\ SnapshotType(data)
        BY SnapshotTyped DEF DesktopInv, StoresOK
    <2>2. page \in Pages /\ tabs \in Seq(Pages) /\ (selected = <<>> \/ Len(selected) = 2)
        BY DEF DesktopInv, TabsOK, TabsFine, SelectedOK
    <2>3. scan.at \in {"none", "scanning", "sent"} /\ probe.results \in [Ids -> {"none", "probing", "reachable", "unreachable"}]
        BY DEF DesktopInv, ScanOK, ProbeOK
    <2> QED
        BY <2>1, <2>2, <2>3 DEF DesktopTypeOK, DesktopInv
<1>2. OneNetOp
    <2>1. Cardinality(net.jobs) <= 1
        <3>1. CASE net.jobs = {}
            BY <3>1, FS_EmptySet
        <3>2. CASE net.jobs # {}
            <4>1. PICK j : net.jobs = {j}
                BY <3>2 DEF DesktopInv, NetOK
            <4> QED
                BY <4>1, FS_Singleton
        <3> QED
            BY <3>1, <3>2
    <2> QED
        BY <2>1 DEF OneNetOp, DesktopInv, NetOK
<1>3. ViewShowsOwnWrites /\ SimulationIsCurrent /\ TabsAreSound
    BY DEF ViewShowsOwnWrites, SimulationIsCurrent, TabsAreSound, DesktopInv, StoresOK, GraphOK, GraphFine, TabsOK, TabsFine
<1>4. ConsoleIsTail
    <2>1. term.lines \in Seq(Nat) /\ \A n \in 1..Len(term.lines) : term.lines[n] = term.printed - Len(term.lines) + n
        BY DEF DesktopInv, TermOK, TermFine, IsTail
    <2> QED
        BY <2>1, LenProperties DEF ConsoleIsTail
<1> QED
    BY <1>1, <1>2, <1>3, <1>4 DEF WindowIsTrue

\* What the window shows is what is: the snapshot lags the store only behind
\* another writer, at most one thread talks to the network and its message will
\* be read, a graph that sync keeps has the overrides that are ticked, no page
\* has two tabs and one is always left, and the terminal shows the newest lines
\* without a gap - for any number of clicks, workers and restarts.
THEOREM WindowIsTrueHolds == Spec => []WindowIsTrue
BY DesktopInvariant, WindowFollows, PTL

-----------------------------------------------------------------------------
(* Certificates. *)

\* A step of the store that leaves the certificates, revokes one or adds one.
CertStep ==
    \/ db'.certs = db.certs
    \/ \E n : db'.certs = [db.certs EXCEPT ![n] = "revoked"]
    \/ db'.certs = Append(db.certs, "active")

LEMMA CertStepKeeps ==
    ASSUME StoreOK(db), CertStep
    PROVE  \A n \in DOMAIN db.certs : db.certs[n] = "revoked" => db'.certs[n] = "revoked"
<1> SUFFICES ASSUME NEW n \in DOMAIN db.certs, db.certs[n] = "revoked" PROVE db'.certs[n] = "revoked"
    OBVIOUS
<1>1. db.certs \in Seq(CertStates) /\ n \in 1..Len(db.certs)
    BY LenProperties DEF StoreOK, StoreType
<1>2. CASE \E m : db'.certs = [db.certs EXCEPT ![m] = "revoked"]
    BY <1>2
<1>3. CASE db'.certs = Append(db.certs, "active")
    BY <1>1, <1>3, AppendProperties DEF CertStates
<1> QED
    BY <1>2, <1>3 DEF CertStep


LEMMA LooksCerts == ASSUME Looks PROVE CertStep
BY DEF Looks, CertStep

LEMMA RefreshedCerts == ASSUME NEW d, d.certs = db.certs, Refreshed(d) PROVE CertStep
BY DEF Refreshed, CertStep

LEMMA SaveRowCerts == ASSUME StoreOK(db), NEW i, NEW row, SaveRow(i, row) PROVE CertStep
<1>1. [db EXCEPT !.rows[i] = row].certs = db.certs
    BY DEF StoreOK, StoreType
<1> QED
    BY <1>1, RefreshedCerts DEF SaveRow

LEMMA SelectCerts == ASSUME NEW group, NEW kinds, Select(group, kinds) PROVE CertStep
BY LooksCerts DEF Select

LEMMA RowViewCerts ==
    ASSUME StoreOK(db), NEW i, EstateView(i) \/ AssetsView(i) \/ HostBody(i) \/ AssetBody(i)
    PROVE  CertStep
<1>1. (\E row : SaveRow(i, row)) \/ Looks
    BY DEF EstateView, AssetsView, HostBody, AssetBody, AddTarget, AddAsset, ToggleTargetAirgap, ToggleAssetAirgap, StartProbe,
           DeleteRow, Select
<1> QED
    BY <1>1, SaveRowCerts, LooksCerts

LEMMA CertViewCerts == ASSUME StoreOK(db), CertificatesView PROVE CertStep
<1>1. \/ Looks
      \/ Refreshed([db EXCEPT !.certs = Append(@, "active")])
      \/ \E n : Refreshed([db EXCEPT !.certs[n] = "revoked"])
    BY DEF CertificatesView, IssueCert, DismissKey, Select, RenewCert, RevokeCert
<1>2. CASE Refreshed([db EXCEPT !.certs = Append(@, "active")])
    <2> DEFINE cs == Append(db.certs, "active")
    <2>1. db' = [db EXCEPT !.certs = cs]
        BY <1>2 DEF Refreshed
    <2> HIDE DEF cs
    <2>2. db'.certs = cs
        BY <2>1 DEF StoreOK, StoreType
    <2> QED
        BY <2>2 DEF CertStep, cs
<1>3. CASE \E n : Refreshed([db EXCEPT !.certs[n] = "revoked"])
    <2>1. PICK n : db' = [db EXCEPT !.certs[n] = "revoked"]
        BY <1>3 DEF Refreshed
    <2> DEFINE cs == [db.certs EXCEPT ![n] = "revoked"]
    <2>2. db' = [db EXCEPT !.certs = cs]
        BY <2>1
    <2> HIDE DEF cs
    <2>3. db'.certs = cs
        BY <2>2 DEF StoreOK, StoreType
    <2> QED
        BY <2>3 DEF CertStep, cs
<1> QED
    BY <1>1, <1>2, <1>3, LooksCerts

LEMMA FindingCerts == ASSUME StoreOK(db), NEW k, FindingBody(k) PROVE CertStep
<1>1. Looks \/ \E st : Refreshed([db EXCEPT !.triage[k] = st])
    BY DEF FindingBody, SetStatus, OpenTicket, SpawnNetOp
<1>2. \A st : [db EXCEPT !.triage[k] = st].certs = db.certs
    BY DEF StoreOK, StoreType
<1> QED
    BY <1>1, <1>2, LooksCerts, RefreshedCerts

LEMMA ViewsCerts == ASSUME StoreOK(db), Views PROVE CertStep
<1>1. \/ \E i \in Ids : EstateView(i) \/ AssetsView(i) \/ HostBody(i) \/ AssetBody(i)
      \/ \E k \in Keys : FindingBody(k)
      \/ CertificatesView
      \/ Refresh
      \/ RunTerminal
      \/ Looks
    BY DEF Views, EndpointsView, SessionsView, AlertsView, ScansView, RemediationsView, FindingsView, Select, ClosePanel,
           OverviewView, ExportBoardReport, AttackPathsView, ConnectionsView, SpawnNetOp, ToggleOnline, Navigate, TabStrip,
           MoveTab, TerminalBody
<1>2. CASE Refresh
    BY <1>2, RefreshedCerts DEF Refresh
<1>3. CASE RunTerminal
    <2>1. Looks \/ Refreshed(db)
        BY <1>3 DEF RunTerminal
    <2> QED
        BY <2>1, LooksCerts, RefreshedCerts
<1> QED
    BY <1>1, <1>2, <1>3, RowViewCerts, FindingCerts, CertViewCerts, LooksCerts

LEMMA WorkersCerts == ASSUME StoreOK(db), Workers PROVE CertStep
<1>1. \/ UNCHANGED db
      \/ \E k, st : db' = [db EXCEPT !.triage[k] = st, !.scans = 1]
      \/ db' = [db EXCEPT !.postures = 1]
      \/ db' = [db EXCEPT !.tickets = 1]
      \/ \E c, row : db' = [db EXCEPT !.conns[c] = row]
      \/ \E c, row : db' = [db EXCEPT !.postures = 1, !.conns[c] = row]
    <2>1. CASE ScanRecords \/ ScanEnds \/ CaptureEnds
        BY <2>1 DEF ScanRecords, ScanEnds, CaptureEnds
    <2>2. CASE \E j \in probe.jobs : ProbeEnds(j)
        BY <2>2 DEF ProbeEnds
    <2>3. CASE \E j \in net.jobs : NetOp(j)
        <3>1. PICK j \in net.jobs : NetBegins(j) \/ TestConnection(j) \/ ScanConnection(j) \/ FileTicket(j)
            BY <2>3 DEF NetOp
        <3>2. CASE NetBegins(j)
            <4>1. db' = db
                BY <3>2 DEF NetBegins, NetSends, NetGoesOn
            <4> QED
                BY <4>1
        <3>3. CASE TestConnection(j)
            <4>1. PICK ok : NetSends(j, [db EXCEPT !.conns[j.conn] = [j.row EXCEPT !.tested = ok]])
                BY <3>3 DEF TestConnection
            <4>2. db' = [db EXCEPT !.conns[j.conn] = [j.row EXCEPT !.tested = ok]]
                BY <4>1 DEF NetSends
            <4> QED
                BY <4>2
        <3>4. CASE ScanConnection(j)
            <4>1. \/ UNCHANGED db
                  \/ \E k \in Keys : db' = [db EXCEPT !.triage[k] = IF @ = "none" THEN "open" ELSE @, !.scans = 1]
                  \/ db' = [db EXCEPT !.postures = 1, !.conns[j.conn] = [j.row EXCEPT !.scanned = "yes"]]
                BY <3>4 DEF ScanConnection, NetSends, NetGoesOn
            <4>2. CASE \E k \in Keys : db' = [db EXCEPT !.triage[k] = IF @ = "none" THEN "open" ELSE @, !.scans = 1]
                BY <4>2
            <4>3. CASE db' = [db EXCEPT !.postures = 1, !.conns[j.conn] = [j.row EXCEPT !.scanned = "yes"]]
                BY <4>3
            <4> QED
                BY <4>1, <4>2, <4>3
        <3>5. CASE FileTicket(j)
            BY <3>5 DEF FileTicket, NetSends
        <3> QED
            BY <3>1, <3>2, <3>3, <3>4, <3>5
    <2> QED
        BY <2>1, <2>2, <2>3 DEF Workers
<1>2. db'.certs = db.certs
    BY <1>1 DEF StoreOK, StoreType
<1> QED
    BY <1>2 DEF CertStep

LEMMA GatewayCerts == ASSUME StoreOK(db), GatewayWrites PROVE CertStep
<1>1. \/ \E i, row : db' = [db EXCEPT !.rows[i] = row]
      \/ \E c \in Conns : db' = [db EXCEPT !.conns[c] = Gone]
      \/ \E o \in Others : db' = [db EXCEPT !.others = {o}]
      \/ \E n : db' = [db EXCEPT !.certs[n] = "revoked"]
    BY DEF GatewayWrites
<1>2. CASE \E n : db' = [db EXCEPT !.certs[n] = "revoked"]
    <2>1. PICK n : db' = [db EXCEPT !.certs[n] = "revoked"]
        BY <1>2
    <2> DEFINE cs == [db.certs EXCEPT ![n] = "revoked"]
    <2>2. db' = [db EXCEPT !.certs = cs]
        BY <2>1
    <2> HIDE DEF cs
    <2>3. db'.certs = cs
        BY <2>2 DEF StoreOK, StoreType
    <2> QED
        BY <2>3 DEF CertStep, cs
<1>3. CASE ~\E n : db' = [db EXCEPT !.certs[n] = "revoked"]
    <2>1. db'.certs = db.certs
        BY <1>1, <1>3 DEF StoreOK, StoreType
    <2> QED
        BY <2>1 DEF CertStep
<1> QED
    BY <1>2, <1>3

LEMMA EveryStepCerts == ASSUME StoreOK(db), [Next]_desktopVars PROVE CertStep
<1>1. CASE Poll \/ NoClick \/ Quit \/ UNCHANGED desktopVars
    <2>1. UNCHANGED db
        BY <1>1 DEF Poll, NoClick, Quit, desktopVars
    <2> QED
        BY <2>1 DEF CertStep
<1> QED
    BY <1>1, ViewsCerts, WorkersCerts, GatewayCerts DEF Next

\* "Irreversible": a certificate of the store that is revoked stays revoked,
\* whatever is issued, renewed or revoked in the client, from however old a
\* snapshot, whatever a worker or the gateway writes, and across restarts.
THEOREM RevokedStaysHolds == Spec => RevokedStays
<1>1. ASSUME DesktopInv, [Next]_desktopVars
      PROVE  [\A n \in DOMAIN db.certs : db.certs[n] = "revoked" => db'.certs[n] = "revoked"]_desktopVars
    BY <1>1, EveryStepCerts, CertStepKeeps DEF DesktopInv, StoresOK
<1> QED
    BY <1>1, DesktopInvariant, PTL DEF Spec, RevokedStays
=============================================================================
