------------------------------ MODULE WalProofs ------------------------------
(* Proofs about the write-ahead log and its group commit (Wal,                *)
(* WalGroupCommit): no fsync failure, crash or cleanup between an append and  *)
(* its answer loses the record, and what recovery reads stays in order.       *)
EXTENDS WalGroupCommit, SequenceTheorems, WellFoundedInduction, TLAPS

-----------------------------------------------------------------------------
(* Sequences.                                                                 *)

(* Nothing of s is torn; s is where t begins; s is in the order of append.    *)
Whole(s) == \A i \in 1..Len(s) : s[i] # Torn
Leads(s, t) == Len(s) <= Len(t) /\ \A i \in 1..Len(s) : s[i] = t[i]
InOrder(s) == \A i, j \in 1..Len(s) : i < j => s[i].lsn < s[j].lsn
UpTo(s, n) == \A i \in 1..Len(s) : s[i].lsn <= n

LEMMA SetOf ==
    ASSUME NEW s
    PROVE  ToSet(s) = {s[i] : i \in DOMAIN s}
BY DEF ToSet

LEMMA NatsHaveLeast ==
    ASSUME NEW T, T \subseteq Nat, T # {}
    PROVE  \E x \in T : \A y \in T : x <= y
<1> DEFINE less == {ss \in Nat \X Nat : ss[1] < ss[2]}
<1>1. IsWellFoundedOn(less, Nat)
  BY NatLessThanWellFounded DEF OpToRel
<1>2. \A x, y \in Nat : ~(<<y, x>> \in less) => x <= y
  OBVIOUS
<1> HIDE DEF less
<1>3. \E x \in T : \A y \in T : ~(<<y, x>> \in less)
  BY <1>1, WFMin
<1> QED BY <1>2, <1>3

(* The least element of a set of numbers is what CHOOSE finds.                *)
LEMMA MinIs ==
    ASSUME NEW T, T \subseteq Nat, T # {}
    PROVE  Min(T) \in T /\ \A y \in T : Min(T) <= y
BY NatsHaveLeast DEF Min

(* What can be read is the part before the first torn slot.                   *)
LEMMA ReadableIs ==
    ASSUME NEW f \in Seq(Slot)
    PROVE  /\ Readable(f) \in Seq(Record)
           /\ Leads(Readable(f), f)
           /\ Len(Readable(f)) < Len(f) => f[Len(Readable(f)) + 1] = Torn
<1> DEFINE I == {i \in 1..Len(f) : f[i] = Torn}
<1>0. Len(f) \in Nat /\ \A i \in 1..Len(f) : f[i] \in Slot
  OBVIOUS
<1>1. CASE I = {}
  <2>1. Readable(f) = f
    BY <1>1 DEF Readable, SelectInSeq
  <2>2. \A i \in 1..Len(f) : f[i] \in Record
    BY <1>0, <1>1 DEF Slot
  <2>3. f \in Seq(Record)
    BY <2>2
  <2> QED BY <1>0, <2>1, <2>3 DEF Leads
<1>2. CASE I # {}
  <2> DEFINE m == Min(I)
  <2>a. I \subseteq Nat
    BY <1>0
  <2>b. SelectInSeq(f, LAMBDA x : x = Torn) = m
    BY <1>2 DEF SelectInSeq
  <2>1. m \in I /\ \A y \in I : m <= y
    <3> HIDE DEF I
    <3> QED BY <2>a, <1>2, MinIs
  <2>c. m # 0
    BY <2>1
  <2>2. Readable(f) = SubSeq(f, 1, m - 1)
    <3> HIDE DEF m
    <3> QED BY <2>b, <2>c DEF Readable
  <2>3. m \in 1..Len(f) /\ f[m] = Torn
    BY <2>1
  <2>4. \A i \in 1..(m - 1) : f[i] # Torn
    BY <1>0, <2>1
  <2> HIDE DEF m
  <2>5. \A i \in 1..(m - 1) : f[i] \in Record
    BY <1>0, <2>3, <2>4 DEF Slot
  <2>6. SubSeq(f, 1, m - 1) = [i \in 1..(m - 1) |-> f[i]] /\ Len(SubSeq(f, 1, m - 1)) = m - 1
    BY <1>0, <2>3
  <2>7. SubSeq(f, 1, m - 1) \in Seq(Record)
    BY <1>0, <2>3, <2>5, <2>6
  <2> QED BY <1>0, <2>2, <2>3, <2>6, <2>7 DEF Leads
<1> QED BY <1>1, <1>2

(* Two sequences with the same elements are the same.                         *)
LEMMA SameSeq ==
    ASSUME NEW S, NEW s \in Seq(S), NEW T, NEW t \in Seq(T), Leads(s, t), Len(s) = Len(t)
    PROVE  s = t
BY DEF Leads

LEMMA LeadsTrans ==
    ASSUME NEW S, NEW s \in Seq(S), NEW t \in Seq(S), NEW u \in Seq(S), Leads(s, t), Leads(t, u)
    PROVE  Leads(s, u)
BY DEF Leads

LEMMA LeadsSelf ==
    ASSUME NEW S, NEW s \in Seq(S)
    PROVE  Leads(s, s)
BY DEF Leads

(* Records are slots, and no record is torn.                                  *)
LEMMA RecordsWhole ==
    ASSUME NEW s \in Seq(Record)
    PROVE  s \in Seq(Slot) /\ Whole(s)
<1>1. \A i \in 1..Len(s) : s[i] \in Record
  OBVIOUS
<1>2. Record \subseteq Slot
  BY DEF Slot
<1> QED BY <1>1, <1>2, TornAssumption DEF Whole

LEMMA RecordLsn ==
    ASSUME NEW s \in Seq(Record)
    PROVE  \A i \in 1..Len(s) : s[i].lsn \in Nat
<1>1. \A i \in 1..Len(s) : s[i] \in Record
  OBVIOUS
<1>2. \A r \in Record : r.lsn \in Nat
  BY DEF Record
<1> QED BY <1>1, <1>2

(* The part before the first torn slot is determined.                         *)
LEMMA ReadableUnique ==
    ASSUME NEW f \in Seq(Slot), NEW r \in Seq(Record), Leads(r, f),
           Len(r) < Len(f) => f[Len(r) + 1] = Torn
    PROVE  Readable(f) = r
<1> DEFINE q == Readable(f)
<1>1. q \in Seq(Record) /\ Leads(q, f) /\ (Len(q) < Len(f) => f[Len(q) + 1] = Torn)
  BY ReadableIs
<1> HIDE DEF q
<1>2. Whole(q) /\ Whole(r)
  BY <1>1, RecordsWhole
<1>3. Len(q) = Len(r)
  <2>1. Len(q) \in Nat /\ Len(r) \in Nat /\ Len(f) \in Nat
    BY <1>1
  <2>2. CASE Len(q) < Len(r)
    BY <1>1, <1>2, <2>1, <2>2 DEF Leads, Whole
  <2>3. CASE Len(r) < Len(q)
    BY <1>1, <1>2, <2>1, <2>3 DEF Leads, Whole
  <2> QED BY <2>1, <2>2, <2>3
<1>4. Leads(q, r)
  BY <1>1, <1>3 DEF Leads
<1>5. q = r
  BY <1>1, <1>3, <1>4, SameSeq
<1> QED BY <1>5 DEF q

(* A file without a torn slot is read to its end.                             *)
LEMMA WholeReadable ==
    ASSUME NEW f \in Seq(Slot), Whole(f)
    PROVE  f \in Seq(Record) /\ Readable(f) = f
<1>1. \A i \in 1..Len(f) : f[i] \in Record
  BY DEF Whole, Slot
<1>2. f \in Seq(Record)
  BY <1>1
<1> QED BY <1>2, LeadsSelf, ReadableUnique

(* What is read of the beginning of a file is the beginning of what is read.  *)
LEMMA ReadableMono ==
    ASSUME NEW s \in Seq(Slot), NEW f \in Seq(Slot), Leads(s, f)
    PROVE  Leads(Readable(s), Readable(f))
<1> DEFINE p == Readable(s)
           q == Readable(f)
<1>1. p \in Seq(Record) /\ Leads(p, s)
  BY ReadableIs
<1>2. q \in Seq(Record) /\ Leads(q, f) /\ (Len(q) < Len(f) => f[Len(q) + 1] = Torn)
  BY ReadableIs
<1> HIDE DEF p, q
<1>3. Whole(p)
  BY <1>1, RecordsWhole
<1>4. Leads(p, f)
  BY <1>1 DEF Leads
<1>5. Len(p) <= Len(q)
  <2>1. Len(q) \in Nat /\ Len(p) \in Nat /\ Len(f) \in Nat
    BY <1>1, <1>2
  <2>2. CASE Len(q) < Len(p)
    BY <1>2, <1>3, <1>4, <2>1, <2>2 DEF Leads, Whole
  <2> QED BY <2>1, <2>2
<1>6. Leads(p, q)
  BY <1>1, <1>2, <1>4, <1>5 DEF Leads
<1> QED BY <1>6 DEF p, q

LEMMA LeadsSet ==
    ASSUME NEW S, NEW s \in Seq(S), NEW t \in Seq(S), Leads(s, t)
    PROVE  ToSet(s) \subseteq ToSet(t)
BY SetOf DEF Leads

-----------------------------------------------------------------------------
(* What cleanup keeps.                                                        *)

(* g gives, for every n up to m, what is kept of the first n records.         *)
Keeps(g, recs, gone, m) ==
    g = [n \in 0..m |->
            IF n = 0 THEN <<>>
            ELSE IF recs[n] \in gone THEN g[n - 1] ELSE Append(g[n - 1], recs[n])]

LEMMA KeepsStart ==
    ASSUME NEW recs, NEW gone
    PROVE  \E g : Keeps(g, recs, gone, 0)
<1> DEFINE g == [n \in 0..0 |-> <<>>]
<1>1. g = [n \in 0..0 |->
            IF n = 0 THEN <<>>
            ELSE IF recs[n] \in gone THEN g[n - 1] ELSE Append(g[n - 1], recs[n])]
  OBVIOUS
<1> HIDE DEF g
<1>2. Keeps(g, recs, gone, 0)
  BY <1>1 DEF Keeps
<1> QED BY <1>2

LEMMA KeepsNext ==
    ASSUME NEW recs, NEW gone, NEW m \in Nat, NEW g, Keeps(g, recs, gone, m)
    PROVE  \E h : Keeps(h, recs, gone, m + 1)
<1> DEFINE last == IF recs[m + 1] \in gone THEN g[m] ELSE Append(g[m], recs[m + 1])
           h == [n \in 0..(m + 1) |-> IF n = m + 1 THEN last ELSE g[n]]
           F(n) == IF n = 0 THEN <<>>
                   ELSE IF recs[n] \in gone THEN h[n - 1] ELSE Append(h[n - 1], recs[n])
<1>1. \A n \in 0..m : h[n] = g[n]
  OBVIOUS
<1>2. h[m + 1] = last
  OBVIOUS
<1>3. \A n \in 0..m : g[n] = IF n = 0 THEN <<>>
            ELSE IF recs[n] \in gone THEN g[n - 1] ELSE Append(g[n - 1], recs[n])
  BY DEF Keeps
<1>4. h = [n \in 0..(m + 1) |-> h[n]]
  OBVIOUS
<1> HIDE DEF h
<1>5. \A n \in 0..(m + 1) : h[n] = F(n)
  <2> TAKE n \in 0..(m + 1)
  <2>1. CASE n = 0
    BY <2>1, <1>1, <1>3
  <2>2. CASE n \in 1..m
    <3>1. n \in 0..m /\ n - 1 \in 0..m /\ n # 0
      BY <2>2
    <3>2. h[n] = g[n] /\ h[n - 1] = g[n - 1]
      BY <3>1, <1>1
    <3>3. g[n] = IF recs[n] \in gone THEN g[n - 1] ELSE Append(g[n - 1], recs[n])
      BY <3>1, <1>3
    <3> QED BY <3>1, <3>2, <3>3
  <2>3. CASE n = m + 1
    <3>1. n - 1 = m /\ n # 0 /\ m \in 0..m
      BY <2>3
    <3>2. h[n - 1] = g[m]
      BY <3>1, <1>1
    <3> QED BY <2>3, <3>1, <3>2, <1>2
  <2> QED BY <2>1, <2>2, <2>3
<1>6. h = [n \in 0..(m + 1) |-> F(n)]
  BY <1>4, <1>5
<1>7. Keeps(h, recs, gone, m + 1)
  BY <1>6 DEF Keeps
<1> QED BY <1>7

(* The recursive definition has a solution.                                   *)
LEMMA KeepsExists ==
    ASSUME NEW recs, NEW gone, NEW m \in Nat
    PROVE  \E g : Keeps(g, recs, gone, m)
<1> DEFINE T == {n \in Nat : ~ \E g : Keeps(g, recs, gone, n)}
<1>1. T = {}
  <2>1. SUFFICES ASSUME T # {} PROVE FALSE
    OBVIOUS
  <2>2. T \subseteq Nat
    OBVIOUS
  <2>3. PICK n \in T : \A y \in T : n <= y
    <3> HIDE DEF T
    <3> QED BY <2>1, <2>2, NatsHaveLeast
  <2>4. n # 0
    BY KeepsStart
  <2>5. n - 1 \in Nat /\ n - 1 \notin T
    BY <2>3, <2>4
  <2>6. PICK g : Keeps(g, recs, gone, n - 1)
    BY <2>5
  <2>7. \E h : Keeps(h, recs, gone, (n - 1) + 1)
    BY <2>5, <2>6, KeepsNext
  <2>8. (n - 1) + 1 = n
    BY <2>5
  <2> QED BY <2>7, <2>8
<1> QED BY <1>1

LEMMA RetainedIs ==
    ASSUME NEW recs, NEW gone, Len(recs) \in Nat
    PROVE  \E g : Keeps(g, recs, gone, Len(recs)) /\ Retained(recs, gone) = g[Len(recs)]
<1> DEFINE F(g) == [n \in 0..Len(recs) |->
            IF n = 0 THEN <<>>
            ELSE IF recs[n] \in gone THEN g[n - 1] ELSE Append(g[n - 1], recs[n])]
           k == CHOOSE g : g = F(g)
<1>1. \E g : g = F(g)
  <2>1. PICK g : Keeps(g, recs, gone, Len(recs))
    BY KeepsExists
  <2>2. g = F(g)
    BY <2>1 DEF Keeps
  <2> QED BY <2>2
<1>2. k = F(k)
  BY <1>1
<1>3. Keeps(k, recs, gone, Len(recs))
  <2> HIDE DEF k
  <2> QED BY <1>2 DEF Keeps
<1>4. Retained(recs, gone) = k[Len(recs)]
  BY DEF Retained
<1> HIDE DEF k
<1> QED BY <1>3, <1>4

(* k holds the first n records that are not gone, in their order.             *)
KeptUpTo(k, recs, gone, n) ==
    /\ k \in Seq(Record)
    /\ \A i \in 1..n : recs[i] \notin gone => \E j \in 1..Len(k) : k[j] = recs[i]
    /\ \A j \in 1..Len(k) : k[j] \notin gone /\ \E i \in 1..n : k[j] = recs[i]
    /\ InOrder(recs) => InOrder(k)

LEMMA KeptStart ==
    ASSUME NEW recs, NEW gone
    PROVE  KeptUpTo(<<>>, recs, gone, 0)
BY DEF KeptUpTo, InOrder

LEMMA KeptSkips ==
    ASSUME NEW recs \in Seq(Record), NEW gone, NEW n \in 1..Len(recs), NEW k,
           KeptUpTo(k, recs, gone, n - 1), recs[n] \in gone
    PROVE  KeptUpTo(k, recs, gone, n)
<1>1. n \in Nat /\ 1..n = (1..(n - 1)) \cup {n}
  OBVIOUS
<1> QED BY <1>1 DEF KeptUpTo

LEMMA KeptAppends ==
    ASSUME NEW recs \in Seq(Record), NEW gone, NEW n \in 1..Len(recs), NEW k,
           KeptUpTo(k, recs, gone, n - 1), recs[n] \notin gone
    PROVE  KeptUpTo(Append(k, recs[n]), recs, gone, n)
<1> DEFINE h == Append(k, recs[n])
<1>1. n \in Nat /\ 1..n = (1..(n - 1)) \cup {n} /\ recs[n] \in Record
  OBVIOUS
<1>2. k \in Seq(Record) /\ Len(k) \in Nat
  BY DEF KeptUpTo
<1>3. /\ h \in Seq(Record) /\ Len(h) = Len(k) + 1
      /\ h[Len(k) + 1] = recs[n] /\ \A j \in 1..Len(k) : h[j] = k[j]
  BY <1>1, <1>2
<1> HIDE DEF h
<1>4. 1..Len(h) = (1..Len(k)) \cup {Len(k) + 1}
  BY <1>2, <1>3
<1>5. \A i \in 1..n : recs[i] \notin gone => \E j \in 1..Len(h) : h[j] = recs[i]
  <2> TAKE i \in 1..n
  <2> HAVE recs[i] \notin gone
  <2>1. CASE i = n
    BY <2>1, <1>3, <1>4
  <2>2. CASE i \in 1..(n - 1)
    <3>1. PICK j \in 1..Len(k) : k[j] = recs[i]
      BY <2>2 DEF KeptUpTo
    <3> QED BY <3>1, <1>3, <1>4
  <2> QED BY <1>1, <2>1, <2>2
<1>6. \A j \in 1..Len(h) : h[j] \notin gone /\ \E i \in 1..n : h[j] = recs[i]
  <2> TAKE j \in 1..Len(h)
  <2>1. CASE j = Len(k) + 1
    BY <2>1, <1>1, <1>3
  <2>2. CASE j \in 1..Len(k)
    BY <2>2, <1>1, <1>3 DEF KeptUpTo
  <2> QED BY <1>4, <2>1, <2>2
<1>7. InOrder(recs) => InOrder(h)
  <2> HAVE InOrder(recs)
  <2>1. InOrder(k)
    BY DEF KeptUpTo
  <2>2. SUFFICES ASSUME NEW a \in 1..Len(h), NEW b \in 1..Len(h), a < b
                 PROVE  h[a].lsn < h[b].lsn
    BY DEF InOrder
  <2>3. a \in 1..Len(k)
    BY <2>2, <1>2, <1>3
  <2>4. CASE b \in 1..Len(k)
    BY <2>1, <2>2, <2>3, <2>4, <1>3 DEF InOrder
  <2>5. CASE b = Len(k) + 1
    <3>1. PICK i \in 1..(n - 1) : k[a] = recs[i]
      BY <2>3 DEF KeptUpTo
    <3>2. i \in 1..Len(recs) /\ n \in 1..Len(recs) /\ i < n
      OBVIOUS
    <3>3. recs[i].lsn < recs[n].lsn
      BY <3>2 DEF InOrder
    <3> QED BY <2>3, <2>5, <3>1, <3>3, <1>3
  <2> QED BY <1>4, <2>4, <2>5
<1>8. KeptUpTo(h, recs, gone, n)
  BY <1>3, <1>5, <1>6, <1>7 DEF KeptUpTo
<1> QED BY <1>8 DEF h

(* Cleanup keeps exactly the records that it does not remove, in their order. *)
LEMMA RetainedKeeps ==
    ASSUME NEW recs \in Seq(Record), NEW gone
    PROVE  /\ Retained(recs, gone) \in Seq(Record)
           /\ ToSet(Retained(recs, gone)) = ToSet(recs) \ gone
           /\ InOrder(recs) => InOrder(Retained(recs, gone))
<1> DEFINE L == Len(recs)
<1>1. L \in Nat
  OBVIOUS
<1>2. PICK g : Keeps(g, recs, gone, L) /\ Retained(recs, gone) = g[L]
  BY <1>1, RetainedIs
<1>3. \A n \in 0..L : g[n] = IF n = 0 THEN <<>>
            ELSE IF recs[n] \in gone THEN g[n - 1] ELSE Append(g[n - 1], recs[n])
  BY <1>2 DEF Keeps
<1> DEFINE T == {n \in 0..L : ~ KeptUpTo(g[n], recs, gone, n)}
<1>4. T = {}
  <2>1. SUFFICES ASSUME T # {} PROVE FALSE
    OBVIOUS
  <2>2. T \subseteq Nat
    BY <1>1
  <2>3. PICK n \in T : \A y \in T : n <= y
    <3> HIDE DEF T
    <3> QED BY <2>1, <2>2, NatsHaveLeast
  <2>4. n # 0
    BY <1>1, <1>3, KeptStart
  <2>5. n \in 1..L /\ n - 1 \in 0..L /\ n - 1 \notin T
    BY <1>1, <2>3, <2>4
  <2>6. KeptUpTo(g[n - 1], recs, gone, n - 1)
    BY <2>5
  <2>7. n \in 0..L /\ n \in 1..Len(recs)
    BY <2>5
  <2>8. g[n] = IF recs[n] \in gone THEN g[n - 1] ELSE Append(g[n - 1], recs[n])
    BY <1>3, <2>4, <2>7
  <2>9. KeptUpTo(g[n], recs, gone, n)
    <3> HIDE DEF L
    <3>1. CASE recs[n] \in gone
      BY <3>1, <2>6, <2>7, <2>8, KeptSkips
    <3>2. CASE recs[n] \notin gone
      BY <3>2, <2>6, <2>7, <2>8, KeptAppends
    <3> QED BY <3>1, <3>2
  <2> QED BY <2>9
<1>5. KeptUpTo(g[L], recs, gone, L)
  <2>1. L \in 0..L
    BY <1>1
  <2> QED BY <1>4, <2>1
<1> DEFINE k == Retained(recs, gone)
<1>6. KeptUpTo(k, recs, gone, Len(recs))
  BY <1>2, <1>5
<1> HIDE DEF k
<1>7. k \in Seq(Record) /\ (InOrder(recs) => InOrder(k))
  BY <1>6 DEF KeptUpTo
<1>8. DOMAIN k = 1..Len(k) /\ DOMAIN recs = 1..Len(recs)
  BY <1>7
<1>9. ToSet(k) = ToSet(recs) \ gone
  BY <1>6, <1>8, SetOf DEF KeptUpTo
<1> QED BY <1>7, <1>9 DEF k

-----------------------------------------------------------------------------
(* Writing.                                                                   *)

LEMMA WriteAtType ==
    ASSUME NEW f \in Seq(Slot), NEW p \in 0..Len(f), NEW s \in Seq(Slot)
    PROVE  /\ WriteAt(f, p, s) \in Seq(Slot)
           /\ p + Len(s) \in 0..Len(WriteAt(f, p, s))
<1> DEFINE n == IF p + Len(s) > Len(f) THEN p + Len(s) ELSE Len(f)
           g(i) == IF i \in (p + 1)..(p + Len(s)) THEN s[i - p] ELSE f[i]
<1>1. Len(f) \in Nat /\ Len(s) \in Nat /\ p \in Nat
  OBVIOUS
<1>2. n \in Nat /\ p + Len(s) \in 0..n
  BY <1>1
<1>3. \A i \in 1..n : g(i) \in Slot
  <2> TAKE i \in 1..n
  <2>1. CASE i \in (p + 1)..(p + Len(s))
    <3>1. i - p \in 1..Len(s)
      BY <1>1, <2>1
    <3> QED BY <2>1, <3>1
  <2>2. CASE i \notin (p + 1)..(p + Len(s))
    <3>1. i \in 1..Len(f)
      BY <1>1, <2>2
    <3> QED BY <2>2, <3>1
  <2> QED BY <2>1, <2>2
<1> DEFINE w == [i \in 1..n |-> g(i)]
<1>4. w \in [1..n -> Slot]
  BY <1>3
<1>5. WriteAt(f, p, s) = w
  BY DEF WriteAt
<1> HIDE DEF w, n
<1>6. w \in Seq(Slot) /\ Len(w) = n
  BY <1>2, <1>4
<1> QED BY <1>2, <1>5, <1>6

LEMMA WriteAtEnd ==
    ASSUME NEW f \in Seq(Slot), NEW s \in Seq(Slot)
    PROVE  WriteAt(f, Len(f), s) = f \o s
<1>1. Len(f) \in Nat /\ Len(s) \in Nat
  OBVIOUS
<1> DEFINE n == IF Len(f) + Len(s) > Len(f) THEN Len(f) + Len(s) ELSE Len(f)
<1>2. n = Len(f) + Len(s)
  BY <1>1
<1>3. WriteAt(f, Len(f), s) = [i \in 1..(Len(f) + Len(s)) |->
          IF i \in (Len(f) + 1)..(Len(f) + Len(s)) THEN s[i - Len(f)] ELSE f[i]]
  BY <1>2 DEF WriteAt
<1> DEFINE w == WriteAt(f, Len(f), s)
<1>4. w \in Seq(Slot)
  BY <1>1, WriteAtType
<1>5. /\ f \o s \in Seq(Slot) /\ Len(f \o s) = Len(f) + Len(s)
      /\ \A i \in 1..(Len(f) + Len(s)) : (f \o s)[i] = IF i <= Len(f) THEN f[i] ELSE s[i - Len(f)]
  BY ConcatProperties
<1>6. \A i \in 1..(Len(f) + Len(s)) :
         i \in (Len(f) + 1)..(Len(f) + Len(s)) <=> ~(i <= Len(f))
  BY <1>1
<1>7. \A i \in 1..(Len(f) + Len(s)) : w[i] = (f \o s)[i]
  BY <1>3, <1>5, <1>6
<1>8. Len(w) = Len(f) + Len(s)
  <2>1. DOMAIN w = 1..(Len(f) + Len(s))
    BY <1>3
  <2> HIDE DEF w
  <2> QED BY <1>1, <1>4, <2>1
<1> HIDE DEF w
<1>9. w = f \o s
  BY <1>1, <1>4, <1>5, <1>7, <1>8, SeqEqual
<1> QED BY <1>9 DEF w

LEMMA WriteAtNone ==
    ASSUME NEW f \in Seq(Slot), NEW p \in 0..Len(f)
    PROVE  WriteAt(f, p, <<>>) = f
<1>1. Len(f) \in Nat /\ p \in Nat /\ Len(<<>>) = 0
  OBVIOUS
<1>2. ~(p + 0 > Len(f)) /\ (p + 1)..(p + 0) = {}
  BY <1>1
<1>3. WriteAt(f, p, <<>>) = [i \in 1..Len(f) |-> f[i]]
  BY <1>1, <1>2 DEF WriteAt
<1> QED BY <1>3

(* No half record is in the buffer, nor in a file that is written at its end. *)
Clean(f, b, p) == Whole(b) /\ (p = Len(f) => Whole(f))

(* A buffer is what goes to the file, followed by what stays.                 *)
LEMMA BufferSplit ==
    ASSUME NEW b \in Seq(Slot), NEW k \in 0..Len(b)
    PROVE  /\ SubSeq(b, 1, k) \in Seq(Slot) /\ Len(SubSeq(b, 1, k)) = k
           /\ SubSeq(b, k + 1, Len(b)) \in Seq(Slot)
           /\ SubSeq(b, 1, k) \o SubSeq(b, k + 1, Len(b)) = b
           /\ Whole(b) => Whole(SubSeq(b, 1, k)) /\ Whole(SubSeq(b, k + 1, Len(b)))
<1>1. Len(b) \in Nat /\ k \in Nat /\ k <= Len(b)
  OBVIOUS
<1> DEFINE u == SubSeq(b, 1, k)
           v == SubSeq(b, k + 1, Len(b))
<1>2. u \in Seq(Slot) /\ Len(u) = k /\ \A i \in 1..k : u[i] = b[i]
  BY <1>1
<1>3. v \in Seq(Slot) /\ Len(v) = Len(b) - k /\ \A i \in 1..(Len(b) - k) : v[i] = b[k + i]
  BY <1>1
<1> HIDE DEF u, v
<1>4. u \o v \in Seq(Slot) /\ Len(u \o v) = Len(b)
  BY <1>1, <1>2, <1>3
<1>5. \A i \in 1..Len(b) : (u \o v)[i] = b[i]
  <2> TAKE i \in 1..Len(b)
  <2>1. CASE i <= k
    BY <1>1, <1>2, <1>3, <2>1
  <2>2. CASE i > k
    <3>1. i - k \in 1..(Len(b) - k) /\ k + (i - k) = i
      BY <1>1, <2>2
    <3>2. (u \o v)[i] = v[i - k]
      BY <1>1, <1>2, <1>3, <2>2
    <3> QED BY <1>3, <3>1, <3>2
  <2>3. i <= k \/ i > k
    BY <1>1
  <2> QED BY <2>1, <2>2, <2>3
<1>6. u \o v = b
  BY <1>1, <1>4, <1>5, SeqEqual
<1>7. Whole(b) => Whole(u) /\ Whole(v)
  <2>1. \A i \in 1..(Len(b) - k) : k + i \in 1..Len(b)
    BY <1>1
  <2>2. \A i \in 1..k : i \in 1..Len(b)
    BY <1>1
  <2> QED BY <1>2, <1>3, <2>1, <2>2 DEF Whole
<1> QED BY <1>2, <1>3, <1>6, <1>7 DEF u, v

LEMMA ConcatWhole ==
    ASSUME NEW f \in Seq(Slot), NEW s \in Seq(Slot), Whole(f), Whole(s)
    PROVE  Whole(f \o s)
<1>1. /\ Len(f) \in Nat /\ Len(s) \in Nat
      /\ Len(f \o s) = Len(f) + Len(s)
      /\ \A i \in 1..(Len(f) + Len(s)) : (f \o s)[i] = IF i <= Len(f) THEN f[i] ELSE s[i - Len(f)]
  BY ConcatProperties
<1>2. ASSUME NEW i \in 1..(Len(f) + Len(s)) PROVE (f \o s)[i] # Torn
  <2>1. CASE i <= Len(f)
    BY <1>1, <2>1 DEF Whole
  <2>2. CASE ~(i <= Len(f))
    <3>1. i - Len(f) \in 1..Len(s)
      BY <1>1, <2>2
    <3> QED BY <1>1, <2>2, <3>1 DEF Whole
  <2> QED BY <2>1, <2>2
<1> QED BY <1>1, <1>2 DEF Whole

LEMMA ConcatLeads ==
    ASSUME NEW f \in Seq(Slot), NEW s \in Seq(Slot)
    PROVE  Leads(f, f \o s)
<1>1. /\ Len(f) \in Nat /\ Len(s) \in Nat
      /\ Len(f \o s) = Len(f) + Len(s)
      /\ \A i \in 1..(Len(f) + Len(s)) : (f \o s)[i] = IF i <= Len(f) THEN f[i] ELSE s[i - Len(f)]
  BY ConcatProperties
<1>2. \A i \in 1..Len(f) : i \in 1..(Len(f) + Len(s)) /\ i <= Len(f)
  BY <1>1
<1> QED BY <1>1, <1>2 DEF Leads

LEMMA ConcatSet ==
    ASSUME NEW S, NEW s \in Seq(S), NEW t \in Seq(S)
    PROVE  ToSet(s \o t) = ToSet(s) \cup ToSet(t)
<1>1. /\ Len(s) \in Nat /\ Len(t) \in Nat
      /\ s \o t \in Seq(S) /\ Len(s \o t) = Len(s) + Len(t)
      /\ \A i \in 1..(Len(s) + Len(t)) : (s \o t)[i] = IF i <= Len(s) THEN s[i] ELSE t[i - Len(s)]
  BY ConcatProperties
<1>2. /\ DOMAIN s = 1..Len(s) /\ DOMAIN t = 1..Len(t)
      /\ DOMAIN (s \o t) = 1..(Len(s) + Len(t))
  BY <1>1
<1>3. \A i \in 1..Len(s) : i \in 1..(Len(s) + Len(t)) /\ (s \o t)[i] = s[i]
  BY <1>1
<1>4. \A i \in 1..Len(t) : Len(s) + i \in 1..(Len(s) + Len(t)) /\ (s \o t)[Len(s) + i] = t[i]
  <2> TAKE i \in 1..Len(t)
  <2>1. Len(s) + i \in 1..(Len(s) + Len(t)) /\ ~(Len(s) + i <= Len(s)) /\ (Len(s) + i) - Len(s) = i
    BY <1>1
  <2> QED BY <1>1, <2>1
<1>5. ASSUME NEW i \in 1..(Len(s) + Len(t))
      PROVE  (s \o t)[i] \in {s[j] : j \in 1..Len(s)} \cup {t[j] : j \in 1..Len(t)}
  <2>1. CASE i <= Len(s)
    BY <1>1, <2>1
  <2>2. CASE ~(i <= Len(s))
    <3>1. i - Len(s) \in 1..Len(t)
      BY <1>1, <2>2
    <3> QED BY <1>1, <2>2, <3>1
  <2> QED BY <2>1, <2>2
<1> QED BY <1>2, <1>3, <1>4, <1>5, SetOf

LEMMA AppendKeeps ==
    ASSUME NEW f \in Seq(Slot), NEW s \in Seq(Slot), NEW u \in Seq(Slot), Whole(f), Whole(s)
    PROVE  Readable(f \o s) \o u = Readable(f) \o (s \o u)
<1>1. f \o s \in Seq(Slot) /\ Whole(f \o s)
  BY ConcatWhole, ConcatProperties
<1>2. Readable(f \o s) = f \o s /\ Readable(f) = f
  BY <1>1, WholeReadable
<1>3. (f \o s) \o u = f \o (s \o u)
  BY ConcatAssociative
<1> QED BY <1>2, <1>3

(* With k of the records in b written to f from p on, the file is w and u is  *)
(* left in the buffer.                                                        *)
WritesTo(f, b, p, k, w, u) ==
    w = WriteAt(f, p, SubSeq(b, 1, k)) /\ u = SubSeq(b, k + 1, Len(b))

(* As long as the file is written at its end only, what can be read and what  *)
(* is in the buffer together stay the same.                                   *)
LEMMA WriteKeeps ==
    ASSUME NEW f \in Seq(Slot), NEW b \in Seq(Slot), NEW p \in 0..Len(f), NEW k \in 0..Len(b),
           Clean(f, b, p), k > 0 => p = Len(f), NEW w, NEW u, WritesTo(f, b, p, k, w, u)
    PROVE  /\ Clean(w, u, p + k) /\ Leads(f, w)
           /\ Readable(w) \o u = Readable(f) \o b
<1>0. Len(f) \in Nat /\ Len(b) \in Nat /\ p \in Nat /\ k \in Nat
  OBVIOUS
<1> DEFINE s == SubSeq(b, 1, k)
<1>1. s \in Seq(Slot) /\ Len(s) = k /\ u \in Seq(Slot) /\ s \o u = b /\ Whole(s) /\ Whole(u)
  BY BufferSplit DEF Clean, WritesTo
<1>2. w = WriteAt(f, p, s)
  BY DEF WritesTo
<1> HIDE DEF s
<1>3. CASE k = 0
  <2>1. s = <<>>
    BY <1>1, <1>3
  <2>2. w = f
    BY <1>2, <2>1, WriteAtNone
  <2>3. u = b
    BY <1>1, <2>1, ConcatEmptySeq
  <2>4. p + k = p
    BY <1>0, <1>3
  <2> QED BY <2>2, <2>3, <2>4, LeadsSelf
<1>4. CASE k > 0
  <2>1. p = Len(f) /\ Whole(f)
    BY <1>4 DEF Clean
  <2>2. w = f \o s
    BY <1>1, <1>2, <2>1, WriteAtEnd
  <2>3. w \in Seq(Slot) /\ Whole(w) /\ Leads(f, w)
    BY <1>1, <2>1, <2>2, ConcatWhole, ConcatLeads, ConcatProperties
  <2>4. Readable(f \o s) \o u = Readable(f) \o (s \o u)
    BY <1>1, <2>1, AppendKeeps
  <2>6. Readable(w) \o u = Readable(f) \o b
    BY <1>1, <2>2, <2>4, Zenon
  <2>7. Clean(w, u, p + k)
    BY <1>1, <2>3 DEF Clean
  <2> QED BY <2>3, <2>6, <2>7
<1>5. k = 0 \/ k > 0
  BY <1>0
<1> QED BY <1>3, <1>4, <1>5

-----------------------------------------------------------------------------
(* The log.                                                                   *)

(* What recovery would read if the buffer were written out.                   *)
Log == Readable(file) \o buffer

RecordOf(r) == [lsn |-> r.lsn, payload |-> r.req]

(* What an undamaged log is like: only whole records are written, and only at *)
(* the end of the file; what was synced is the beginning of the file; numbers *)
(* ascend; and a record that waits for its answer is in the file or in the    *)
(* buffer, or was cleaned up.                                                 *)
Sane ==
    /\ Clean(file, buffer, pos)
    /\ Leads(synced, file)
    /\ InOrder(Log)
    /\ open => UpTo(Log, lsn)
    /\ \A r \in ToSet(pending) : RecordOf(r) \in ToSet(Log) \cup cleaned

Undamaged == Sane /\ Kept

(* A log that is going to be closed counts towards the bound on that.         *)
CanClose == open /\ closing => crashes < MaxCrashes

(* The inductive invariant.                                                   *)
WalInv == TypeOK /\ CanClose /\ (damage = {} => Undamaged)

LEMMA LogType ==
    ASSUME WalTypeOK, Whole(buffer)
    PROVE  /\ buffer \in Seq(Record) /\ Readable(file) \in Seq(Record)
           /\ Log \in Seq(Record)
           /\ ToSet(Log) = ToSet(Readable(file)) \cup ToSet(buffer)
<1>1. buffer \in Seq(Record) /\ Readable(file) \in Seq(Record)
  BY WholeReadable, ReadableIs DEF WalTypeOK
<1> QED BY <1>1, ConcatSet, ConcatProperties DEF Log

(* The invariant says what the runs check.                                    *)
LEMMA WalInvImplies ==
    ASSUME WalInv
    PROVE  LogSound
<1>1. TypeOK /\ WalTypeOK
  BY DEF WalInv, TypeOK
<1>2. ASSUME damage = {} PROVE Undamaged
  BY <1>2 DEF WalInv
<1>3. AckedDurable
  BY <1>2 DEF AckedDurable, Undamaged
<1>4. ASSUME damage = {}
      PROVE  /\ \A i, j \in DOMAIN Log : i < j => Log[i].lsn < Log[j].lsn
             /\ (open /\ Log # <<>>) => Last(Log).lsn <= lsn
  <2>1. Undamaged
    BY <1>2, <1>4
  <2>2. Log \in Seq(Record)
    BY <1>1, <2>1, LogType DEF Undamaged, Sane, Clean
  <2>3. DOMAIN Log = 1..Len(Log) /\ Len(Log) \in Nat /\ (Log # <<>> => Len(Log) \in 1..Len(Log))
    BY <2>2
  <2>4. InOrder(Log) /\ (open => UpTo(Log, lsn))
    BY <2>1 DEF Undamaged, Sane
  <2> HIDE DEF Log
  <2> QED BY <2>3, <2>4 DEF InOrder, UpTo, Last
<1>5. LogAscending
  BY <1>4 DEF LogAscending, Log
<1> QED BY <1>1, <1>3, <1>5 DEF LogSound

-----------------------------------------------------------------------------
(* The operations of the log.                                                 *)

(* Where the file handle is when k records are written.                       *)
PosAfter(k) == IF linked THEN pos + k ELSE pos

LEMMA WrittenType ==
    ASSUME WalTypeOK, NEW k \in 0..Len(buffer)
    PROVE  /\ Written(k) \in Seq(Slot) /\ PosAfter(k) \in 0..Len(Written(k))
           /\ Unwritten(k) \in Seq(Slot)
           /\ k = Len(buffer) => Unwritten(k) = <<>>
<1>1. PICK f \in Seq(Slot), b \in Seq(Slot) : f = file /\ b = buffer
  BY DEF WalTypeOK
<1>2. PICK p \in 0..Len(f) : p = pos
  BY <1>1 DEF WalTypeOK
<1>3. k \in 0..Len(b)
  BY <1>1
<1>4. SubSeq(b, 1, k) \in Seq(Slot) /\ Len(SubSeq(b, 1, k)) = k
  BY <1>3, BufferSplit
<1>5. /\ WriteAt(f, p, SubSeq(b, 1, k)) \in Seq(Slot)
      /\ p + k \in 0..Len(WriteAt(f, p, SubSeq(b, 1, k)))
  <2>1. PICK s \in Seq(Slot) : s = SubSeq(b, 1, k) /\ Len(s) = k
    BY <1>4
  <2>2. WriteAt(f, p, s) \in Seq(Slot) /\ p + Len(s) \in 0..Len(WriteAt(f, p, s))
    BY WriteAtType
  <2> QED BY <2>1, <2>2
<1>6. SubSeq(b, k + 1, Len(b)) \in Seq(Slot)
  BY <1>3, BufferSplit
<1>7. k = Len(b) => SubSeq(b, k + 1, Len(b)) = <<>>
  BY <1>3, SubSeqEmpty
<1>8. p \in 0..Len(f)
  BY <1>2
<1>9. CASE linked
  BY <1>1, <1>2, <1>5, <1>6, <1>7, <1>9 DEF Written, Unwritten, PosAfter
<1>10. CASE ~ linked
  BY <1>1, <1>2, <1>8, <1>6, <1>7, <1>10 DEF Written, Unwritten, PosAfter
<1> QED BY <1>9, <1>10

LEMMA WrittenKeeps ==
    ASSUME WalTypeOK, NEW k \in 0..Len(buffer), Clean(file, buffer, pos), damage = {}, Overwrites(k) = {}
    PROVE  /\ Clean(Written(k), Unwritten(k), PosAfter(k))
           /\ Leads(file, Written(k))
           /\ Readable(Written(k)) \o Unwritten(k) = Log
<1>1. PICK f \in Seq(Slot), b \in Seq(Slot) : f = file /\ b = buffer
  BY DEF WalTypeOK
<1>2. PICK p \in 0..Len(f) : p = pos
  BY <1>1 DEF WalTypeOK
<1>3. k \in 0..Len(b) /\ Clean(f, b, p)
  BY <1>1, <1>2
<1>0. linked
  BY DEF WalTypeOK
<1>4. k > 0 => p = Len(f)
  <2>1. ~(k > 0 /\ pos < Len(file))
    BY <1>0 DEF Overwrites
  <2> QED BY <1>1, <1>2, <2>1
<1>5. PICK w, u : w = WriteAt(f, p, SubSeq(b, 1, k)) /\ u = SubSeq(b, k + 1, Len(b))
  OBVIOUS
<1>6. Clean(w, u, p + k) /\ Leads(f, w) /\ Readable(w) \o u = Readable(f) \o b
  <2>1. /\ f \in Seq(Slot) /\ b \in Seq(Slot) /\ p \in 0..Len(f) /\ k \in 0..Len(b)
        /\ Clean(f, b, p) /\ (k > 0 => p = Len(f))
    BY <1>3, <1>4
  <2>2. WritesTo(f, b, p, k, w, u)
    BY <1>5 DEF WritesTo
  <2> QED BY <2>1, <2>2, WriteKeeps, SMTT(60)
<1>7. w = Written(k) /\ u = Unwritten(k)
  BY <1>0, <1>1, <1>2, <1>5 DEF Written, Unwritten
<1>8. p + k = PosAfter(k)
  BY <1>0, <1>2 DEF PosAfter
<1> QED BY <1>1, <1>2, <1>6, <1>7, <1>8 DEF Log

(* A step that only moved records from the buffer to the end of the file.     *)
Wrote ==
    /\ Clean(file', buffer', pos')
    /\ Leads(file, file')
    /\ Readable(file') \o buffer' = Log

LEMMA SyncStep ==
    ASSUME WalTypeOK, Sync
    PROVE  /\ WalTypeOK'
           /\ damage' = {} /\ Clean(file, buffer, pos) => damage = {} /\ Wrote
<1> DEFINE k == Len(buffer)
<1>1. k \in 0..Len(buffer) /\ open
  BY DEF WalTypeOK, Sync
<1>2. /\ file' = Written(k) /\ pos' = PosAfter(k) /\ buffer' = <<>> /\ synced' = file'
      /\ lsn' = lsn /\ open' = open /\ linked' = linked /\ older' = older
      /\ damage' = damage \cup Overwrites(k)
  BY DEF Sync, WriteOut, PosAfter
<1> HIDE DEF k
<1>3. /\ Written(k) \in Seq(Slot) /\ PosAfter(k) \in 0..Len(Written(k)) /\ Unwritten(k) = <<>>
  BY <1>1, WrittenType DEF k
<1>4. damage \cup Overwrites(k) \subseteq Damages /\ <<>> \in Seq(Slot)
  BY DEF WalTypeOK, Overwrites, Damages
<1>5. WalTypeOK'
  BY <1>2, <1>3, <1>4 DEF WalTypeOK
<1>6. ASSUME damage' = {}, Clean(file, buffer, pos) PROVE damage = {} /\ Wrote
  <2>1. damage = {} /\ Overwrites(k) = {}
    BY <1>2, <1>6
  <2>2. /\ Clean(Written(k), Unwritten(k), PosAfter(k))
        /\ Leads(file, Written(k))
        /\ Readable(Written(k)) \o Unwritten(k) = Log
    BY <1>1, <1>6, <2>1, WrittenKeeps
  <2> QED BY <1>2, <1>3, <2>1, <2>2 DEF Wrote
<1> QED BY <1>5, <1>6

LEMMA SyncFailsStep ==
    ASSUME WalTypeOK, SyncFails
    PROVE  /\ WalTypeOK'
           /\ damage' = {} /\ Clean(file, buffer, pos) => damage = {} /\ Wrote
<1>1. PICK k \in 0..Len(buffer) :
         /\ file' = Written(k) /\ pos' = PosAfter(k) /\ buffer' = Unwritten(k)
         /\ damage' = damage \cup Overwrites(k)
  BY DEF SyncFails, WriteOut, PosAfter
<1>2. synced' = synced /\ lsn' = lsn /\ open' = open /\ open /\ linked' = linked /\ older' = older
  BY DEF SyncFails
<1>3. /\ Written(k) \in Seq(Slot) /\ PosAfter(k) \in 0..Len(Written(k)) /\ Unwritten(k) \in Seq(Slot)
  BY <1>1, WrittenType
<1>4. damage \cup Overwrites(k) \subseteq Damages
  BY DEF WalTypeOK, Overwrites, Damages
<1>5. WalTypeOK'
  BY <1>1, <1>2, <1>3, <1>4 DEF WalTypeOK
<1>6. ASSUME damage' = {}, Clean(file, buffer, pos) PROVE damage = {} /\ Wrote
  <2>1. damage = {} /\ Overwrites(k) = {}
    BY <1>1, <1>6
  <2>2. /\ Clean(Written(k), Unwritten(k), PosAfter(k))
        /\ Leads(file, Written(k))
        /\ Readable(Written(k)) \o Unwritten(k) = Log
    BY <1>6, <2>1, WrittenKeeps
  <2> QED BY <1>1, <2>1, <2>2 DEF Wrote
<1> QED BY <1>5, <1>6

LEMMA CloseStep ==
    ASSUME WalTypeOK, Close
    PROVE  /\ WalTypeOK'
           /\ damage' = {} /\ Clean(file, buffer, pos) => damage = {} /\ Wrote
<1> DEFINE k == Len(buffer)
<1>1. k \in 0..Len(buffer)
  BY DEF WalTypeOK
<1>2. /\ file' = Written(k) /\ pos' = PosAfter(k) /\ buffer' = <<>> /\ synced' = synced
      /\ lsn' = lsn /\ open' = FALSE /\ linked' = linked /\ older' = older
      /\ damage' = damage \cup Overwrites(k)
  BY DEF Close, WriteOut, PosAfter
<1> HIDE DEF k
<1>3. /\ Written(k) \in Seq(Slot) /\ PosAfter(k) \in 0..Len(Written(k)) /\ Unwritten(k) = <<>>
  BY <1>1, WrittenType DEF k
<1>4. damage \cup Overwrites(k) \subseteq Damages /\ <<>> \in Seq(Slot)
  BY DEF WalTypeOK, Overwrites, Damages
<1>5. WalTypeOK'
  BY <1>2, <1>3, <1>4 DEF WalTypeOK
<1>6. ASSUME damage' = {}, Clean(file, buffer, pos) PROVE damage = {} /\ Wrote
  <2>1. damage = {} /\ Overwrites(k) = {}
    BY <1>2, <1>6
  <2>2. /\ Clean(Written(k), Unwritten(k), PosAfter(k))
        /\ Leads(file, Written(k))
        /\ Readable(Written(k)) \o Unwritten(k) = Log
    BY <1>1, <1>6, <2>1, WrittenKeeps
  <2> QED BY <1>2, <1>3, <2>1, <2>2 DEF Wrote
<1> QED BY <1>5, <1>6

LEMMA AppendFailsStep ==
    ASSUME WalTypeOK, AppendFails
    PROVE  /\ WalTypeOK'
           /\ damage' = {} /\ Clean(file, buffer, pos) => damage = {} /\ Wrote
<1>0. /\ synced' = synced /\ lsn' = lsn + 1 /\ open' = open /\ open
      /\ linked' = linked /\ older' = older
      /\ Len(buffer) \in Nat /\ \A i \in 0..(Len(buffer) - 1) : i \in 0..Len(buffer)
  BY DEF AppendFails, WalTypeOK
<1>1. PICK k \in 0..(Len(buffer) - 1), part \in {<<>>, <<Torn>>} :
         /\ file' = Written(k) /\ pos' = PosAfter(k) /\ buffer' = Unwritten(k) \o part
         /\ damage' = damage \cup Overwrites(k) \cup (IF part = <<>> THEN {} ELSE {"torn"})
  BY DEF AppendFails, WriteOut, PosAfter
<1>2. k \in 0..Len(buffer)
  BY <1>0
<1>3. /\ Written(k) \in Seq(Slot) /\ PosAfter(k) \in 0..Len(Written(k)) /\ Unwritten(k) \in Seq(Slot)
  BY <1>2, WrittenType
<1>4. damage' \subseteq Damages
  BY <1>1 DEF WalTypeOK, Overwrites, Damages
<1>5. Unwritten(k) \o part \in Seq(Slot)
  <2>1. <<>> \in Seq(Slot) /\ <<Torn>> \in Seq(Slot)
    BY DEF Slot
  <2>2. part \in Seq(Slot)
    BY <1>1, <2>1
  <2> QED BY <1>3, <2>2, ConcatProperties
<1>6. WalTypeOK'
  BY <1>0, <1>1, <1>3, <1>4, <1>5 DEF WalTypeOK
<1>7. ASSUME damage' = {}, Clean(file, buffer, pos) PROVE damage = {} /\ Wrote
  <2>1. damage = {} /\ Overwrites(k) = {} /\ part = <<>>
    BY <1>1, <1>7
  <2>2. buffer' = Unwritten(k)
    BY <1>1, <1>3, <2>1, ConcatEmptySeq
  <2>3. /\ Clean(Written(k), Unwritten(k), PosAfter(k))
        /\ Leads(file, Written(k))
        /\ Readable(Written(k)) \o Unwritten(k) = Log
    BY <1>2, <1>7, <2>1, WrittenKeeps
  <2> QED BY <1>1, <2>1, <2>2, <2>3 DEF Wrote
<1> QED BY <1>6, <1>7

LEMMA ConcatAppend ==
    ASSUME NEW S, NEW s \in Seq(S), NEW t \in Seq(S), NEW e \in S
    PROVE  s \o Append(t, e) = Append(s \o t, e)
OBVIOUS

LEMMA AppendWhole ==
    ASSUME NEW s \in Seq(Slot), Whole(s), NEW e \in Record
    PROVE  Append(s, e) \in Seq(Slot) /\ Whole(Append(s, e))
<1>1. e \in Slot /\ e # Torn /\ Len(s) \in Nat
  BY TornAssumption DEF Slot
<1>2. /\ Append(s, e) \in Seq(Slot) /\ Len(Append(s, e)) = Len(s) + 1
      /\ Append(s, e)[Len(s) + 1] = e /\ \A i \in 1..Len(s) : Append(s, e)[i] = s[i]
  BY <1>1, AppendProperties
<1>3. 1..(Len(s) + 1) = (1..Len(s)) \cup {Len(s) + 1}
  BY <1>1
<1> QED BY <1>1, <1>2, <1>3 DEF Whole

LEMMA AppendRecordStep ==
    ASSUME WalTypeOK, NEW p \in Payloads \cup {Checkpoint}, AppendRecord(p)
    PROVE  /\ WalTypeOK' /\ open /\ open' /\ lsn' = lsn + 1 /\ synced' = synced
           /\ damage' = {} /\ Clean(file, buffer, pos) =>
                /\ damage = {} /\ Clean(file', buffer', pos') /\ Leads(file, file')
                /\ Readable(file') \o buffer' = Append(Log, [lsn |-> lsn', payload |-> p])
<1> DEFINE rec == [lsn |-> lsn', payload |-> p]
<1>0. /\ synced' = synced /\ lsn' = lsn + 1 /\ open' = open /\ open /\ Len(buffer) \in Nat
      /\ linked' = linked /\ older' = older
  BY DEF AppendRecord, WalTypeOK
<1>a. rec \in Record /\ rec \in Slot
  BY <1>0 DEF Record, Slot, WalTypeOK
<1>1. PICK k \in {0, Len(buffer)} :
         /\ file' = Written(k) /\ pos' = PosAfter(k) /\ buffer' = Append(Unwritten(k), rec)
         /\ damage' = damage \cup Overwrites(k)
  BY DEF AppendRecord, WriteOut, PosAfter
<1> HIDE DEF rec
<1>2. k \in 0..Len(buffer)
  BY <1>0
<1>3. /\ Written(k) \in Seq(Slot) /\ PosAfter(k) \in 0..Len(Written(k)) /\ Unwritten(k) \in Seq(Slot)
  BY <1>2, WrittenType
<1>4. damage' \subseteq Damages
  BY <1>1 DEF WalTypeOK, Overwrites, Damages
<1>5. Append(Unwritten(k), rec) \in Seq(Slot)
  BY <1>a, <1>3, AppendProperties
<1>6. WalTypeOK'
  BY <1>0, <1>1, <1>3, <1>4, <1>5 DEF WalTypeOK
<1>7. ASSUME damage' = {}, Clean(file, buffer, pos)
      PROVE  /\ damage = {} /\ Clean(file', buffer', pos') /\ Leads(file, file')
             /\ Readable(file') \o buffer' = Append(Log, rec)
  <2>1. damage = {} /\ Overwrites(k) = {}
    BY <1>1, <1>7
  <2>3. /\ Clean(Written(k), Unwritten(k), PosAfter(k))
        /\ Leads(file, Written(k))
        /\ Readable(Written(k)) \o Unwritten(k) = Log
    BY <1>2, <1>7, <2>1, WrittenKeeps
  <2>4. PICK w, u : w = Written(k) /\ u = Unwritten(k)
    OBVIOUS
  <2>5. w \in Seq(Slot) /\ u \in Seq(Slot) /\ Whole(u)
    BY <1>3, <2>3, <2>4 DEF Clean
  <2>6. Whole(Append(u, rec))
    BY <1>a, <2>5, AppendWhole
  <2>7. Readable(w) \in Seq(Slot)
    BY <2>5, ReadableIs, RecordsWhole
  <2>8. Readable(w) \o Append(u, rec) = Append(Readable(w) \o u, rec)
    BY <1>a, <2>5, <2>7, ConcatAppend
  <2>9. Clean(w, Append(u, rec), PosAfter(k))
    BY <2>3, <2>4, <2>6 DEF Clean
  <2> QED BY <1>1, <2>1, <2>3, <2>4, <2>8, <2>9
<1> QED BY <1>0, <1>6, <1>7 DEF rec

LEMMA RemovableType ==
    ASSUME NEW f \in Seq(Slot)
    PROVE  Removable(f) \subseteq Record
<1>1. Readable(f) \in Seq(Record)
  BY ReadableIs
<1>2. ToSet(Readable(f)) \subseteq Record
  BY <1>1, SetOf
<1> QED BY <1>2 DEF Removable

LEMMA CleanupStep ==
    ASSUME WalTypeOK, Cleanup \/ CleanupReopenFails, NEW gone, gone = Removable(Written(Len(buffer)))
    PROVE  /\ WalTypeOK' /\ open /\ open' /\ lsn' = lsn /\ pos' = 0 /\ buffer' = <<>>
           /\ gone \subseteq Record
           /\ synced' = file' /\ file' \in Seq(Record)
           /\ damage \subseteq damage'
           /\ damage' = {} /\ Clean(file, buffer, pos) =>
                /\ damage = {}
                /\ ToSet(file') = ToSet(Log) \ gone
                /\ InOrder(Log) => InOrder(file')
<1> DEFINE k == Len(buffer)
<1>0. k \in 0..Len(buffer)
  BY DEF WalTypeOK
<1>1. /\ file' = Retained(Readable(Written(k)), gone) /\ synced' = file'
      /\ buffer' = <<>> /\ pos' = 0 /\ older' = Written(k)
      /\ lsn' = lsn /\ open' = open /\ open
  BY DEF Cleanup, CleanupReopenFails, Replace
<1>a. /\ damage \cup Overwrites(k) \subseteq damage'
      /\ linked' \in BOOLEAN /\ (linked' \/ "unlinked" \in damage')
      /\ damage' \subseteq damage \cup Overwrites(k) \cup {"unlinked"}
  BY DEF Cleanup, CleanupReopenFails
<1> HIDE DEF k
<1>2. /\ Written(k) \in Seq(Slot) /\ PosAfter(k) \in 0..Len(Written(k)) /\ Unwritten(k) = <<>>
  BY <1>0, WrittenType DEF k
<1>3. PICK w : w = Written(k)
  OBVIOUS
<1>4. w \in Seq(Slot)
  BY <1>2, <1>3
<1>5. PICK r : r = Readable(w)
  OBVIOUS
<1>6. r \in Seq(Record)
  BY <1>4, <1>5, ReadableIs
<1>7. gone \subseteq Record
  BY <1>3, <1>4, RemovableType DEF k
<1>8. /\ file' \in Seq(Record)
      /\ ToSet(file') = ToSet(r) \ gone
      /\ InOrder(r) => InOrder(file')
  BY <1>1, <1>3, <1>5, <1>6, RetainedKeeps
<1>9. file' \in Seq(Slot) /\ Len(file') \in Nat
  <2>1. PICK h \in Seq(Record) : h = file'
    BY <1>8
  <2> QED BY <2>1, RecordsWhole
<1>10. damage' \subseteq Damages /\ <<>> \in Seq(Slot)
  BY <1>a DEF WalTypeOK, Overwrites, Damages
<1>11. WalTypeOK'
  BY <1>1, <1>a, <1>2, <1>9, <1>10 DEF WalTypeOK
<1>12. ASSUME damage' = {}, Clean(file, buffer, pos) PROVE damage = {} /\ Log = r
  <2>1. damage = {} /\ Overwrites(k) = {}
    BY <1>a, <1>12
  <2>2. Readable(Written(k)) \o Unwritten(k) = Log
    BY <1>0, <1>12, <2>1, WrittenKeeps
  <2>3. r \o <<>> = Log
    BY <1>2, <1>3, <1>5, <2>2
  <2>4. r \o <<>> = r
    BY <1>6, ConcatEmptySeq
  <2> QED BY <2>1, <2>3, <2>4
<1> QED BY <1>1, <1>a, <1>7, <1>8, <1>11, <1>12

(* A torn record at the end of a file does not change what is read before it. *)
LEMMA ReadableTorn ==
    ASSUME NEW g \in Seq(Slot)
    PROVE  Append(g, Torn) \in Seq(Slot) /\ Readable(Append(g, Torn)) = Readable(g)
<1>1. PICK r : r = Readable(g)
  OBVIOUS
<1>2. r \in Seq(Record) /\ Leads(r, g) /\ (Len(r) < Len(g) => g[Len(r) + 1] = Torn)
  BY <1>1, ReadableIs
<1>3. PICK h : h = Append(g, Torn)
  OBVIOUS
<1>4. /\ h \in Seq(Slot) /\ Len(h) = Len(g) + 1 /\ Len(g) \in Nat /\ Len(r) \in Nat
      /\ h[Len(g) + 1] = Torn /\ \A i \in 1..Len(g) : h[i] = g[i]
  BY <1>2, <1>3, AppendProperties DEF Slot
<1>5. Leads(r, h)
  BY <1>2, <1>4 DEF Leads
<1>6. Len(r) < Len(h) => h[Len(r) + 1] = Torn
  <2>1. CASE Len(r) < Len(g)
    <3>1. Len(r) + 1 \in 1..Len(g)
      BY <1>4, <2>1
    <3> QED BY <1>2, <1>4, <2>1, <3>1
  <2>2. CASE Len(r) = Len(g)
    BY <1>4, <2>2
  <2> QED BY <1>2, <1>4, <2>1, <2>2 DEF Leads
<1>7. Readable(h) = r
  BY <1>2, <1>4, <1>5, <1>6, ReadableUnique
<1> QED BY <1>1, <1>3, <1>4, <1>7

(* What a crash may leave of file f when s was synced.                        *)
Cut(g, f, s) ==
    /\ g \in Seq(Slot)
    /\ Leads(s, f) => Leads(s, g) /\ Leads(g, f)

LEMMA CrashCuts ==
    ASSUME NEW f \in Seq(Slot), NEW s \in Seq(Slot), NEW n \in Len(s)..Len(f), NEW fresh,
           NEW g, g = [i \in 1..n |-> IF i > Len(s) \/ i \in fresh THEN f[i] ELSE s[i]]
    PROVE  Cut(g, f, s)
<1>1. Len(f) \in Nat /\ Len(s) \in Nat /\ n \in Nat /\ Len(s) <= n /\ n <= Len(f)
  OBVIOUS
<1>2. ASSUME NEW i \in 1..n
      PROVE  /\ i \in 1..Len(f) /\ (i > Len(s) \/ i \in 1..Len(s)) /\ g[i] \in Slot
             /\ g[i] = f[i] \/ (i \in 1..Len(s) /\ g[i] = s[i])
  <2>1. i \in 1..Len(f) /\ (i > Len(s) \/ i \in 1..Len(s))
    BY <1>1
  <2>2. g[i] = IF i > Len(s) \/ i \in fresh THEN f[i] ELSE s[i]
    OBVIOUS
  <2>3. f[i] \in Slot /\ (i \in 1..Len(s) => s[i] \in Slot)
    BY <2>1
  <2> QED BY <2>1, <2>2, <2>3
<1>3. g \in [1..n -> Slot]
  BY <1>2
<1>4. g \in Seq(Slot) /\ Len(g) = n
  BY <1>1, <1>3
<1>5. ASSUME Leads(s, f) PROVE Leads(s, g) /\ Leads(g, f)
  <2>1. \A i \in 1..Len(s) : s[i] = f[i]
    BY <1>5 DEF Leads
  <2>2. \A i \in 1..n : g[i] = f[i]
    BY <1>2, <2>1
  <2>3. \A i \in 1..Len(s) : i \in 1..n
    BY <1>1
  <2> QED BY <1>1, <1>4, <2>1, <2>2, <2>3 DEF Leads
<1> QED BY <1>4, <1>5 DEF Cut

LEMMA CrashLeaves ==
    ASSUME WalTypeOK,
           \E n \in Len(synced)..Len(file), New \in SUBSET (1..Len(synced)) :
             file' = CrashImage(n, New) \/ file' = Append(CrashImage(n, New), Torn)
    PROVE  /\ file' \in Seq(Slot)
           /\ Leads(synced, file) =>
                Leads(synced, file') /\ Leads(Readable(file'), Readable(file))
<1>2. PICK f \in Seq(Slot), s \in Seq(Slot) : f = file /\ s = synced
  BY DEF WalTypeOK
<1>3. PICK n \in Len(s)..Len(f), fresh \in SUBSET (1..Len(s)) :
         LET g == [i \in 1..n |-> IF i > Len(s) \/ i \in fresh THEN f[i] ELSE s[i]]
         IN  file' = g \/ file' = Append(g, Torn)
  <2>2. PICK n \in Len(synced)..Len(file), New \in SUBSET (1..Len(synced)) :
           file' = CrashImage(n, New) \/ file' = Append(CrashImage(n, New), Torn)
    OBVIOUS
  <2>3. PICK g : g = CrashImage(n, New)
    OBVIOUS
  <2>4. g = [i \in 1..n |-> IF i > Len(s) \/ i \in New THEN f[i] ELSE s[i]]
    BY <1>2, <2>3 DEF CrashImage
  <2>5. n \in Len(s)..Len(f) /\ New \in SUBSET (1..Len(s))
    BY <1>2
  <2> QED BY <2>2, <2>3, <2>4, <2>5
<1>4. PICK g : g = [i \in 1..n |-> IF i > Len(s) \/ i \in fresh THEN f[i] ELSE s[i]]
  OBVIOUS
<1>5. Cut(g, f, s)
  BY <1>4, CrashCuts
<1>6. PICK h : h = file'
  OBVIOUS
<1>7. h = g \/ h = Append(g, Torn)
  BY <1>3, <1>4, <1>6
<1>8. g \in Seq(Slot) /\ h \in Seq(Slot) /\ Readable(h) = Readable(g)
  BY <1>5, <1>7, ReadableTorn DEF Cut
<1>9. Leads(g, h)
  <2>1. CASE h = g
    BY <1>8, <2>1, LeadsSelf
  <2>2. CASE h = Append(g, Torn)
    BY <1>8, <2>2 DEF Leads
  <2> QED BY <1>7, <2>1, <2>2
<1>10. ASSUME Leads(s, f) PROVE Leads(s, h) /\ Leads(Readable(h), Readable(f))
  <2>1. Leads(s, g) /\ Leads(g, f)
    BY <1>5, <1>10 DEF Cut
  <2>2. Leads(s, h)
    BY <1>8, <1>9, <2>1, LeadsTrans
  <2>3. Leads(Readable(g), Readable(f))
    BY <1>8, <2>1, ReadableMono
  <2> QED BY <1>8, <2>2, <2>3
<1> QED BY <1>2, <1>6, <1>8, <1>10

LEMMA CrashStep ==
    ASSUME WalTypeOK, Crash
    PROVE  /\ WalTypeOK' /\ synced' = file' /\ pos' = 0 /\ buffer' = <<>> /\ ~ open'
           /\ lsn' = lsn /\ damage \subseteq damage'
           /\ damage' = {} /\ Leads(synced, file) =>
                Leads(synced, file') /\ Leads(Readable(file'), Readable(file))
<1>1. /\ synced' = file' /\ pos' = 0 /\ buffer' = <<>> /\ open' = FALSE
      /\ lsn' = lsn /\ linked' = linked /\ older' = <<>>
  BY DEF Crash
<1>2. damage \subseteq damage' /\ damage' \subseteq Damages /\ (linked \/ "unlinked" \in damage')
  BY DEF Crash, WalTypeOK, Damages
<1>3. CASE file' = older /\ damage' # {}
  <2>1. file' \in Seq(Slot) /\ Len(file') \in Nat /\ <<>> \in Seq(Slot) /\ 0 \in 0..Len(file')
    BY <1>3 DEF WalTypeOK
  <2>2. WalTypeOK'
    BY <1>1, <1>2, <2>1 DEF WalTypeOK
  <2> QED BY <1>1, <1>2, <1>3, <2>2
<1>4. CASE \E n \in Len(synced)..Len(file), New \in SUBSET (1..Len(synced)) :
             file' = CrashImage(n, New) \/ file' = Append(CrashImage(n, New), Torn)
  <2>1. file' \in Seq(Slot) /\ (Leads(synced, file) =>
           Leads(synced, file') /\ Leads(Readable(file'), Readable(file)))
    BY <1>4, CrashLeaves
  <2>2. file' \in Seq(Slot) /\ Len(file') \in Nat /\ <<>> \in Seq(Slot) /\ 0 \in 0..Len(file')
    BY <2>1
  <2>3. WalTypeOK'
    BY <1>1, <1>2, <2>2 DEF WalTypeOK
  <2> QED BY <1>1, <1>2, <2>1, <2>3
<1> QED BY <1>3, <1>4 DEF Crash

LEMMA OpenStep ==
    ASSUME WalTypeOK, Open
    PROVE  /\ WalTypeOK' /\ file' = file /\ synced' = synced /\ buffer = <<>> /\ buffer' = <<>>
           /\ pos' = 0 /\ open' /\ damage' = damage /\ lsn' = FindLastLsn(file)
<1>1. /\ file' = file /\ synced' = synced /\ buffer = <<>> /\ buffer' = <<>>
      /\ pos' = 0 /\ open' = TRUE /\ damage' = damage /\ lsn' = FindLastLsn(file)
      /\ linked' = TRUE /\ older' = older
  BY DEF Open, WalTypeOK
<1>2. FindLastLsn(file) \in Nat
  <2>1. PICK r \in Seq(Record) : r = Readable(file)
    BY ReadableIs DEF WalTypeOK
  <2>2. r # <<>> => Len(r) \in 1..Len(r)
    OBVIOUS
  <2>3. r # <<>> => Last(r) \in Record
    BY <2>2 DEF Last
  <2> QED BY <2>1, <2>3 DEF FindLastLsn, Record
<1>3. 0 \in 0..Len(file)
  BY DEF WalTypeOK
<1> QED BY <1>1, <1>2, <1>3 DEF WalTypeOK

-----------------------------------------------------------------------------
(* The group commit.                                                          *)

(* The records that a recovery now would read, or that were cleaned up.       *)
Durable == ToSet(Readable(synced)) \cup cleaned

NoNewOk == \A q \in Payloads : answer'[q].is = "ok" => answer'[q] = answer[q]

LEMMA KeptMoves ==
    ASSUME Kept, NoNewOk, Durable \subseteq Durable'
    PROVE  Kept'
BY DEF Kept, NoNewOk, Durable

LEMMA DurableGrows ==
    ASSUME synced \in Seq(Slot), synced' \in Seq(Slot), Leads(synced, synced'),
           cleaned \subseteq cleaned'
    PROVE  Durable \subseteq Durable'
<1>1. PICK s \in Seq(Slot), t \in Seq(Slot) : s = synced /\ t = synced'
  OBVIOUS
<1>2. Leads(s, t)
  BY <1>1
<1>3. Readable(s) \in Seq(Record) /\ Readable(t) \in Seq(Record) /\ Leads(Readable(s), Readable(t))
  BY <1>2, ReadableIs, ReadableMono
<1>4. ToSet(Readable(s)) \subseteq ToSet(Readable(t))
  <2>1. PICK u \in Seq(Record), v \in Seq(Record) : u = Readable(s) /\ v = Readable(t)
    BY <1>3
  <2>2. Leads(u, v)
    BY <1>3, <2>1
  <2>3. ToSet(u) \subseteq ToSet(v)
    BY <2>2, LeadsSet
  <2> QED BY <2>1, <2>3
<1> QED BY <1>1, <1>4 DEF Durable

LEMMA WroteSane ==
    ASSUME WalTypeOK, WalTypeOK', Sane, Wrote, synced' = synced \/ synced' = file',
           open' => open /\ lsn <= lsn', ToSet(pending') \subseteq ToSet(pending), cleaned' = cleaned
    PROVE  Sane' /\ Log' = Log /\ Durable \subseteq Durable'
<1>1. Log' = Log
  BY DEF Wrote, Log
<1>2. Leads(synced, file) /\ Leads(file, file')
  BY DEF Sane, Wrote
<1>3. /\ file \in Seq(Slot) /\ synced \in Seq(Slot) /\ synced' \in Seq(Slot) /\ file' \in Seq(Slot)
      /\ lsn \in Nat /\ lsn' \in Nat
  BY DEF WalTypeOK
<1>4. Leads(synced, file')
  <2>1. PICK s \in Seq(Slot), f \in Seq(Slot), g \in Seq(Slot) : s = synced /\ f = file /\ g = file'
    BY <1>3
  <2>2. Leads(s, g)
    BY <1>2, <2>1, LeadsTrans
  <2> QED BY <2>1, <2>2
<1>5. Leads(file', file') /\ Leads(synced, synced)
  BY <1>3, LeadsSelf
<1>6. Leads(synced', file')
  BY <1>4, <1>5
<1>7. Leads(synced, synced')
  BY <1>4, <1>5
<1>8. open' => UpTo(Log, lsn')
  <2> HAVE open'
  <2>1. UpTo(Log, lsn) /\ lsn <= lsn'
    BY DEF Sane
  <2>2. Log \in Seq(Record)
    BY LogType DEF Sane, Clean
  <2>3. \A i \in 1..Len(Log) : Log[i].lsn \in Nat
    BY <2>2, RecordLsn
  <2> HIDE DEF Log
  <2> QED BY <1>3, <2>1, <2>3 DEF UpTo
<1>9. Sane'
  <2>1. (Clean(file, buffer, pos))'
    BY DEF Wrote
  <2>2. InOrder(Log)
    BY DEF Sane
  <2>3. \A r \in ToSet(pending') : RecordOf(r) \in ToSet(Log) \cup cleaned
    BY DEF Sane
  <2> HIDE DEF Log
  <2> QED BY <1>1, <1>6, <1>8, <2>1, <2>2, <2>3 DEF Sane
<1> QED BY <1>1, <1>3, <1>7, <1>9, DurableGrows

(* The state of the callers and of the task.                                  *)
AnswerSet ==
    [is : {"none", "queued", "pending", "failed", "abandoned", "ok"}, lsn : Nat]
PendingSet == [lsn : Nat, req : Payloads]
TaskTypeOK ==
    /\ queue \in Seq(Payloads) /\ Len(queue) <= ChannelCapacity
    /\ pending \in Seq(PendingSet) /\ Len(pending) <= BatchSize
    /\ answer \in [Payloads -> AnswerSet]
    /\ closing \in BOOLEAN
    /\ cleaned \subseteq Record
    /\ checkpoints \in 0..MaxCheckpoints /\ crashes \in 0..MaxCrashes

LEMMA TypeSplits ==
    TypeOK <=> WalTypeOK /\ TaskTypeOK
BY DEF TypeOK, TaskTypeOK, AnswerSet, PendingSet

LEMMA TypeSplitsNext ==
    TypeOK' <=> WalTypeOK' /\ TaskTypeOK'
BY TypeSplits, PTL

LEMMA KnownType ==
    /\ \A x \in {"none", "queued", "pending", "failed", "abandoned"} :
          Known(x) \in AnswerSet /\ Known(x).is # "ok"
    /\ \A n \in Nat : Ok(n) \in AnswerSet /\ Ok(n).lsn = n
BY DEF Known, Ok, AnswerSet

LEMMA InitInv ==
    ASSUME Init
    PROVE  WalInv
<1>1. /\ file = <<>> /\ synced = <<>> /\ buffer = <<>> /\ pos = 0 /\ lsn = 0 /\ open = TRUE
      /\ linked = TRUE /\ older = <<>> /\ damage = {} /\ queue = <<>> /\ pending = <<>> /\ closing = FALSE /\ cleaned = {}
      /\ checkpoints = 0 /\ crashes = 0 /\ answer = [q \in Payloads |-> Known("none")]
  BY DEF Init, WalInit
<1>2. <<>> \in Seq(Slot) /\ <<>> \in Seq(Payloads) /\ <<>> \in Seq(PendingSet) /\ <<>> \in Seq(Record)
  OBVIOUS
<1>3. WalTypeOK
  BY <1>1, <1>2 DEF WalTypeOK
<1>4. answer \in [Payloads -> AnswerSet]
  BY <1>1, KnownType
<1>5. TaskTypeOK
  <2>1. /\ Len(<<>>) = 0 /\ 0 <= ChannelCapacity /\ 0 <= BatchSize
        /\ 0 \in 0..MaxCheckpoints /\ 0 \in 0..MaxCrashes
    BY BoundsAssumption
  <2>2. cleaned \subseteq Record /\ closing \in BOOLEAN
    BY <1>1
  <2> QED BY <1>1, <1>2, <1>4, <2>1, <2>2 DEF TaskTypeOK
<1>6. Readable(<<>>) = <<>>
  <2>1. PICK e \in Seq(Slot) : e = <<>>
    BY <1>2
  <2>2. Whole(e)
    BY <2>1 DEF Whole
  <2>3. Readable(e) = e
    BY <2>2, WholeReadable
  <2> QED BY <2>1, <2>3
<1>7. Log = <<>>
  <2>1. <<>> \o <<>> = <<>>
    BY <1>2, ConcatEmptySeq
  <2> QED BY <1>1, <1>6, <2>1 DEF Log
<1>8. ToSet(pending) = {}
  BY <1>1 DEF ToSet
<1>9. Sane
  <2> HIDE DEF Log
  <2> QED BY <1>1, <1>7, <1>8 DEF Sane, Clean, Whole, Leads, InOrder, UpTo
<1>10. Kept
  BY <1>1, KnownType DEF Kept
<1>11. CanClose
  BY <1>1 DEF CanClose
<1> QED BY <1>3, <1>5, <1>9, <1>10, <1>11, TypeSplits DEF WalInv, Undamaged

(* A step that leaves the log and the task's batch alone.                     *)
LEMMA LogUntouched ==
    ASSUME WalInv, UNCHANGED walVars, TaskTypeOK', CanClose', pending' = pending, cleaned' = cleaned,
           NoNewOk
    PROVE  WalInv'
<1>1. /\ file' = file /\ synced' = synced /\ buffer' = buffer /\ pos' = pos /\ lsn' = lsn
      /\ open' = open /\ linked' = linked /\ older' = older /\ damage' = damage
  BY DEF walVars
<1>2. WalTypeOK /\ (damage = {} => Undamaged)
  BY TypeSplits DEF WalInv
<1>3. WalTypeOK'
  BY <1>1, <1>2 DEF WalTypeOK
<1>4. Log' = Log
  BY <1>1 DEF Log
<1>5. Sane => Sane'
  <2> HIDE DEF Log
  <2> QED BY <1>1, <1>4 DEF Sane
<1>6. Durable' = Durable
  BY <1>1 DEF Durable
<1>7. Kept => Kept'
  BY <1>6, KeptMoves
<1> QED BY <1>1, <1>2, <1>3, <1>5, <1>7, TypeSplitsNext DEF WalInv, Undamaged

LEMMA SubmitInv ==
    ASSUME WalInv, NEW q \in Payloads, Submit(q)
    PROVE  WalInv'
<1>1. TaskTypeOK
  BY TypeSplits DEF WalInv
<1>2. /\ UNCHANGED walVars /\ pending' = pending /\ closing' = closing /\ cleaned' = cleaned
      /\ checkpoints' = checkpoints /\ crashes' = crashes
      /\ Len(queue) < ChannelCapacity /\ queue' = Append(queue, q)
      /\ answer' = [answer EXCEPT ![q] = Known("queued")]
  BY DEF Submit, bounds
<1>3. Known("queued") \in AnswerSet /\ Known("queued").is # "ok"
  BY KnownType
<1>4. queue' \in Seq(Payloads) /\ Len(queue') <= ChannelCapacity
  BY <1>1, <1>2, BoundsAssumption DEF TaskTypeOK
<1>5. answer' \in [Payloads -> AnswerSet] /\ NoNewOk
  BY <1>1, <1>2, <1>3 DEF TaskTypeOK, NoNewOk
<1>6. TaskTypeOK'
  BY <1>1, <1>2, <1>4, <1>5 DEF TaskTypeOK
<1>7. CanClose'
  BY <1>2 DEF WalInv, CanClose, walVars
<1> QED BY <1>2, <1>5, <1>6, <1>7, LogUntouched

LEMMA AbandonInv ==
    ASSUME WalInv, NEW q \in Payloads, Abandon(q)
    PROVE  WalInv'
<1>1. TaskTypeOK
  BY TypeSplits DEF WalInv
<1>2. /\ UNCHANGED walVars /\ pending' = pending /\ closing' = closing /\ cleaned' = cleaned
      /\ checkpoints' = checkpoints /\ crashes' = crashes /\ queue' = queue
      /\ answer' = [answer EXCEPT ![q] = Known("abandoned")]
  BY DEF Abandon, bounds
<1>3. Known("abandoned") \in AnswerSet /\ Known("abandoned").is # "ok"
  BY KnownType
<1>5. answer' \in [Payloads -> AnswerSet] /\ NoNewOk
  BY <1>1, <1>2, <1>3 DEF TaskTypeOK, NoNewOk
<1>6. TaskTypeOK'
  BY <1>1, <1>2, <1>5 DEF TaskTypeOK
<1>7. CanClose'
  BY <1>2 DEF WalInv, CanClose, walVars
<1> QED BY <1>2, <1>5, <1>6, <1>7, LogUntouched

LEMMA DropSenderInv ==
    ASSUME WalInv, DropSender
    PROVE  WalInv'
<1>1. TaskTypeOK
  BY TypeSplits DEF WalInv
<1>2. /\ UNCHANGED walVars /\ pending' = pending /\ closing' = TRUE /\ cleaned' = cleaned
      /\ checkpoints' = checkpoints /\ crashes' = crashes /\ queue' = queue /\ answer' = answer
  BY DEF DropSender, bounds
<1>3. TaskTypeOK' /\ NoNewOk
  BY <1>1, <1>2 DEF TaskTypeOK, NoNewOk
<1>4. CanClose'
  BY <1>2 DEF DropSender, CanClose
<1> QED BY <1>2, <1>3, <1>4, LogUntouched

-----------------------------------------------------------------------------
(* Appending.                                                                 *)

LEMMA AppendInOrder ==
    ASSUME NEW s \in Seq(Record), NEW n \in Nat, InOrder(s), UpTo(s, n),
           NEW e \in Record, e.lsn = n + 1
    PROVE  /\ InOrder(Append(s, e)) /\ UpTo(Append(s, e), n + 1)
           /\ ToSet(Append(s, e)) = ToSet(s) \cup {e}
<1>1. PICK h : h = Append(s, e)
  OBVIOUS
<1>2. /\ h \in Seq(Record) /\ Len(s) \in Nat /\ Len(h) = Len(s) + 1
      /\ h[Len(s) + 1] = e /\ \A i \in 1..Len(s) : h[i] = s[i]
  BY <1>1, AppendProperties
<1>3. 1..Len(h) = (1..Len(s)) \cup {Len(s) + 1}
  BY <1>2
<1>4. \A i \in 1..Len(s) : s[i].lsn \in Nat /\ s[i].lsn <= n
  BY RecordLsn DEF UpTo
<1>5. InOrder(h)
  <2>1. SUFFICES ASSUME NEW a \in 1..Len(h), NEW b \in 1..Len(h), a < b
                 PROVE  h[a].lsn < h[b].lsn
    BY DEF InOrder
  <2>2. a \in 1..Len(s)
    BY <1>2, <2>1
  <2>3. CASE b \in 1..Len(s)
    BY <1>2, <2>1, <2>2, <2>3 DEF InOrder
  <2>4. CASE b = Len(s) + 1
    <3>1. h[a] = s[a] /\ h[b] = e
      BY <1>2, <2>2, <2>4
    <3>2. s[a].lsn \in Nat /\ s[a].lsn <= n
      BY <1>4, <2>2
    <3> QED BY <3>1, <3>2
  <2> QED BY <1>3, <2>3, <2>4
<1>6. UpTo(h, n + 1)
  <2> SUFFICES ASSUME NEW a \in 1..Len(h) PROVE h[a].lsn <= n + 1
    BY DEF UpTo
  <2>1. CASE a \in 1..Len(s)
    <3>1. h[a] = s[a] /\ s[a].lsn \in Nat /\ s[a].lsn <= n
      BY <1>2, <1>4, <2>1
    <3> QED BY <3>1
  <2>2. CASE a = Len(s) + 1
    BY <1>2, <2>2
  <2> QED BY <1>3, <2>1, <2>2
<1>7. ToSet(h) = ToSet(s) \cup {e}
  <2>1. DOMAIN h = 1..Len(h) /\ DOMAIN s = 1..Len(s)
    BY <1>2
  <2> QED BY <1>2, <1>3, <2>1, SetOf
<1> QED BY <1>1, <1>5, <1>6, <1>7

(* The log after one more record, which may wait for its answer.              *)
Appended(p) ==
    /\ Clean(file', buffer', pos') /\ Leads(file, file')
    /\ Readable(file') \o buffer' = Append(Log, [lsn |-> lsn', payload |-> p])
    /\ \A r \in ToSet(pending') :
          r \in ToSet(pending) \/ RecordOf(r) = [lsn |-> lsn', payload |-> p]

LEMMA AppendedSane ==
    ASSUME WalTypeOK, WalTypeOK', Sane, open, NEW p \in Payloads \cup {Checkpoint}, Appended(p),
           lsn' = lsn + 1, synced' = synced, cleaned' = cleaned
    PROVE  Sane'
<1>1. PICK l, e, n : l = Log /\ e = [lsn |-> lsn', payload |-> p] /\ n = lsn
  OBVIOUS
<1>2. l \in Seq(Record) /\ n \in Nat /\ InOrder(l) /\ UpTo(l, n)
  <2>1. Whole(buffer) /\ InOrder(Log) /\ UpTo(Log, lsn)
    BY DEF Sane, Clean
  <2>2. Log \in Seq(Record)
    BY <2>1, LogType
  <2>3. lsn \in Nat
    BY DEF WalTypeOK
  <2> QED BY <1>1, <2>1, <2>2, <2>3
<1>3. e \in Record /\ e.lsn = n + 1
  BY <1>1, <1>2 DEF Record
<1>4. InOrder(Append(l, e)) /\ UpTo(Append(l, e), n + 1) /\ ToSet(Append(l, e)) = ToSet(l) \cup {e}
  BY <1>2, <1>3, AppendInOrder
<1>5. Log' = Append(l, e)
  BY <1>1 DEF Appended, Log
<1>6. Leads(synced', file')
  <2>1. PICK s \in Seq(Slot), f \in Seq(Slot), g \in Seq(Slot) : s = synced /\ f = file /\ g = file'
    BY DEF WalTypeOK
  <2>2. Leads(s, f) /\ Leads(f, g)
    BY <2>1 DEF Sane, Appended
  <2>3. Leads(s, g)
    BY <2>2, LeadsTrans
  <2> QED BY <2>1, <2>3
<1>7. \A r \in ToSet(pending') : RecordOf(r) \in ToSet(Log)' \cup cleaned'
  <2>1. ToSet(Log)' = ToSet(l) \cup {e}
    BY <1>4, <1>5
  <2>2. \A r \in ToSet(pending) : RecordOf(r) \in ToSet(l) \cup cleaned
    BY <1>1 DEF Sane
  <2>3. \A r \in ToSet(pending') : r \in ToSet(pending) \/ RecordOf(r) = e
    BY <1>1 DEF Appended
  <2> QED BY <2>1, <2>2, <2>3
<1>8. InOrder(Log)' /\ UpTo(Log, lsn)'
  BY <1>1, <1>4, <1>5
<1> HIDE DEF Log
<1> QED BY <1>6, <1>7, <1>8 DEF Sane, Appended

(* What a record appended to the log needs to keep the invariant.             *)
LEMMA AppendedInv ==
    ASSUME WalInv, NEW p \in Payloads \cup {Checkpoint}, AppendRecord(p), TaskTypeOK', CanClose',
           cleaned' = cleaned, NoNewOk,
           \A r \in ToSet(pending') :
              r \in ToSet(pending) \/ RecordOf(r) = [lsn |-> lsn', payload |-> p]
    PROVE  WalInv'
<1>1. WalTypeOK /\ (damage = {} => Undamaged)
  BY TypeSplits DEF WalInv
<1>2. /\ WalTypeOK' /\ open /\ lsn' = lsn + 1 /\ synced' = synced
      /\ damage' = {} /\ Clean(file, buffer, pos) =>
           /\ damage = {} /\ Clean(file', buffer', pos') /\ Leads(file, file')
           /\ Readable(file') \o buffer' = Append(Log, [lsn |-> lsn', payload |-> p])
  BY <1>1, AppendRecordStep
<1>3. damage \subseteq damage'
  BY DEF AppendRecord
<1>4. ASSUME damage' = {} PROVE Undamaged'
  <2>1. Undamaged /\ Sane /\ Kept /\ Clean(file, buffer, pos)
    BY <1>1, <1>3, <1>4 DEF Undamaged, Sane
  <2>2. Appended(p)
    BY <1>2, <1>4, <2>1 DEF Appended
  <2>3. Sane'
    BY <1>1, <1>2, <2>1, <2>2, AppendedSane
  <2>4. Durable' = Durable
    BY <1>2 DEF Durable
  <2> QED BY <2>1, <2>3, <2>4, KeptMoves DEF Undamaged
<1> QED BY <1>2, <1>4, TypeSplitsNext DEF WalInv

LEMMA QueueHead ==
    ASSUME TaskTypeOK, queue # <<>>
    PROVE  /\ Head(queue) \in Payloads /\ Tail(queue) \in Seq(Payloads)
           /\ Len(Tail(queue)) <= ChannelCapacity
<1>1. queue \in Seq(Payloads) /\ Len(queue) <= ChannelCapacity /\ Len(queue) \in Nat
  BY DEF TaskTypeOK
<1>2. Head(queue) \in Payloads /\ Tail(queue) \in Seq(Payloads) /\ Len(Tail(queue)) = Len(queue) - 1
  BY <1>1
<1> QED BY <1>1, <1>2, BoundsAssumption

(* An answer that goes from "queued" to x is not a new "ok".                  *)
LEMMA AnswerMoves ==
    ASSUME TaskTypeOK, NEW q \in Payloads, NEW x \in {"pending", "failed"},
           answer' = [answer EXCEPT ![q] = IF @.is = "queued" THEN Known(x) ELSE @]
    PROVE  answer' \in [Payloads -> AnswerSet] /\ NoNewOk
<1>1. Known(x) \in AnswerSet /\ Known(x).is # "ok"
  BY KnownType
<1>2. answer \in [Payloads -> AnswerSet]
  BY DEF TaskTypeOK
<1> QED BY <1>1, <1>2 DEF NoNewOk

LEMMA ReceiveAppendsInv ==
    ASSUME WalInv, queue # <<>>, ~ BatchFull, queue' = Tail(queue), ReceiveAppends,
           closing' = closing, cleaned' = cleaned, checkpoints' = checkpoints, crashes' = crashes
    PROVE  WalInv'
<1>1. TaskTypeOK /\ WalTypeOK
  BY TypeSplits DEF WalInv
<1>2. PICK q : q = Head(queue)
  OBVIOUS
<1>3. q \in Payloads /\ queue' \in Seq(Payloads) /\ Len(queue') <= ChannelCapacity
  BY <1>1, <1>2, QueueHead
<1>4. AppendRecord(q) /\ pending' = Append(pending, [lsn |-> lsn', req |-> q])
  BY <1>2 DEF ReceiveAppends
<1>5. answer' = [answer EXCEPT ![q] = IF @.is = "queued" THEN Known("pending") ELSE @]
  BY <1>2 DEF ReceiveAppends
<1>6. answer' \in [Payloads -> AnswerSet] /\ NoNewOk
  BY <1>1, <1>3, <1>5, AnswerMoves
<1>7. PICK e : e = [lsn |-> lsn', req |-> q]
  OBVIOUS
<1>8. e \in PendingSet /\ RecordOf(e) = [lsn |-> lsn', payload |-> q]
  <2>1. lsn' \in Nat
    BY <1>1, <1>4 DEF AppendRecord, WalTypeOK
  <2> QED BY <1>3, <1>7, <2>1 DEF PendingSet, RecordOf
<1>9. /\ pending' \in Seq(PendingSet) /\ Len(pending') <= BatchSize
      /\ \A r \in ToSet(pending') : r \in ToSet(pending) \/ r = e
  <2>1. PICK s \in Seq(PendingSet) : s = pending
    BY <1>1 DEF TaskTypeOK
  <2>2. PICK h : h = Append(s, e)
    OBVIOUS
  <2>3. /\ h \in Seq(PendingSet) /\ Len(s) \in Nat /\ Len(h) = Len(s) + 1
        /\ h[Len(s) + 1] = e /\ \A i \in 1..Len(s) : h[i] = s[i]
    BY <1>8, <2>2, AppendProperties
  <2>4. h = pending'
    BY <1>4, <1>7, <2>1, <2>2
  <2>5. Len(s) < BatchSize
    BY <2>1, <2>3, BoundsAssumption DEF BatchFull
  <2>6. Len(h) <= BatchSize
    BY <2>3, <2>5, BoundsAssumption
  <2>7. DOMAIN h = (1..Len(s)) \cup {Len(s) + 1} /\ DOMAIN s = 1..Len(s)
    BY <2>3
  <2>8. \A r \in ToSet(h) : r \in ToSet(s) \/ r = e
    BY <2>3, <2>7, SetOf
  <2> QED BY <2>1, <2>3, <2>4, <2>6, <2>8
<1>10. TaskTypeOK'
  BY <1>1, <1>3, <1>6, <1>9 DEF TaskTypeOK
<1>11. CanClose'
  BY <1>4 DEF WalInv, CanClose, AppendRecord
<1> QED BY <1>3, <1>4, <1>6, <1>8, <1>9, <1>10, <1>11, AppendedInv

LEMMA WriteCheckpointInv ==
    ASSUME WalInv, WriteCheckpoint
    PROVE  WalInv'
<1>1. TaskTypeOK
  BY TypeSplits DEF WalInv
<1>2. /\ AppendRecord(Checkpoint) /\ queue' = queue /\ pending' = pending /\ answer' = answer
      /\ closing' = closing /\ cleaned' = cleaned /\ crashes' = crashes
      /\ checkpoints < MaxCheckpoints /\ checkpoints' = checkpoints + 1
  BY DEF WriteCheckpoint, taskVars
<1>3. checkpoints' \in 0..MaxCheckpoints
  BY <1>1, <1>2, BoundsAssumption DEF TaskTypeOK
<1>4. TaskTypeOK' /\ NoNewOk
  BY <1>1, <1>2, <1>3 DEF TaskTypeOK, NoNewOk
<1>5. \A r \in ToSet(pending') : r \in ToSet(pending)
  BY <1>2
<1>6. CanClose'
  BY <1>2 DEF WalInv, CanClose, AppendRecord
<1> QED BY <1>2, <1>4, <1>5, <1>6, AppendedInv

-----------------------------------------------------------------------------
(* Writing out.                                                               *)

(* A step that writes out and answers nobody with a number.                   *)
LEMMA WroteInv ==
    ASSUME WalInv, WalTypeOK', TaskTypeOK', CanClose', damage \subseteq damage',
           damage' = {} /\ Clean(file, buffer, pos) => damage = {} /\ Wrote,
           synced' = synced \/ synced' = file', open' => open /\ lsn <= lsn',
           ToSet(pending') \subseteq ToSet(pending), cleaned' = cleaned, NoNewOk
    PROVE  WalInv'
<1>1. WalTypeOK /\ (damage = {} => Undamaged)
  BY TypeSplits DEF WalInv
<1>2. ASSUME damage' = {} PROVE Undamaged'
  <2>1. Sane /\ Kept /\ Clean(file, buffer, pos)
    BY <1>1, <1>2 DEF Undamaged, Sane
  <2>2. Wrote
    BY <1>2, <2>1
  <2>3. Sane' /\ Durable \subseteq Durable'
    BY <1>1, <2>1, <2>2, WroteSane
  <2> QED BY <2>1, <2>3, KeptMoves DEF Undamaged
<1> QED BY <1>2, TypeSplitsNext DEF WalInv

LEMMA ReceiveFailsInv ==
    ASSUME WalInv, queue # <<>>, queue' = Tail(queue), ReceiveFails,
           closing' = closing, cleaned' = cleaned, checkpoints' = checkpoints, crashes' = crashes
    PROVE  WalInv'
<1>1. TaskTypeOK /\ WalTypeOK
  BY TypeSplits DEF WalInv
<1>2. PICK q : q = Head(queue)
  OBVIOUS
<1>3. q \in Payloads /\ queue' \in Seq(Payloads) /\ Len(queue') <= ChannelCapacity
  BY <1>1, <1>2, QueueHead
<1>4. AppendFails /\ pending' = pending
  BY DEF ReceiveFails
<1>5. answer' = [answer EXCEPT ![q] = IF @.is = "queued" THEN Known("failed") ELSE @]
  BY <1>2 DEF ReceiveFails
<1>6. answer' \in [Payloads -> AnswerSet] /\ NoNewOk
  BY <1>1, <1>3, <1>5, AnswerMoves
<1>7. TaskTypeOK'
  BY <1>1, <1>3, <1>4, <1>6 DEF TaskTypeOK
<1>8. /\ synced' = synced /\ damage \subseteq damage' /\ open' = open /\ lsn' = lsn + 1
      /\ lsn \in Nat
  BY <1>1, <1>4 DEF AppendFails, WalTypeOK
<1>9. open' => open /\ lsn <= lsn'
  BY <1>8
<1>10. /\ WalTypeOK'
       /\ damage' = {} /\ Clean(file, buffer, pos) => damage = {} /\ Wrote
  BY <1>1, <1>4, AppendFailsStep
<1>11. ToSet(pending') \subseteq ToSet(pending)
  BY <1>4
<1>12. CanClose'
  BY <1>8 DEF WalInv, CanClose
<1> QED BY <1>6, <1>7, <1>8, <1>9, <1>10, <1>11, <1>12, WroteInv

LEMMA ExitInv ==
    ASSUME WalInv, Exit
    PROVE  WalInv'
<1>1. TaskTypeOK /\ WalTypeOK /\ CanClose
  BY TypeSplits DEF WalInv
<1>2. /\ Close /\ queue' = queue /\ pending' = pending /\ answer' = answer /\ closing' = closing
      /\ cleaned' = cleaned /\ checkpoints' = checkpoints /\ crashes' = crashes + 1 /\ closing
  BY DEF Exit, taskVars
<1>3. synced' = synced /\ damage \subseteq damage' /\ ~ open' /\ open
  BY <1>2 DEF Close
<1>4. crashes' \in 0..MaxCrashes
  BY <1>1, <1>2, <1>3, BoundsAssumption DEF CanClose, TaskTypeOK
<1>5. TaskTypeOK' /\ NoNewOk /\ CanClose'
  BY <1>1, <1>2, <1>3, <1>4 DEF TaskTypeOK, NoNewOk, CanClose
<1>6. /\ WalTypeOK'
      /\ damage' = {} /\ Clean(file, buffer, pos) => damage = {} /\ Wrote
  BY <1>1, <1>2, CloseStep
<1>7. ToSet(pending') \subseteq ToSet(pending)
  BY <1>2
<1> QED BY <1>2, <1>3, <1>5, <1>6, <1>7, WroteInv

(* The answers after a flush.                                                 *)
LEMMA AnsweredType ==
    ASSUME TaskTypeOK, NEW ok \in BOOLEAN
    PROVE  /\ Answered(ok) \in [Payloads -> AnswerSet]
           /\ \A q \in Payloads : Answered(ok)[q].is = "ok" =>
                 \/ Answered(ok)[q] = answer[q]
                 \/ ok /\ \E r \in ToSet(pending) : r.req = q /\ Answered(ok)[q] = Ok(r.lsn)
<1>1. \A r \in ToSet(pending) : r \in PendingSet
  BY SetOf DEF TaskTypeOK
<1>2. \A r \in PendingSet : r.lsn \in Nat
  BY DEF PendingSet
<1>3. Known("failed") \in AnswerSet /\ Known("failed").is # "ok"
  BY KnownType
<1>4. ASSUME NEW q \in Payloads
      PROVE  /\ Answered(ok)[q] \in AnswerSet
             /\ Answered(ok)[q].is = "ok" =>
                 \/ Answered(ok)[q] = answer[q]
                 \/ ok /\ \E r \in ToSet(pending) : r.req = q /\ Answered(ok)[q] = Ok(r.lsn)
  <2> DEFINE mine == CHOOSE r \in ToSet(pending) : r.req = q
  <2>1. Answered(ok)[q] = IF Waits(q) /\ \E r \in ToSet(pending) : r.req = q
                          THEN IF ok THEN Ok(mine.lsn) ELSE Known("failed") ELSE answer[q]
    BY DEF Answered
  <2>2. (\E r \in ToSet(pending) : r.req = q) => mine \in ToSet(pending) /\ mine.req = q
    OBVIOUS
  <2> HIDE DEF mine
  <2>3. answer[q] \in AnswerSet
    BY DEF TaskTypeOK
  <2>4. mine \in ToSet(pending) => Ok(mine.lsn) \in AnswerSet
    BY <1>1, <1>2, KnownType
  <2> QED BY <1>3, <2>1, <2>2, <2>3, <2>4
<1>5. Answered(ok) = [q \in Payloads |-> Answered(ok)[q]]
  BY DEF Answered
<1> QED BY <1>4, <1>5

LEMMA FlushFailsInv ==
    ASSUME WalInv, SyncFails, answer' = Answered(FALSE), pending' = <<>>, queue' = queue,
           closing' = closing, cleaned' = cleaned, checkpoints' = checkpoints, crashes' = crashes
    PROVE  WalInv'
<1>1. TaskTypeOK /\ WalTypeOK /\ CanClose
  BY TypeSplits DEF WalInv
<1>2. answer' \in [Payloads -> AnswerSet] /\ NoNewOk
  BY <1>1, AnsweredType DEF NoNewOk
<1>3. <<>> \in Seq(PendingSet) /\ Len(<<>>) <= BatchSize /\ ToSet(<<>>) = {}
  BY BoundsAssumption DEF ToSet
<1>4. TaskTypeOK'
  BY <1>1, <1>2, <1>3 DEF TaskTypeOK
<1>5. /\ WalTypeOK'
      /\ damage' = {} /\ Clean(file, buffer, pos) => damage = {} /\ Wrote
  BY <1>1, SyncFailsStep
<1>6. synced' = synced /\ damage \subseteq damage' /\ open' = open /\ lsn' = lsn /\ lsn \in Nat
  BY <1>1 DEF SyncFails, WalTypeOK
<1>7. CanClose' /\ (open' => open /\ lsn <= lsn')
  BY <1>1, <1>6 DEF CanClose
<1>8. ToSet(pending') \subseteq ToSet(pending)
  BY <1>3
<1> QED BY <1>2, <1>4, <1>5, <1>6, <1>7, <1>8, WroteInv

LEMMA FlushInv ==
    ASSUME WalInv, Sync, answer' = Answered(TRUE), pending' = <<>>, queue' = queue,
           closing' = closing, cleaned' = cleaned, checkpoints' = checkpoints, crashes' = crashes
    PROVE  WalInv'
<1>1. TaskTypeOK /\ WalTypeOK /\ CanClose /\ (damage = {} => Undamaged)
  BY TypeSplits DEF WalInv
<1>2. /\ answer' \in [Payloads -> AnswerSet]
      /\ \A q \in Payloads : answer'[q].is = "ok" =>
            \/ answer'[q] = answer[q]
            \/ \E r \in ToSet(pending) : r.req = q /\ answer'[q] = Ok(r.lsn)
  BY <1>1, AnsweredType
<1>3. <<>> \in Seq(PendingSet) /\ Len(<<>>) <= BatchSize /\ ToSet(<<>>) = {}
  BY BoundsAssumption DEF ToSet
<1>4. TaskTypeOK'
  BY <1>1, <1>2, <1>3 DEF TaskTypeOK
<1>5. /\ WalTypeOK'
      /\ damage' = {} /\ Clean(file, buffer, pos) => damage = {} /\ Wrote
  BY <1>1, SyncStep
<1>6. /\ synced' = file' /\ damage \subseteq damage' /\ open' = open /\ lsn' = lsn /\ lsn \in Nat
      /\ buffer' = <<>>
  BY <1>1 DEF Sync, WalTypeOK
<1>7. CanClose' /\ (open' => open /\ lsn <= lsn')
  BY <1>1, <1>6 DEF CanClose
<1>8. ToSet(pending') \subseteq ToSet(pending)
  BY <1>3
<1>9. ASSUME damage' = {} PROVE Undamaged'
  <2>1. Sane /\ Kept /\ Clean(file, buffer, pos)
    BY <1>1, <1>6, <1>9 DEF Undamaged, Sane
  <2>2. Wrote
    BY <1>5, <1>9, <2>1
  <2>3. Sane' /\ Log' = Log /\ Durable \subseteq Durable'
    BY <1>1, <1>5, <1>6, <1>7, <1>8, <2>1, <2>2, WroteSane
  <2>4. Log' = Readable(synced')
    <3>1. PICK r \in Seq(Record) : r = Readable(file')
      BY <1>5, ReadableIs DEF WalTypeOK
    <3>2. r \o <<>> = r
      BY ConcatEmptySeq
    <3> QED BY <1>6, <3>1, <3>2 DEF Log
  <2>5. \A r \in ToSet(pending) : RecordOf(r) \in Durable'
    <3>1. Durable' = ToSet(Log) \cup cleaned
      BY <2>3, <2>4 DEF Durable
    <3> QED BY <2>1, <3>1 DEF Sane
  <2>6. ASSUME NEW q \in Payloads, answer'[q].is = "ok"
        PROVE  [lsn |-> answer'[q].lsn, payload |-> q] \in Durable'
    <3>1. CASE answer'[q] = answer[q]
      BY <2>1, <2>3, <2>6, <3>1 DEF Kept, Durable
    <3>2. ASSUME NEW r \in ToSet(pending), r.req = q, answer'[q] = Ok(r.lsn)
          PROVE  [lsn |-> answer'[q].lsn, payload |-> q] \in Durable'
      <4>0. Ok(r.lsn).lsn = r.lsn
        BY DEF Ok
      <4>1. answer'[q].lsn = r.lsn
        BY <3>2, <4>0, Zenon
      <4>2. RecordOf(r) = [lsn |-> answer'[q].lsn, payload |-> q]
        BY <3>2, <4>1 DEF RecordOf
      <4> QED BY <2>5, <3>2, <4>2
    <3> QED BY <1>2, <2>6, <3>1, <3>2
  <2>7. Kept'
    BY <2>6 DEF Kept, Durable
  <2> QED BY <2>3, <2>7 DEF Undamaged
<1> QED BY <1>4, <1>5, <1>7, <1>9, TypeSplitsNext DEF WalInv

LEMMA DoFlushInv ==
    ASSUME WalInv, DoFlush
    PROVE  WalInv'
<1>1. /\ pending' = <<>> /\ queue' = queue /\ closing' = closing /\ cleaned' = cleaned
      /\ checkpoints' = checkpoints /\ crashes' = crashes
  BY DEF DoFlush, bounds
<1>2. CASE Sync /\ answer' = Answered(TRUE)
  BY <1>1, <1>2, FlushInv
<1>3. CASE SyncFails /\ answer' = Answered(FALSE)
  BY <1>1, <1>3, FlushFailsInv
<1> QED BY <1>2, <1>3 DEF DoFlush

LEMMA ReceiveInv ==
    ASSUME WalInv, Receive
    PROVE  WalInv'
<1>1. /\ queue # <<>> /\ ~ BatchFull /\ queue' = Tail(queue) /\ closing' = closing
      /\ cleaned' = cleaned /\ checkpoints' = checkpoints /\ crashes' = crashes
  BY DEF Receive, bounds
<1>2. CASE ReceiveAppends
  BY <1>1, <1>2, ReceiveAppendsInv
<1>3. CASE ReceiveFails
  BY <1>1, <1>3, ReceiveFailsInv
<1> QED BY <1>2, <1>3 DEF Receive

-----------------------------------------------------------------------------
(* Cleanup, crash and restart.                                                *)

(* The records of the synced file are in the log.                             *)
LEMMA SyncedInLog ==
    ASSUME WalTypeOK, Sane
    PROVE  /\ ToSet(Readable(synced)) \subseteq ToSet(Log)
           /\ Leads(Readable(file), Log)
<1>1. PICK s \in Seq(Slot), f \in Seq(Slot) : s = synced /\ f = file
  BY DEF WalTypeOK
<1>2. Leads(s, f)
  BY <1>1 DEF Sane
<1>3. PICK u \in Seq(Record), v \in Seq(Record) : u = Readable(s) /\ v = Readable(f)
  BY ReadableIs
<1>4. Leads(u, v)
  BY <1>2, <1>3, ReadableMono
<1>5. ToSet(u) \subseteq ToSet(v)
  BY <1>4, LeadsSet
<1>6. Whole(buffer)
  BY DEF Sane, Clean
<1>7. ToSet(Log) = ToSet(Readable(file)) \cup ToSet(buffer)
  BY <1>6, LogType
<1>8. v \in Seq(Slot) /\ buffer \in Seq(Slot)
  BY RecordsWhole DEF WalTypeOK
<1>9. Leads(v, v \o buffer)
  BY <1>8, ConcatLeads
<1> QED BY <1>1, <1>3, <1>5, <1>7, <1>9 DEF Log

LEMMA CleanupInv ==
    ASSUME WalInv, Cleanup \/ CleanupReopenFails, cleaned' = cleaned \cup Removable(Written(Len(buffer))),
           UNCHANGED <<taskVars, bounds>>
    PROVE  WalInv'
<1>1. TaskTypeOK /\ WalTypeOK /\ CanClose /\ (damage = {} => Undamaged)
  BY TypeSplits DEF WalInv
<1>2. PICK gone : gone = Removable(Written(Len(buffer)))
  OBVIOUS
<1>3. /\ WalTypeOK' /\ open /\ open' /\ lsn' = lsn /\ pos' = 0 /\ buffer' = <<>>
      /\ gone \subseteq Record
      /\ synced' = file' /\ file' \in Seq(Record)
      /\ damage \subseteq damage'
      /\ damage' = {} /\ Clean(file, buffer, pos) =>
           /\ damage = {}
           /\ ToSet(file') = ToSet(Log) \ gone
           /\ InOrder(Log) => InOrder(file')
  BY <1>1, <1>2, CleanupStep
<1>4. /\ queue' = queue /\ pending' = pending /\ answer' = answer /\ closing' = closing
      /\ checkpoints' = checkpoints /\ crashes' = crashes /\ cleaned' = cleaned \cup gone
  BY <1>2 DEF taskVars, bounds
<1>5. TaskTypeOK' /\ CanClose' /\ NoNewOk
  BY <1>1, <1>3, <1>4 DEF TaskTypeOK, CanClose, NoNewOk
<1>6. damage \subseteq damage'
  BY <1>3
<1>7. ASSUME damage' = {} PROVE Undamaged'
  <2>1. Sane /\ Kept /\ Clean(file, buffer, pos)
    BY <1>1, <1>6, <1>7 DEF Undamaged, Sane
  <2>2. ToSet(file') = ToSet(Log) \ gone /\ InOrder(file')
    BY <1>3, <1>7, <2>1 DEF Sane
  <2>3. PICK h \in Seq(Record) : h = file'
    BY <1>3
  <2>4. h \in Seq(Slot) /\ Whole(h)
    BY RecordsWhole
  <2>5. Readable(h) = h /\ h \o <<>> = h /\ Leads(h, h) /\ Whole(<<>>)
    BY <2>4, WholeReadable, ConcatEmptySeq, LeadsSelf DEF Whole
  <2>6. Log' = h /\ Readable(synced') = h
    BY <1>3, <2>3, <2>5 DEF Log
  <2>7. UpTo(h, lsn)
    <3>1. PICK l \in Seq(Record) : l = Log
      BY <1>1, <2>1, LogType DEF Clean
    <3>2. UpTo(l, lsn) /\ DOMAIN l = 1..Len(l) /\ DOMAIN h = 1..Len(h)
      BY <1>3, <2>1, <3>1 DEF Sane
    <3>3. ToSet(h) \subseteq ToSet(l)
      BY <2>2, <2>3, <3>1
    <3>4. \A x \in ToSet(l) : x.lsn <= lsn
      BY <3>2, SetOf DEF UpTo
    <3>5. \A i \in 1..Len(h) : h[i] \in ToSet(h)
      BY <3>2, SetOf
    <3> QED BY <3>3, <3>4, <3>5 DEF UpTo
  <2>8. Durable \subseteq Durable'
    <3>1. Durable \subseteq ToSet(Log) \cup cleaned
      BY <1>1, <2>1, SyncedInLog DEF Durable
    <3>2. Durable' = ToSet(h) \cup cleaned \cup gone
      BY <1>4, <2>6 DEF Durable
    <3> QED BY <2>2, <2>3, <3>1, <3>2
  <2>9. \A r \in ToSet(pending') : RecordOf(r) \in ToSet(h) \cup cleaned'
    <3>1. \A r \in ToSet(pending) : RecordOf(r) \in ToSet(Log) \cup cleaned
      BY <2>1 DEF Sane
    <3> QED BY <1>4, <2>2, <2>3, <3>1
  <2>10. Clean(file', buffer', pos') /\ Leads(synced', file')
    BY <1>3, <2>3, <2>4, <2>5 DEF Clean
  <2>11. InOrder(h)
    BY <2>2, <2>3
  <2>12. Sane'
    <3> HIDE DEF Log
    <3> QED BY <1>3, <2>6, <2>7, <2>9, <2>10, <2>11 DEF Sane
  <2> QED BY <1>5, <2>1, <2>8, <2>12, KeptMoves DEF Undamaged
<1> QED BY <1>3, <1>5, <1>7, TypeSplitsNext DEF WalInv

LEMMA OnlySyncedInv ==
    ASSUME WalInv, Sync \/ SyncFails, cleaned' = cleaned, UNCHANGED <<taskVars, bounds>>
    PROVE  WalInv'
<1>1. TaskTypeOK /\ WalTypeOK /\ CanClose
  BY TypeSplits DEF WalInv
<1>2. /\ queue' = queue /\ pending' = pending /\ answer' = answer /\ closing' = closing
      /\ checkpoints' = checkpoints /\ crashes' = crashes
  BY DEF taskVars, bounds
<1>3. /\ synced' = synced \/ synced' = file'
      /\ damage \subseteq damage' /\ open' = open /\ lsn' = lsn /\ lsn \in Nat
  BY <1>1 DEF Sync, SyncFails, WalTypeOK
<1>4. TaskTypeOK' /\ CanClose' /\ NoNewOk /\ (open' => open /\ lsn <= lsn')
  BY <1>1, <1>2, <1>3 DEF TaskTypeOK, CanClose, NoNewOk
<1>5. /\ WalTypeOK'
      /\ damage' = {} /\ Clean(file, buffer, pos) => damage = {} /\ Wrote
  BY <1>1, SyncStep, SyncFailsStep
<1>6. ToSet(pending') \subseteq ToSet(pending)
  BY <1>2
<1> QED BY <1>3, <1>4, <1>5, <1>6, WroteInv

LEMMA CleanUpInv ==
    ASSUME WalInv, CleanUp
    PROVE  WalInv'
<1>1. CASE (Cleanup \/ CleanupReopenFails) /\ cleaned' = cleaned \cup Removable(Written(Len(buffer)))
  BY <1>1, CleanupInv DEF CleanUp
<1>2. CASE (CleanupNothing \/ SyncFails) /\ UNCHANGED cleaned
  BY <1>2, OnlySyncedInv DEF CleanUp, CleanupNothing
<1> QED BY <1>1, <1>2 DEF CleanUp

LEMMA LeadsInOrder ==
    ASSUME NEW s \in Seq(Record), NEW t \in Seq(Record), Leads(s, t), InOrder(t)
    PROVE  InOrder(s)
<1>1. Len(s) \in Nat /\ Len(t) \in Nat /\ \A i \in 1..Len(s) : i \in 1..Len(t)
  BY DEF Leads
<1> QED BY <1>1 DEF Leads, InOrder

LEMMA CrashAllInv ==
    ASSUME WalInv, CrashAll
    PROVE  WalInv'
<1>1. TaskTypeOK /\ WalTypeOK /\ CanClose /\ (damage = {} => Undamaged)
  BY TypeSplits DEF WalInv
<1>2. /\ crashes < MaxCrashes /\ Crash /\ queue' = <<>> /\ pending' = <<>> /\ closing' = FALSE
      /\ crashes' = crashes + 1 /\ cleaned' = cleaned /\ checkpoints' = checkpoints
      /\ answer' = [q \in Payloads |-> IF Waits(q) THEN Known("abandoned") ELSE answer[q]]
  BY DEF CrashAll
<1>3. /\ WalTypeOK' /\ synced' = file' /\ pos' = 0 /\ buffer' = <<>> /\ ~ open'
      /\ lsn' = lsn /\ damage \subseteq damage'
      /\ damage' = {} /\ Leads(synced, file) =>
           Leads(synced, file') /\ Leads(Readable(file'), Readable(file))
  BY <1>1, <1>2, CrashStep
<1>4. answer' \in [Payloads -> AnswerSet] /\ NoNewOk
  <2>1. Known("abandoned") \in AnswerSet /\ Known("abandoned").is # "ok"
    BY KnownType
  <2>2. answer \in [Payloads -> AnswerSet]
    BY <1>1 DEF TaskTypeOK
  <2> QED BY <1>2, <2>1, <2>2 DEF NoNewOk
<1>5. /\ <<>> \in Seq(Payloads) /\ <<>> \in Seq(PendingSet) /\ ToSet(<<>>) = {}
      /\ Len(<<>>) <= BatchSize /\ Len(<<>>) <= ChannelCapacity
  BY BoundsAssumption DEF ToSet
<1>6. crashes' \in 0..MaxCrashes
  BY <1>1, <1>2, BoundsAssumption DEF TaskTypeOK
<1>7. TaskTypeOK' /\ CanClose'
  BY <1>1, <1>2, <1>4, <1>5, <1>6 DEF TaskTypeOK, CanClose
<1>8. ASSUME damage' = {} PROVE Undamaged'
  <2>1. Sane /\ Kept
    BY <1>1, <1>3, <1>8 DEF Undamaged
  <2>2. Leads(synced, file') /\ Leads(Readable(file'), Readable(file)) /\ InOrder(Log)
    BY <1>3, <1>8, <2>1 DEF Sane
  <2>3. file' \in Seq(Slot) /\ synced \in Seq(Slot) /\ synced' \in Seq(Slot)
    BY <1>1, <1>3 DEF WalTypeOK
  <2>4. PICK r \in Seq(Record), t \in Seq(Record), l \in Seq(Record) :
           r = Readable(file') /\ t = Readable(file) /\ l = Log
    <3>1. Readable(file) \in Seq(Record) /\ Log \in Seq(Record)
      BY <1>1, <2>1, LogType DEF Sane, Clean
    <3>2. Readable(file') \in Seq(Record)
      BY <2>3, ReadableIs
    <3> QED BY <3>1, <3>2
  <2>5. Leads(r, t) /\ Leads(t, l)
    BY <1>1, <2>1, <2>2, <2>4, SyncedInLog
  <2>6. Leads(r, l)
    BY <2>5, LeadsTrans
  <2>7. InOrder(r)
    BY <2>2, <2>4, <2>6, LeadsInOrder
  <2>8. Log' = r
    <3>1. r \o <<>> = r
      BY ConcatEmptySeq
    <3> QED BY <1>3, <2>4, <3>1 DEF Log
  <2>9. Clean(file', buffer', pos')
    <3>1. PICK f \in Seq(Slot) : f = file'
      BY <2>3
    <3>2. Whole(<<>>) /\ (0 = Len(f) => Whole(f))
      BY DEF Whole
    <3> QED BY <1>3, <3>1, <3>2 DEF Clean
  <2>10. Leads(synced', file')
    BY <1>3, <2>3, LeadsSelf
  <2>11. Sane'
    <3> HIDE DEF Log
    <3> QED BY <1>2, <1>3, <1>5, <2>7, <2>8, <2>9, <2>10 DEF Sane
  <2>12. Durable \subseteq Durable'
    BY <1>2, <1>3, <2>2, <2>3, DurableGrows
  <2> QED BY <1>4, <2>1, <2>11, <2>12, KeptMoves DEF Undamaged
<1> QED BY <1>3, <1>7, <1>8, TypeSplitsNext DEF WalInv

LEMMA RestartInv ==
    ASSUME WalInv, Restart
    PROVE  WalInv'
<1>1. TaskTypeOK /\ WalTypeOK /\ CanClose /\ (damage = {} => Undamaged)
  BY TypeSplits DEF WalInv
<1>2. /\ Open /\ closing' = FALSE /\ queue' = queue /\ pending' = pending /\ answer' = answer
      /\ cleaned' = cleaned /\ checkpoints' = checkpoints /\ crashes' = crashes
  BY DEF Restart, bounds
<1>3. /\ WalTypeOK' /\ file' = file /\ synced' = synced /\ buffer = <<>> /\ buffer' = <<>>
      /\ pos' = 0 /\ open' /\ damage' = damage /\ lsn' = FindLastLsn(file)
  BY <1>1, <1>2, OpenStep
<1>4. TaskTypeOK' /\ CanClose' /\ NoNewOk
  BY <1>1, <1>2 DEF TaskTypeOK, CanClose, NoNewOk
<1>5. ASSUME damage' = {} PROVE Undamaged'
  <2>1. Sane /\ Kept
    BY <1>1, <1>3, <1>5 DEF Undamaged
  <2>2. Log' = Log
    BY <1>3 DEF Log
  <2>3. PICK r \in Seq(Record) : r = Readable(file) /\ r = Log
    <3>1. PICK u \in Seq(Record) : u = Readable(file)
      BY <1>1, ReadableIs DEF WalTypeOK
    <3>2. u \o <<>> = u
      BY ConcatEmptySeq
    <3>3. Log = u
      BY <1>3, <3>1, <3>2 DEF Log
    <3> QED BY <3>1, <3>3
  <2>4. UpTo(r, lsn')
    <3>1. CASE r = <<>>
      BY <3>1 DEF UpTo
    <3>2. CASE r # <<>>
      <4>1. Len(r) \in Nat /\ Len(r) \in 1..Len(r)
        BY <3>2
      <4>2. lsn' = r[Len(r)].lsn
        BY <1>3, <2>3, <3>2 DEF FindLastLsn, Last
      <4>3. InOrder(r)
        BY <2>1, <2>3 DEF Sane
      <4>4. \A i \in 1..Len(r) : r[i].lsn \in Nat
        BY RecordLsn
      <4>5. ASSUME NEW i \in 1..Len(r) PROVE r[i].lsn <= lsn'
        <5>1. CASE i = Len(r)
          BY <4>2, <4>4, <5>1
        <5>2. CASE i < Len(r)
          <6>1. r[i].lsn < r[Len(r)].lsn /\ r[i].lsn \in Nat /\ r[Len(r)].lsn \in Nat
            BY <4>1, <4>3, <4>4, <5>2 DEF InOrder
          <6> QED BY <4>2, <6>1
        <5> QED BY <4>1, <5>1, <5>2
      <4> QED BY <4>5 DEF UpTo
    <3> QED BY <3>1, <3>2
  <2>5. Clean(file', buffer', pos')
    <3>1. PICK f \in Seq(Slot) : f = file'
      BY <1>1, <1>3 DEF WalTypeOK
    <3>2. Whole(<<>>) /\ (0 = Len(f) => Whole(f))
      BY DEF Whole
    <3> QED BY <1>3, <3>1, <3>2 DEF Clean
  <2>6. Sane'
    <3> HIDE DEF Log
    <3> QED BY <1>2, <1>3, <2>1, <2>2, <2>3, <2>4, <2>5 DEF Sane
  <2>7. Durable' = Durable
    BY <1>2, <1>3 DEF Durable
  <2> QED BY <1>4, <2>1, <2>6, <2>7, KeptMoves DEF Undamaged
<1> QED BY <1>3, <1>4, <1>5, TypeSplitsNext DEF WalInv

-----------------------------------------------------------------------------

LEMMA NextInv ==
    ASSUME WalInv, [Next]_vars
    PROVE  WalInv'
<1>1. ASSUME NEW q \in Payloads, Submit(q) PROVE WalInv'
  BY <1>1, SubmitInv
<1>2. ASSUME NEW q \in Payloads, Abandon(q) PROVE WalInv'
  BY <1>2, AbandonInv
<1>3. CASE DropSender
  BY <1>3, DropSenderInv
<1>4. CASE Receive
  BY <1>4, ReceiveInv
<1>5. CASE DoFlush
  BY <1>5, DoFlushInv
<1>6. CASE Exit
  BY <1>6, ExitInv
<1>7. CASE WriteCheckpoint
  BY <1>7, WriteCheckpointInv
<1>8. CASE CleanUp
  BY <1>8, CleanUpInv
<1>9. CASE CrashAll
  BY <1>9, CrashAllInv
<1>10. CASE Restart
  BY <1>10, RestartInv
<1>11. CASE UNCHANGED vars
  <2>1. /\ UNCHANGED walVars /\ queue' = queue /\ pending' = pending /\ answer' = answer
        /\ closing' = closing /\ cleaned' = cleaned /\ checkpoints' = checkpoints
        /\ crashes' = crashes
    BY <1>11 DEF vars, taskVars, bounds
  <2>2. TaskTypeOK /\ CanClose
    BY TypeSplits DEF WalInv
  <2>3. TaskTypeOK' /\ CanClose' /\ NoNewOk
    BY <2>1, <2>2 DEF TaskTypeOK, CanClose, NoNewOk, walVars
  <2> QED BY <2>1, <2>3, LogUntouched
<1> QED BY <1>1, <1>2, <1>3, <1>4, <1>5, <1>6, <1>7, <1>8, <1>9, <1>10, <1>11 DEF Next

(* However the task, the callers, the checkpoints, the cleanups, failed       *)
(* writes and fsyncs, crashes and restarts interleave: the log is well typed, *)
(* and unless the log was written over, an append stopped in the middle of a  *)
(* record, a cleanup could not open its new file, or a crash undid the rename *)
(* of a cleanup, recovery reads ascending numbers, and every record answered  *)
(* with its number is on disk or was removed behind a checkpoint.             *)
THEOREM LogAlwaysSound == Spec => []LogSound
<1>1. Init => WalInv
  BY InitInv
<1>2. WalInv /\ [Next]_vars => WalInv'
  BY NextInv
<1>3. WalInv => LogSound
  BY WalInvImplies
<1> QED BY <1>1, <1>2, <1>3, PTL DEF Spec
=============================================================================
