----------------------- MODULE DelayOperationsProofs -----------------------
(***************************************************************************)
(* Theorems about DelayOperations.tla, for any delayed operations, delays  *)
(* and clock: typing, that no entry is lost or repeated, and that the loop *)
(* sleeps without a timeout only when it has nothing to wait for.          *)
(***************************************************************************)
EXTENDS DelayOperations, FiniteSetTheorems, SequenceTheorems, WellFoundedInduction, TLAPS

TasksOf(q) == {q[i].task : i \in DOMAIN q}

DuesOf(q) == {q[i].due : i \in DOMAIN q}

\* No task has two entries.
Once(q) == \A i, j \in DOMAIN q : q[i].task = q[j].task => i = j

\* A multimap is read in the order of its keys.
Sorted(q) == \A i, j \in DOMAIN q : i < j => q[i].due <= q[j].due

USE DelaysAssumption, BoundsAssumption, StepsAssumption

-----------------------------------------------------------------------------
(* Lists *)

\* The least-number principle, with a set for the predicate: inductions below
\* look for the least counterexample.
LEMMA LeastNumber ==
    ASSUME NEW T \in SUBSET Nat, T # {}
    PROVE  \E x \in T : \A y \in T : x <= y
<1> DEFINE R == {ss \in Nat \X Nat : ss[1] < ss[2]}
<1>1. IsWellFoundedOn(R, Nat)
      BY NatLessThanWellFounded DEF OpToRel
<1> HIDE DEF R
<1>2. PICK x \in T : \A y \in T : ~(<<y, x>> \in R)
      BY <1>1, WFMin
<1>3. \A y \in T : ~(y < x)
      BY <1>2 DEF R
<1> QED BY <1>3

\* What is true of 0, and of n + 1 if of n, is true up to any bound.
LEMMA Counting ==
    ASSUME NEW N \in Nat, NEW P \in SUBSET Nat, 0 \in P,
           \A n \in 0..N : n \in P /\ n < N => n + 1 \in P
    PROVE  0..N \subseteq P
<1> DEFINE T == (0..N) \ P
<1> SUFFICES ASSUME T # {} PROVE FALSE
    OBVIOUS
<1>1. PICK x \in T : \A y \in T : x <= y
  <2>1. T \in SUBSET Nat /\ T # {}
        OBVIOUS
  <2> HIDE DEF T
  <2> QED BY <2>1, LeastNumber
<1>2. x # 0 /\ x - 1 \in 0..N /\ x - 1 < N
      BY <1>1
<1>3. x - 1 \in P
      BY <1>1, <1>2
<1> QED BY <1>1, <1>2, <1>3

\* The due times are integers.
LEMMA EntryDue ==
    ASSUME NEW e \in Entry
    PROVE  e.due \in Int /\ e.due \in 0..MaxDue /\ e.task \in Tasks
BY DEF Entry

\* So are those of the entries of a map.
LEMMA DuesAreIntegers ==
    ASSUME NEW q \in Seq(Entry)
    PROVE  \A i \in 1..Len(q) : q[i] \in Entry /\ q[i].due \in Int /\ q[i].task \in Tasks
<1> SUFFICES ASSUME NEW i \in 1..Len(q)
             PROVE  q[i] \in Entry /\ q[i].due \in Int /\ q[i].task \in Tasks
    OBVIOUS
<1>1. q[i] \in Entry
      BY ElementOfSeq
<1> QED BY <1>1, EntryDue

\* In a sorted map the entries due no later than e are the first ones.
LEMMA UpperBoundFacts ==
    ASSUME NEW q \in Seq(Entry), NEW e \in Entry, Sorted(q)
    PROVE  /\ UpperBound(q, e) \in 0..Len(q)
           /\ \A i \in 1..UpperBound(q, e) : q[i].due <= e.due
           /\ \A i \in (UpperBound(q, e) + 1)..Len(q) : q[i].due > e.due
<1> DEFINE n == Len(q)
           T == {i \in 1..(n + 1) : i = n + 1 \/ q[i].due > e.due}
<1>1. /\ n \in Nat /\ DOMAIN q = 1..n /\ e.due \in Int
      /\ \A i \in 1..n : q[i].due \in Int
      BY LenProperties, DuesAreIntegers, EntryDue
<1> HIDE DEF n
<1>2. PICK x \in T : \A y \in T : x <= y
  <2>1. T \in SUBSET Nat /\ n + 1 \in T
        BY <1>1
  <2> HIDE DEF T
  <2> QED BY <2>1, LeastNumber
<1>3. x \in 1..(n + 1)
      OBVIOUS
<1>4. ASSUME NEW i \in 1..n, i < x PROVE q[i].due <= e.due
  <2>1. i \notin T
        BY <1>1, <1>2, <1>3, <1>4
  <2> QED BY <1>1, <2>1
<1>5. ASSUME NEW i \in 1..n, i >= x PROVE q[i].due > e.due
  <2>1. x \in 1..n /\ q[x].due > e.due
        BY <1>1, <1>3, <1>5
  <2>2. q[x].due <= q[i].due
    <3>1. CASE x = i
          BY <1>1, <2>1, <3>1
    <3>2. CASE x < i
          BY <1>1, <2>1, <3>2 DEF Sorted
    <3> QED BY <1>1, <1>3, <1>5, <3>1, <3>2
  <2> QED BY <1>1, <2>1, <2>2
<1>6. {i \in DOMAIN q : q[i].due <= e.due} = 1..(x - 1)
  <2>1. ASSUME NEW i \in 1..n PROVE q[i].due <= e.due <=> i < x
        BY <1>1, <1>3, <1>4, <1>5
  <2>2. 1..(x - 1) \subseteq 1..n
        BY <1>1, <1>3
  <2> HIDE DEF T
  <2> QED BY <1>1, <1>3, <2>1, <2>2
<1>7. UpperBound(q, e) = x - 1
  <2>1. Cardinality(1..(x - 1)) = x - 1
        BY <1>3, FS_Interval
  <2> QED BY <1>6, <2>1 DEF UpperBound
<1> QED BY <1>1, <1>3, <1>4, <1>5, <1>7 DEF n

\* emplace() puts an entry behind those due no later and in front of the rest.
LEMMA EmplacePlaces ==
    ASSUME NEW q \in Seq(Entry), NEW e \in Entry, Sorted(q)
    PROVE  \E k \in 0..Len(q) :
             /\ Emplace(q, e) \in Seq(Entry) /\ Len(Emplace(q, e)) = Len(q) + 1
             /\ Emplace(q, e)[k + 1] = e
             /\ \A i \in 1..k : Emplace(q, e)[i] = q[i] /\ q[i].due <= e.due
             /\ \A i \in (k + 1)..Len(q) : Emplace(q, e)[i + 1] = q[i] /\ q[i].due > e.due
<1> DEFINE k == UpperBound(q, e)
           n == Len(q)
           a == SubSeq(q, 1, k)
           b == SubSeq(q, k + 1, n)
<1>1. /\ k \in 0..n /\ n \in Nat
      /\ \A i \in 1..k : q[i].due <= e.due
      /\ \A i \in (k + 1)..n : q[i].due > e.due
      BY UpperBoundFacts, LenProperties
<1>2. Emplace(q, e) = (a \o <<e>>) \o b
  <2>1. (k + 1) - 1 = k
        BY <1>1
  <2> QED BY <2>1 DEF Emplace, InsertAt
<1> HIDE DEF k, n
<1>3. \A i \in 1..n : q[i] \in Entry
      BY ElementOfSeq DEF n
<1>4. a \in Seq(Entry) /\ Len(a) = k /\ \A i \in 1..k : a[i] = q[i]
  <2>1. /\ SubSeq(q, 1, k) \in Seq(Entry)
        /\ Len(SubSeq(q, 1, k)) = IF 1 <= k THEN k - 1 + 1 ELSE 0
        /\ \A i \in 1..(k - 1 + 1) : SubSeq(q, 1, k)[i] = q[1 + i - 1]
        BY <1>1, <1>3, SubSeqProperties
  <2> QED BY <1>1, <2>1
<1>5. b \in Seq(Entry) /\ Len(b) = n - k /\ \A i \in 1..(n - k) : b[i] = q[k + i]
  <2>1. /\ SubSeq(q, k + 1, n) \in Seq(Entry)
        /\ Len(SubSeq(q, k + 1, n)) = IF k + 1 <= n THEN n - (k + 1) + 1 ELSE 0
        /\ \A i \in 1..(n - (k + 1) + 1) : SubSeq(q, k + 1, n)[i] = q[(k + 1) + i - 1]
    <3>1. k + 1 \in Int /\ n \in Int /\ \A i \in (k + 1)..n : q[i] \in Entry
          BY <1>1, <1>3
    <3> QED BY <3>1, SubSeqProperties
  <2>2. Len(b) = n - k
        BY <1>1, <2>1
  <2>3. ASSUME NEW i \in 1..(n - k) PROVE b[i] = q[k + i]
    <3>1. i \in 1..(n - (k + 1) + 1) /\ (k + 1) + i - 1 = k + i
          BY <1>1
    <3> QED BY <2>1, <3>1
  <2> QED BY <2>1, <2>2, <2>3
<1> HIDE DEF a, b
<1> DEFINE c == a \o <<e>>
           v == c \o b
<1>6. /\ c \in Seq(Entry) /\ Len(c) = k + 1 /\ c[k + 1] = e
      /\ \A i \in 1..k : c[i] = q[i]
  <2>1. <<e>> \in Seq(Entry) /\ Len(<<e>>) = 1 /\ <<e>>[1] = e
        OBVIOUS
  <2>2. PICK d : d = <<e>>
        OBVIOUS
  <2>3. /\ a \o d \in Seq(Entry) /\ Len(a \o d) = Len(a) + Len(d)
        /\ \A i \in 1..(Len(a) + Len(d)) :
             (a \o d)[i] = IF i <= Len(a) THEN a[i] ELSE d[i - Len(a)]
        BY <1>4, <2>1, <2>2, ConcatProperties
  <2>4. /\ c \in Seq(Entry) /\ Len(c) = k + 1
        /\ \A i \in 1..(k + 1) : c[i] = IF i <= k THEN a[i] ELSE d[i - k]
        BY <1>4, <2>1, <2>2, <2>3
  <2>5. k + 1 \in 1..(k + 1) /\ ~(k + 1 <= k) /\ (k + 1) - k = 1
        BY <1>1
  <2>6. \A i \in 1..k : i \in 1..(k + 1) /\ i <= k
        BY <1>1
  <2> HIDE DEF c
  <2> QED BY <1>4, <2>1, <2>2, <2>4, <2>5, <2>6
<1> HIDE DEF c
<1>7. /\ v \in Seq(Entry) /\ Len(v) = (k + 1) + (n - k)
      /\ \A i \in 1..((k + 1) + (n - k)) :
           v[i] = IF i <= k + 1 THEN c[i] ELSE b[i - (k + 1)]
  <2>1. /\ c \o b \in Seq(Entry) /\ Len(c \o b) = Len(c) + Len(b)
        /\ \A i \in 1..(Len(c) + Len(b)) :
             (c \o b)[i] = IF i <= Len(c) THEN c[i] ELSE b[i - Len(c)]
        BY <1>5, <1>6, ConcatProperties
  <2> QED BY <1>5, <1>6, <2>1
<1> HIDE DEF v
<1>8. ASSUME NEW i \in (k + 1)..n PROVE v[i + 1] = q[i]
  <2>1. /\ i + 1 \in 1..((k + 1) + (n - k)) /\ ~(i + 1 <= k + 1)
        /\ (i + 1) - (k + 1) \in 1..(n - k) /\ k + ((i + 1) - (k + 1)) = i
        BY <1>1
  <2> QED BY <1>5, <1>7, <2>1
<1>9. ASSUME NEW i \in 1..(k + 1) PROVE v[i] = c[i]
  <2>1. i \in 1..((k + 1) + (n - k)) /\ i <= k + 1
        BY <1>1
  <2> QED BY <1>7, <2>1
<1>10. Len(v) = n + 1
       BY <1>1, <1>7
<1>11. v[k + 1] = e /\ \A i \in 1..k : v[i] = q[i]
  <2>1. k + 1 \in 1..(k + 1) /\ \A i \in 1..k : i \in 1..(k + 1)
        BY <1>1
  <2> QED BY <1>6, <1>9, <2>1
<1>12. v = Emplace(q, e)
       BY <1>2 DEF v, c
<1> QED BY <1>1, <1>7, <1>8, <1>10, <1>11, <1>12 DEF n

\* A map stays sorted, and gets the one new entry.
LEMMA EmplaceFacts ==
    ASSUME NEW q \in Seq(Entry), NEW e \in Entry, Sorted(q)
    PROVE  /\ Emplace(q, e) \in Seq(Entry) /\ Sorted(Emplace(q, e))
           /\ TasksOf(Emplace(q, e)) = TasksOf(q) \cup {e.task}
           /\ DuesOf(Emplace(q, e)) = DuesOf(q) \cup {e.due}
           /\ Once(q) /\ e.task \notin TasksOf(q) => Once(Emplace(q, e))
<1> DEFINE p == Emplace(q, e)
<1>1. PICK k \in 0..Len(q) :
        /\ p \in Seq(Entry) /\ Len(p) = Len(q) + 1
        /\ p[k + 1] = e
        /\ \A i \in 1..k : p[i] = q[i] /\ q[i].due <= e.due
        /\ \A i \in (k + 1)..Len(q) : p[i + 1] = q[i] /\ q[i].due > e.due
      BY EmplacePlaces
<1> HIDE DEF p
<1> DEFINE Shift(i) == IF i <= k THEN i ELSE i + 1
<1>2. /\ Len(q) \in Nat /\ DOMAIN q = 1..Len(q) /\ DOMAIN p = 1..(Len(q) + 1)
      /\ k \in Nat /\ k <= Len(q)
      BY <1>1, LenProperties
<1>3. \A i \in DOMAIN q : q[i].due \in Int
      BY <1>2, DuesAreIntegers
<1>4. /\ \A i \in DOMAIN q : Shift(i) \in DOMAIN p /\ Shift(i) # k + 1 /\ p[Shift(i)] = q[i]
      BY <1>1, <1>2
<1>5. k + 1 \in DOMAIN p /\ p[k + 1] = e /\ e.due \in Int
      BY <1>1, <1>2, EntryDue
<1>6. ASSUME NEW j \in DOMAIN p, j # k + 1 PROVE \E i \in DOMAIN q : j = Shift(i)
  <2>1. CASE j <= k
        BY <1>2, <2>1
  <2>2. CASE j > k + 1
    <3>1. j - 1 \in DOMAIN q /\ j = Shift(j - 1)
          BY <1>2, <2>2
    <3> QED BY <3>1
  <2> QED BY <1>2, <1>6, <2>1, <2>2
<1>7. /\ \A i, j \in DOMAIN q : i < j <=> Shift(i) < Shift(j)
      /\ \A i \in DOMAIN q : Shift(i) < k + 1 <=> i <= k
      BY <1>2
<1>8. \A i \in DOMAIN q : IF i <= k THEN q[i].due <= e.due ELSE q[i].due > e.due
      BY <1>1, <1>2
<1> HIDE DEF Shift
<1>9. TasksOf(p) = TasksOf(q) \cup {e.task}
  <2>1. TasksOf(q) \cup {e.task} \subseteq TasksOf(p)
        BY <1>4, <1>5 DEF TasksOf
  <2>2. TasksOf(p) \subseteq TasksOf(q) \cup {e.task}
        BY <1>4, <1>5, <1>6 DEF TasksOf
  <2> QED BY <2>1, <2>2
<1>10. DuesOf(p) = DuesOf(q) \cup {e.due}
  <2>1. DuesOf(q) \cup {e.due} \subseteq DuesOf(p)
        BY <1>4, <1>5 DEF DuesOf
  <2>2. DuesOf(p) \subseteq DuesOf(q) \cup {e.due}
        BY <1>4, <1>5, <1>6 DEF DuesOf
  <2> QED BY <2>1, <2>2
<1>11. ASSUME Once(q), e.task \notin TasksOf(q) PROVE Once(p)
  <2> SUFFICES ASSUME NEW i \in DOMAIN p, NEW j \in DOMAIN p, p[i].task = p[j].task PROVE i = j
      BY DEF Once
  <2>1. ASSUME NEW a \in DOMAIN q PROVE p[Shift(a)].task # e.task
        BY <1>4, <1>11, <2>1 DEF TasksOf
  <2>2. CASE i = k + 1 \/ j = k + 1
        BY <1>5, <1>6, <2>1, <2>2
  <2>3. CASE i # k + 1 /\ j # k + 1
        BY <1>4, <1>6, <1>11, <2>3 DEF Once
  <2> QED BY <2>2, <2>3
<1>12. Sorted(p)
  <2> SUFFICES ASSUME NEW i \in DOMAIN p, NEW j \in DOMAIN p, i < j PROVE p[i].due <= p[j].due
      BY DEF Sorted
  <2>1. CASE i # k + 1 /\ j # k + 1
    <3>1. PICK a \in DOMAIN q, b \in DOMAIN q : i = Shift(a) /\ j = Shift(b)
          BY <1>6, <2>1
    <3>2. a < b
          BY <1>7, <3>1
    <3> QED BY <1>4, <3>1, <3>2 DEF Sorted
  <2>2. CASE i = k + 1 /\ j # k + 1
    <3>1. PICK b \in DOMAIN q : j = Shift(b)
          BY <1>6, <2>2
    <3>2. ~(b <= k)
          BY <1>2, <1>7, <2>2, <3>1
    <3>3. q[b].due > e.due /\ p[j] = q[b] /\ p[i] = e
          BY <1>4, <1>5, <1>8, <2>2, <3>1, <3>2
    <3> QED BY <1>3, <1>5, <3>3
  <2>3. CASE j = k + 1 /\ i # k + 1
    <3>1. PICK a \in DOMAIN q : i = Shift(a)
          BY <1>6, <2>3
    <3>2. a <= k
          BY <1>2, <1>7, <2>3, <3>1
    <3>3. q[a].due <= e.due /\ p[i] = q[a] /\ p[j] = e
          BY <1>4, <1>5, <1>8, <2>3, <3>1, <3>2
    <3> QED BY <3>3
  <2> QED BY <1>2, <2>1, <2>2, <2>3
<1> QED BY <1>1, <1>9, <1>10, <1>11, <1>12 DEF p

\* One list behind the other.
LEMMA ConcatFacts ==
    ASSUME NEW p \in Seq(Entry), NEW q \in Seq(Entry)
    PROVE  /\ p \o q \in Seq(Entry)
           /\ TasksOf(p \o q) = TasksOf(p) \cup TasksOf(q)
           /\ DuesOf(p \o q) \subseteq DuesOf(p) \cup DuesOf(q)
           /\ Once(p) /\ Once(q) /\ TasksOf(p) \cap TasksOf(q) = {} => Once(p \o q)
<1> DEFINE r == p \o q
           m == Len(p)
           n == Len(q)
<1>1. /\ r \in Seq(Entry) /\ Len(r) = m + n
      /\ \A i \in 1..(m + n) : r[i] = IF i <= m THEN p[i] ELSE q[i - m]
      BY ConcatProperties
<1>2. /\ m \in Nat /\ n \in Nat
      /\ DOMAIN p = 1..m /\ DOMAIN q = 1..n /\ DOMAIN r = 1..(m + n)
      BY <1>1, LenProperties
<1> HIDE DEF r, m, n
<1>3. \A i \in 1..m : i \in 1..(m + n) /\ r[i] = p[i]
      BY <1>1, <1>2
<1>4. \A i \in 1..n : m + i \in 1..(m + n) /\ r[m + i] = q[i]
  <2> SUFFICES ASSUME NEW i \in 1..n PROVE m + i \in 1..(m + n) /\ r[m + i] = q[i]
      OBVIOUS
  <2>1. m + i \in 1..(m + n) /\ ~(m + i <= m) /\ (m + i) - m = i
        BY <1>2
  <2> QED BY <1>1, <2>1
<1>5. \A i \in 1..(m + n) : i \in 1..m \/ \E j \in 1..n : i = m + j
  <2> SUFFICES ASSUME NEW i \in 1..(m + n), i \notin 1..m PROVE \E j \in 1..n : i = m + j
      OBVIOUS
  <2>1. i - m \in 1..n /\ i = m + (i - m)
        BY <1>2
  <2> QED BY <2>1
<1>6. TasksOf(r) = TasksOf(p) \cup TasksOf(q)
  <2>1. ASSUME NEW i \in 1..m PROVE p[i].task \in TasksOf(r)
        BY <1>2, <1>3 DEF TasksOf
  <2>2. ASSUME NEW j \in 1..n PROVE q[j].task \in TasksOf(r)
    <3>1. m + j \in DOMAIN r /\ r[m + j] = q[j]
          BY <1>2, <1>4
    <3> QED BY <3>1 DEF TasksOf
  <2>3. ASSUME NEW i \in 1..(m + n) PROVE r[i].task \in TasksOf(p) \cup TasksOf(q)
    <3>1. CASE i \in 1..m
          BY <1>2, <1>3, <3>1 DEF TasksOf
    <3>2. CASE i \notin 1..m
      <4>1. PICK j \in 1..n : i = m + j
            BY <1>5, <3>2
      <4> QED BY <1>2, <1>4, <4>1 DEF TasksOf
    <3> QED BY <3>1, <3>2
  <2>4. TasksOf(p) \cup TasksOf(q) \subseteq TasksOf(r)
        BY <1>2, <2>1, <2>2 DEF TasksOf
  <2>5. TasksOf(r) \subseteq TasksOf(p) \cup TasksOf(q)
    <3>1. ASSUME NEW t \in TasksOf(r) PROVE \E i \in 1..(m + n) : t = r[i].task
          BY <1>2 DEF TasksOf
    <3> QED BY <2>3, <3>1
  <2> QED BY <2>4, <2>5
<1>7. ASSUME Once(p), Once(q), TasksOf(p) \cap TasksOf(q) = {} PROVE Once(r)
  <2> SUFFICES ASSUME NEW i \in 1..(m + n), NEW j \in 1..(m + n), r[i].task = r[j].task
               PROVE  i = j
      BY <1>2 DEF Once
  <2>1. \A a \in 1..m, b \in 1..n : p[a].task # q[b].task
        BY <1>2, <1>7 DEF TasksOf
  <2>2. CASE i \in 1..m /\ j \in 1..m
        BY <1>2, <1>3, <1>7, <2>2 DEF Once
  <2>3. CASE i \notin 1..m /\ j \notin 1..m
    <3>1. PICK a \in 1..n, b \in 1..n : i = m + a /\ j = m + b
          BY <1>5, <2>3
    <3>2. q[a].task = q[b].task
          BY <1>4, <3>1
    <3> QED BY <1>2, <1>7, <3>1, <3>2 DEF Once
  <2>4. CASE i \in 1..m /\ j \notin 1..m
        BY <1>3, <1>4, <1>5, <2>1, <2>4
  <2>5. CASE i \notin 1..m /\ j \in 1..m
        BY <1>3, <1>4, <1>5, <2>1, <2>5
  <2> QED BY <2>2, <2>3, <2>4, <2>5
<1>8. DuesOf(r) \subseteq DuesOf(p) \cup DuesOf(q)
  <2>1. ASSUME NEW i \in 1..(m + n) PROVE r[i].due \in DuesOf(p) \cup DuesOf(q)
    <3>1. CASE i \in 1..m
          BY <1>2, <1>3, <3>1 DEF DuesOf
    <3>2. CASE i \notin 1..m
      <4>1. PICK j \in 1..n : i = m + j
            BY <1>5, <3>2
      <4> QED BY <1>2, <1>4, <4>1 DEF DuesOf
    <3> QED BY <3>1, <3>2
  <2>2. ASSUME NEW d \in DuesOf(r) PROVE \E i \in 1..(m + n) : d = r[i].due
        BY <1>2 DEF DuesOf
  <2> QED BY <2>1, <2>2
<1> QED BY <1>1, <1>6, <1>7, <1>8 DEF r

\* One entry alone, and none.
LEMMA ShortLists ==
    /\ <<>> \in Seq(Entry) /\ TasksOf(<<>>) = {} /\ DuesOf(<<>>) = {}
    /\ Once(<<>>) /\ Sorted(<<>>)
    /\ \A e \in Entry : /\ <<e>> \in Seq(Entry) /\ Once(<<e>>)
                        /\ TasksOf(<<e>>) = {e.task} /\ DuesOf(<<e>>) = {e.due}
<1>1. /\ <<>> \in Seq(Entry) /\ TasksOf(<<>>) = {} /\ DuesOf(<<>>) = {}
      /\ Once(<<>>) /\ Sorted(<<>>)
      BY DEF TasksOf, DuesOf, Once, Sorted
<1>2. ASSUME NEW e \in Entry
      PROVE  /\ <<e>> \in Seq(Entry) /\ Once(<<e>>)
             /\ TasksOf(<<e>>) = {e.task} /\ DuesOf(<<e>>) = {e.due}
  <2>1. <<e>> \in Seq(Entry) /\ DOMAIN <<e>> = {1} /\ <<e>>[1] = e
        OBVIOUS
  <2> QED BY <2>1 DEF TasksOf, DuesOf, Once
<1> QED BY <1>1, <1>2

\* A map without its first entry.
LEMMA TailFacts ==
    ASSUME NEW q \in Seq(Entry), q # <<>>
    PROVE  /\ Head(q) \in Entry /\ Tail(q) \in Seq(Entry)
           /\ DuesOf(Tail(q)) \subseteq DuesOf(q)
           /\ Head(q).task \in TasksOf(q) /\ Head(q).due \in DuesOf(q)
           /\ Sorted(q) => Sorted(Tail(q)) /\ \A d \in DuesOf(q) : Head(q).due <= d
           /\ Once(q) => /\ Once(Tail(q))
                         /\ TasksOf(Tail(q)) = TasksOf(q) \ {Head(q).task}
<1> DEFINE n == Len(q)
           r == Tail(q)
<1>1. /\ Head(q) = q[1] /\ r \in Seq(Entry) /\ Len(r) = n - 1
      /\ \A i \in 1..(n - 1) : r[i] = q[i + 1]
  <2>1. Tail(q) \in Seq(Entry) /\ Len(Tail(q)) = Len(q) - 1
        /\ \A i \in 1..Len(Tail(q)) : Tail(q)[i] = q[i + 1]
        BY HeadTailProperties
  <2> QED BY <2>1
<1>2. n \in Nat /\ n >= 1 /\ DOMAIN q = 1..n /\ DOMAIN r = 1..(n - 1)
      BY <1>1, LenProperties, EmptySeq
<1> HIDE DEF n, r
<1>3. /\ 1 \in 1..n /\ \A i \in 1..(n - 1) : i + 1 \in 1..n /\ i + 1 # 1
      /\ \A i \in 1..n : i # 1 => i - 1 \in 1..(n - 1) /\ r[i - 1] = q[i]
      BY <1>1, <1>2
<1>4. q[1] \in Entry /\ q[1].due \in Int
      BY <1>3, DuesAreIntegers DEF n
<1>5. DuesOf(r) \subseteq DuesOf(q)
  <2>1. ASSUME NEW i \in 1..(n - 1) PROVE r[i].due \in DuesOf(q)
    <3>1. i + 1 \in DOMAIN q /\ r[i] = q[i + 1]
          BY <1>1, <1>2, <1>3
    <3> QED BY <3>1 DEF DuesOf
  <2> QED BY <1>2, <2>1 DEF DuesOf
<1>6. q[1].task \in TasksOf(q) /\ q[1].due \in DuesOf(q)
      BY <1>2, <1>3 DEF TasksOf, DuesOf
<1>7. ASSUME Sorted(q) PROVE Sorted(r) /\ \A d \in DuesOf(q) : q[1].due <= d
  <2>1. Sorted(r)
    <3> SUFFICES ASSUME NEW i \in 1..(n - 1), NEW j \in 1..(n - 1), i < j
                 PROVE  r[i].due <= r[j].due
        BY <1>2 DEF Sorted
    <3>1. /\ i + 1 < j + 1 /\ i + 1 \in DOMAIN q /\ j + 1 \in DOMAIN q
          /\ r[i] = q[i + 1] /\ r[j] = q[j + 1]
          BY <1>1, <1>2, <1>3
    <3> QED BY <1>7, <3>1 DEF Sorted
  <2>2. ASSUME NEW i \in 1..n PROVE q[1].due <= q[i].due
    <3>1. CASE i = 1
          BY <1>4, <3>1
    <3>2. CASE i # 1
      <4>1. 1 < i
            BY <3>2
      <4> QED BY <1>2, <1>3, <1>7, <4>1 DEF Sorted
    <3> QED BY <3>1, <3>2
  <2> QED BY <1>2, <2>1, <2>2 DEF DuesOf
<1>8. ASSUME Once(q) PROVE Once(r) /\ TasksOf(r) = TasksOf(q) \ {q[1].task}
  <2>1. Once(r)
    <3> SUFFICES ASSUME NEW i \in 1..(n - 1), NEW j \in 1..(n - 1), r[i].task = r[j].task
                 PROVE  i = j
        BY <1>2 DEF Once
    <3>1. /\ i + 1 \in DOMAIN q /\ j + 1 \in DOMAIN q
          /\ r[i] = q[i + 1] /\ r[j] = q[j + 1]
          BY <1>1, <1>2, <1>3
    <3>2. i + 1 = j + 1
          BY <1>8, <3>1 DEF Once
    <3> QED BY <3>2
  <2>2. ASSUME NEW i \in 1..(n - 1) PROVE r[i].task \in TasksOf(q) \ {q[1].task}
    <3>1. i + 1 \in DOMAIN q /\ 1 \in DOMAIN q /\ i + 1 # 1 /\ r[i] = q[i + 1]
          BY <1>1, <1>2, <1>3
    <3> QED BY <1>8, <3>1 DEF TasksOf, Once
  <2>3. TasksOf(q) \ {q[1].task} \subseteq TasksOf(r)
        BY <1>2, <1>3 DEF TasksOf
  <2>4. TasksOf(r) \subseteq TasksOf(q) \ {q[1].task}
        BY <1>2, <2>2 DEF TasksOf
  <2> QED BY <2>1, <2>3, <2>4
<1> QED BY <1>1, <1>4, <1>5, <1>6, <1>7, <1>8 DEF r

\* The insertion of one entry after the other: the function that EmplaceAll
\* is written with exists, by induction over how far it is defined.
LEMMA EmplaceAllSteps ==
    ASSUME NEW map, NEW entries, Len(entries) \in Nat
    PROVE  \E f : /\ f[0] = map
                  /\ \A n \in 0..Len(entries) :
                       n < Len(entries) => f[n + 1] = Emplace(f[n], entries[n + 1])
                  /\ EmplaceAll(map, entries) = f[Len(entries)]
<1> PICK N \in Nat : N = Len(entries)
    OBVIOUS
<1> DEFINE Body(g, n) == IF n = 0 THEN map ELSE Emplace(g[n - 1], entries[n])
           Upto(n, g) == g = [i \in 0..n |-> Body(g, i)]
           P == {n \in 0..N : \E g : Upto(n, g)}
<1>1. 0 \in P
  <2> DEFINE g == [i \in 0..0 |-> map]
  <2>1. g = [i \in 0..0 |-> Body(g, i)]
        OBVIOUS
  <2> HIDE DEF g
  <2>2. Upto(0, g)
        BY <2>1
  <2> QED BY <2>2
<1>2. ASSUME NEW n \in 0..N, n \in P, n < N PROVE n + 1 \in P
  <2>1. PICK g : Upto(n, g)
        BY <1>2
  <2> DEFINE h == [i \in 0..(n + 1) |-> IF i <= n THEN g[i] ELSE Emplace(g[n], entries[n + 1])]
  <2>2. ASSUME NEW i \in 0..(n + 1) PROVE h[i] = Body(h, i)
    <3>1. CASE i = 0
          BY <2>1, <3>1
    <3>2. CASE i # 0 /\ i <= n
      <4>1. i \in 0..n /\ i - 1 \in 0..(n + 1) /\ i - 1 <= n
            BY <3>2
      <4>2. h[i] = g[i] /\ h[i - 1] = g[i - 1]
            BY <3>2, <4>1
      <4>3. g[i] = Body(g, i)
            BY <2>1, <4>1
      <4> HIDE DEF h
      <4> QED BY <3>2, <4>2, <4>3
    <3>3. CASE i = n + 1
      <4>1. n \in 0..(n + 1) /\ ~(n + 1 <= n) /\ (n + 1) - 1 = n /\ n + 1 # 0 /\ n <= n
            OBVIOUS
      <4>2. h[n] = g[n] /\ h[i] = Emplace(g[n], entries[n + 1])
            BY <3>3, <4>1
      <4> HIDE DEF h
      <4> QED BY <3>3, <4>1, <4>2
    <3> QED BY <3>1, <3>2, <3>3
  <2>3. DOMAIN h = 0..(n + 1) /\ h = [i \in 0..(n + 1) |-> h[i]]
        OBVIOUS
  <2> HIDE DEF h
  <2>4. Upto(n + 1, h)
        BY <2>2, <2>3
  <2>5. n + 1 \in 0..N
        BY <1>2
  <2> HIDE DEF Upto
  <2> QED BY <2>4, <2>5
<1>3. N \in P
  <2>1. P \in SUBSET Nat
        OBVIOUS
  <2> HIDE DEF P
  <2>2. 0..N \subseteq P
        BY <1>1, <1>2, <2>1, Counting
  <2> QED BY <2>2
<1> DEFINE f == CHOOSE g : g = [n \in 0..N |-> Body(g, n)]
<1>4. f = [n \in 0..N |-> Body(f, n)]
      BY <1>3
<1>5. EmplaceAll(map, entries) = f[N]
      BY DEF EmplaceAll
<1> HIDE DEF f
<1>6. f[0] = map
      BY <1>4
<1>7. ASSUME NEW n \in 0..N, n < N PROVE f[n + 1] = Emplace(f[n], entries[n + 1])
  <2>1. n + 1 \in 0..N /\ n + 1 # 0 /\ (n + 1) - 1 = n
        BY <1>7
  <2>2. f[n + 1] = Body(f, n + 1)
        BY <1>4, <2>1
  <2> QED BY <2>1, <2>2
<1> QED BY <1>5, <1>6, <1>7

\* Whatever is inserted, the map stays sorted and holds what it held and the
\* new entries, each once.
LEMMA EmplaceAllFacts ==
    ASSUME NEW map \in Seq(Entry), NEW entries \in Seq(Entry), Sorted(map)
    PROVE  /\ EmplaceAll(map, entries) \in Seq(Entry) /\ Sorted(EmplaceAll(map, entries))
           /\ TasksOf(EmplaceAll(map, entries)) = TasksOf(map) \cup TasksOf(entries)
           /\ DuesOf(EmplaceAll(map, entries)) \subseteq DuesOf(map) \cup DuesOf(entries)
           /\ Once(map) /\ Once(entries) /\ TasksOf(map) \cap TasksOf(entries) = {}
                => Once(EmplaceAll(map, entries))
<1> DEFINE N == Len(entries)
           Distinct == Once(map) /\ Once(entries) /\ TasksOf(map) \cap TasksOf(entries) = {}
           Inserted(n) == {entries[i].task : i \in 1..n}
<1>1. N \in Nat /\ DOMAIN entries = 1..N
      BY LenProperties
<1>2. PICK f : /\ f[0] = map
               /\ \A n \in 0..N : n < N => f[n + 1] = Emplace(f[n], entries[n + 1])
               /\ EmplaceAll(map, entries) = f[N]
      BY <1>1, EmplaceAllSteps
<1> HIDE DEF N
<1> DEFINE Good(n) == /\ f[n] \in Seq(Entry) /\ Sorted(f[n])
                      /\ TasksOf(f[n]) = TasksOf(map) \cup Inserted(n)
                      /\ DuesOf(f[n]) \subseteq DuesOf(map) \cup DuesOf(entries)
                      /\ Distinct => Once(f[n])
           P == {n \in 0..N : Good(n)}
<1>3. 0 \in P
  <2>1. Inserted(0) = {}
        OBVIOUS
  <2> QED BY <1>1, <1>2, <2>1
<1>4. ASSUME NEW n \in 0..N, n \in P, n < N PROVE n + 1 \in P
  <2>1. n + 1 \in 1..N /\ n + 1 \in 0..N
        BY <1>1, <1>4
  <2>2. PICK e \in Entry : e = entries[n + 1]
        BY <2>1, ElementOfSeq DEF N
  <2>3. e.due \in DuesOf(entries) /\ e.task \in TasksOf(entries)
        BY <1>1, <2>1, <2>2 DEF DuesOf, TasksOf
  <2>4. Good(n)
        BY <1>4
  <2>5. f[n + 1] = Emplace(f[n], e)
        BY <1>2, <1>4, <2>2
  <2>6. Inserted(n + 1) = Inserted(n) \cup {e.task}
    <3>1. 1..(n + 1) = (1..n) \cup {n + 1}
          OBVIOUS
    <3> QED BY <2>2, <3>1
  <2>7. ASSUME Distinct PROVE e.task \notin TasksOf(f[n])
    <3>1. \A i \in 1..n : i \in 1..N /\ i # n + 1
          BY <1>1, <2>1
    <3>2. e.task \notin Inserted(n)
          BY <1>1, <2>1, <2>2, <2>7, <3>1 DEF Once
    <3> QED BY <2>3, <2>4, <2>7, <3>2
  <2> HIDE DEF Inserted
  <2>8. /\ Emplace(f[n], e) \in Seq(Entry) /\ Sorted(Emplace(f[n], e))
        /\ TasksOf(Emplace(f[n], e)) = TasksOf(f[n]) \cup {e.task}
        /\ DuesOf(Emplace(f[n], e)) = DuesOf(f[n]) \cup {e.due}
        /\ Once(f[n]) /\ e.task \notin TasksOf(f[n]) => Once(Emplace(f[n], e))
        BY <2>4, EmplaceFacts
  <2> HIDE DEF Distinct
  <2>9. Good(n + 1)
        BY <2>3, <2>4, <2>5, <2>6, <2>7, <2>8
  <2> QED BY <2>1, <2>9
<1>5. Good(N)
  <2>1. P \in SUBSET Nat
        OBVIOUS
  <2> HIDE DEF P
  <2>2. 0..N \subseteq P
        BY <1>1, <1>3, <1>4, <2>1, Counting
  <2>3. N \in P
        BY <1>1, <2>2
  <2> USE DEF P
  <2> QED BY <2>3
<1>6. Inserted(N) = TasksOf(entries)
      BY <1>1 DEF TasksOf
<1> QED BY <1>2, <1>5, <1>6

-----------------------------------------------------------------------------
(* The inductive invariant *)

Typed ==
    /\ TypeOK
    /\ pending \in Seq(Entry) /\ delayMap \in Seq(Entry) /\ copyMap \in Seq(Entry)

\* An operation not over is in one of the three places, once.
PlaceInv ==
    /\ Once(pending) /\ Once(delayMap) /\ Once(copyMap)
    /\ TasksOf(pending) \cap TasksOf(delayMap) = {}
    /\ TasksOf(pending) \cap TasksOf(copyMap) = {}
    /\ TasksOf(delayMap) \cap TasksOf(copyMap) = {}
    /\ TasksOf(pending) \cup TasksOf(delayMap) \cup TasksOf(copyMap) = used \ ended

\* What a flush puts into the other map is due no earlier than its own time,
\* and later unless an operation asks for no delay.
FlushInv ==
    /\ Sorted(delayMap) /\ Sorted(copyMap)
    /\ flushNow <= now
    /\ pc # "flush" => copyMap = <<>>
    /\ pc = "flush" => \A d \in DuesOf(delayMap) :
                          flushNow <= d /\ (0 \notin TaskDelays => flushNow < d)

\* The timeout 0 means an empty map, and a sleep without a timeout has it.
SleepInv ==
    /\ pc \in {"sleep", "asleep"} /\ minDelay = 0 => delayMap = <<>>
    /\ pc = "asleep" /\ endless => minDelay = 0

Control == Typed /\ PlaceInv /\ FlushInv

USE DEF taskVars, vars

LEMMA InitEstablishes == Init => Control /\ SleepInv
<1> SUFFICES ASSUME Init PROVE Control /\ SleepInv
    OBVIOUS
<1> USE DEF Init
<1>1. Typed
  <2>1. pending \in Seq(Entry) /\ delayMap \in Seq(Entry) /\ copyMap \in Seq(Entry)
        BY ShortLists
  <2>2. 0 \in 0..MaxTime /\ 0 \in 0..MaxDue
        OBVIOUS
  <2> QED BY <2>1, <2>2 DEF Typed, TypeOK
<1>2. PlaceInv
      BY ShortLists DEF PlaceInv
<1>3. FlushInv
      BY ShortLists DEF FlushInv
<1>4. SleepInv
      BY DEF SleepInv
<1> QED BY <1>1, <1>2, <1>3, <1>4 DEF Control

LEMMA TickPreserves ==
    ASSUME NEW step \in Steps, Control, Tick(step)
    PROVE  Control'
BY DEF Control, Typed, TypeOK, PlaceInv, FlushInv, Tick, Expired

\* A registration from another thread is a new operation in the queue.
LEMMA StartPreserves ==
    ASSUME NEW k \in Tasks, NEW delayMs \in ClientDelays, Control, StartDelayOperation(k, delayMs)
    PROVE  Control'
<1> DEFINE e == [due |-> now + delayMs, task |-> k]
<1> USE DEF Control, StartDelayOperation, NewTask
<1>1. e \in Entry /\ e.task = k
      BY DEF Entry, Typed, TypeOK
<1> HIDE DEF e
<1>2. <<e>> \in Seq(Entry) /\ TasksOf(<<e>>) = {k} /\ Once(<<e>>)
      BY <1>1, ShortLists
<1>3. PICK one : one = <<e>>
      OBVIOUS
<1>4. pending' = one \o pending
      BY <1>3 DEF e
<1>5. /\ one \o pending \in Seq(Entry)
      /\ TasksOf(one \o pending) = TasksOf(one) \cup TasksOf(pending)
      /\ Once(one) /\ Once(pending) /\ TasksOf(one) \cap TasksOf(pending) = {}
           => Once(one \o pending)
      BY <1>2, <1>3, ConcatFacts DEF Typed
<1>6. k \notin used
      OBVIOUS
<1>7. Typed'
      BY <1>4, <1>5 DEF Typed, TypeOK
<1>8. PlaceInv'
  <2>1. k \notin TasksOf(pending) /\ k \notin TasksOf(delayMap) /\ k \notin TasksOf(copyMap)
        BY <1>6 DEF PlaceInv
  <2>2. Once(pending') /\ TasksOf(pending') = TasksOf(pending) \cup {k}
        BY <1>2, <1>3, <1>4, <1>5, <2>1 DEF PlaceInv
  <2>3. k \notin ended
        BY <1>6 DEF Typed, TypeOK
  <2> QED BY <2>1, <2>2, <2>3 DEF PlaceInv
<1>9. FlushInv'
      BY DEF FlushInv
<1> QED BY <1>7, <1>8, <1>9

LEMMA CancelPreserves ==
    ASSUME NEW k \in Tasks, Control, Cancel(k)
    PROVE  Control'
BY DEF Control, Typed, TypeOK, PlaceInv, FlushInv, Cancel

\* The flush begins with all entries in the copy, or nothing is due.
LEMMA GetMinDelayPreserves ==
    ASSUME Control, GetMinDelay
    PROVE  Control'
<1> USE DEF Control, GetMinDelay
<1>1. CASE delayMap # <<>> /\ Due(Head(delayMap), now)
  <2>1. copyMap = <<>> /\ copyMap' = delayMap /\ delayMap' = <<>> /\ pc' = "flush"
        BY <1>1 DEF FlushInv
  <2>2. Typed'
        BY <1>1, <2>1, ShortLists DEF Typed, TypeOK
  <2>3. PlaceInv'
        BY <1>1, <2>1, ShortLists DEF PlaceInv
  <2>4. FlushInv'
        BY <1>1, <2>1, ShortLists DEF FlushInv, Typed, TypeOK
  <2> QED BY <2>2, <2>3, <2>4
<1>2. CASE ~(delayMap # <<>> /\ Due(Head(delayMap), now))
  <2>1. minDelay' \in 0..MaxDue
    <3>1. CASE delayMap = <<>>
          BY <1>2, <3>1
    <3>2. CASE delayMap # <<>>
      <4>1. Head(delayMap) \in Entry
            BY <3>2, TailFacts DEF Typed
      <4> QED BY <1>2, <3>2, <4>1, EntryDue DEF Due, Typed, TypeOK
    <3> QED BY <3>1, <3>2
  <2>2. Typed'
        BY <1>2, <2>1 DEF Typed, TypeOK
  <2>3. PlaceInv'
        BY <1>2 DEF PlaceInv
  <2>4. FlushInv'
        BY <1>2 DEF FlushInv
  <2> QED BY <2>2, <2>3, <2>4
<1> QED BY <1>1, <1>2

\* The first entry of the copy leaves it.
LEMMA FirstLeaves ==
    ASSUME Control, DueEntry
    PROVE  /\ pc = "flush" /\ copyMap # <<>>
           /\ Head(copyMap) \in Entry /\ Head(copyMap).task \in Tasks
           /\ Tail(copyMap) \in Seq(Entry) /\ Sorted(Tail(copyMap)) /\ Once(Tail(copyMap))
           /\ TasksOf(Tail(copyMap)) = TasksOf(copyMap) \ {Head(copyMap).task}
           /\ Head(copyMap).task \in TasksOf(copyMap)
           /\ Head(copyMap).task \in used \ ended
           /\ Head(copyMap).task \notin TasksOf(delayMap)
           /\ Head(copyMap).task \notin TasksOf(pending)
<1>1. pc = "flush" /\ copyMap # <<>> /\ copyMap \in Seq(Entry) /\ Sorted(copyMap) /\ Once(copyMap)
      BY DEF Control, DueEntry, Typed, FlushInv, PlaceInv
<1>2. /\ Head(copyMap) \in Entry
      /\ Tail(copyMap) \in Seq(Entry) /\ Sorted(Tail(copyMap)) /\ Once(Tail(copyMap))
      /\ TasksOf(Tail(copyMap)) = TasksOf(copyMap) \ {Head(copyMap).task}
      /\ Head(copyMap).task \in TasksOf(copyMap)
      BY <1>1, TailFacts
<1>3. Head(copyMap).task \in Tasks
      BY <1>2, EntryDue
<1> QED BY <1>1, <1>2, <1>3 DEF Control, PlaceInv

LEMMA SkipTaskPreserves ==
    ASSUME Control, SkipTask
    PROVE  Control'
<1> USE DEF Control, SkipTask
<1>1. PICK k : k = Head(copyMap).task
      OBVIOUS
<1>2. DueEntry
      OBVIOUS
<1>3. Typed'
      BY <1>2, FirstLeaves DEF Typed, TypeOK
<1>4. PlaceInv'
  <2>1. /\ Once(copyMap') /\ TasksOf(copyMap') = TasksOf(copyMap) \ {k}
        /\ k \in TasksOf(copyMap) /\ k \notin TasksOf(delayMap) /\ k \notin TasksOf(pending)
        BY <1>1, <1>2, FirstLeaves
  <2>2. ended' = ended \cup {k}
        BY <1>1
  <2> QED BY <2>1, <2>2 DEF PlaceInv
<1>5. FlushInv'
      BY <1>2, FirstLeaves DEF FlushInv
<1> QED BY <1>3, <1>4, <1>5

\* The operation that has run goes over to the other map, or is over.
LEMMA RunTaskPreserves ==
    ASSUME NEW next \in NextDelays \cup {0}, Control, RunTask(next)
    PROVE  Control'
<1> DEFINE e == [due |-> flushNow + next, task |-> Head(copyMap).task]
<1> USE DEF Control, RunTask
<1>1. PICK k : k = Head(copyMap).task
      OBVIOUS
<1>2. DueEntry /\ copyMap' = Tail(copyMap)
      OBVIOUS
<1>3. /\ Once(copyMap') /\ Sorted(copyMap') /\ copyMap' \in Seq(Entry)
      /\ TasksOf(copyMap') = TasksOf(copyMap) \ {k}
      /\ k \in TasksOf(copyMap) /\ k \notin TasksOf(delayMap) /\ k \notin TasksOf(pending)
      /\ k \in used \ ended /\ k \in Tasks /\ pc = "flush"
      BY <1>1, <1>2, FirstLeaves
<1>4. CASE next = 0
  <2>1. ended' = ended \cup {k} /\ delayMap' = delayMap
        BY <1>1, <1>4
  <2>2. Typed'
        BY <1>3, <2>1 DEF Typed, TypeOK
  <2>3. PlaceInv'
        BY <1>3, <2>1 DEF PlaceInv
  <2>4. FlushInv'
        BY <1>3, <2>1 DEF FlushInv
  <2> QED BY <2>2, <2>3, <2>4
<1>5. CASE next # 0
  <2>1. e \in Entry /\ e.task = k /\ e.due > flushNow
        BY <1>1, <1>3, <1>5 DEF Entry, Typed, TypeOK
  <2>2. delayMap' = Emplace(delayMap, e) /\ ended' = ended
        BY <1>5
  <2> HIDE DEF e
  <2>3. /\ delayMap' \in Seq(Entry) /\ Sorted(delayMap')
        /\ TasksOf(delayMap') = TasksOf(delayMap) \cup {k}
        /\ DuesOf(delayMap') = DuesOf(delayMap) \cup {e.due}
        /\ Once(delayMap')
        BY <1>3, <2>1, <2>2, EmplaceFacts DEF Typed, FlushInv, PlaceInv
  <2>4. Typed'
        BY <1>3, <2>2, <2>3 DEF Typed, TypeOK
  <2>5. PlaceInv'
        BY <1>3, <2>2, <2>3 DEF PlaceInv
  <2>6. FlushInv'
    <3>1. e.due \in Int /\ flushNow \in Int
          BY <2>1, EntryDue DEF Typed, TypeOK
    <3>2. flushNow <= e.due /\ flushNow < e.due
          BY <2>1, <3>1
    <3> QED BY <1>3, <2>3, <3>2 DEF FlushInv
  <2> QED BY <2>4, <2>5, <2>6
<1> QED BY <1>4, <1>5

\* What a running operation starts is a new entry of the other map.
LEMMA TaskStartsPreserves ==
    ASSUME NEW k \in Tasks, NEW delayMs \in TaskDelays, Control, TaskStarts(k, delayMs)
    PROVE  Control'
<1> DEFINE e == [due |-> now + delayMs, task |-> k]
<1> USE DEF Control, TaskStarts, NewTask
<1>1. /\ e \in Entry /\ e.task = k /\ flushNow <= e.due
      /\ 0 \notin TaskDelays => flushNow < e.due
      BY DEF Entry, Typed, TypeOK, FlushInv
<1>2. delayMap' = Emplace(delayMap, e) /\ k \notin used /\ pc = "flush"
      BY DEF DueEntry
<1> HIDE DEF e
<1>3. k \notin TasksOf(pending) /\ k \notin TasksOf(delayMap) /\ k \notin TasksOf(copyMap)
      BY <1>2 DEF PlaceInv
<1>4. /\ delayMap' \in Seq(Entry) /\ Sorted(delayMap')
      /\ TasksOf(delayMap') = TasksOf(delayMap) \cup {k}
      /\ DuesOf(delayMap') = DuesOf(delayMap) \cup {e.due}
      /\ Once(delayMap')
  <2>1. delayMap \in Seq(Entry) /\ Sorted(delayMap) /\ Once(delayMap)
        BY DEF Typed, FlushInv, PlaceInv
  <2>2. PICK q \in Seq(Entry) : q = delayMap
        BY <2>1
  <2>3. /\ Emplace(q, e) \in Seq(Entry) /\ Sorted(Emplace(q, e))
        /\ TasksOf(Emplace(q, e)) = TasksOf(q) \cup {e.task}
        /\ DuesOf(Emplace(q, e)) = DuesOf(q) \cup {e.due}
        /\ Once(q) /\ e.task \notin TasksOf(q) => Once(Emplace(q, e))
        BY <1>1, <2>1, <2>2, EmplaceFacts
  <2>4. delayMap' = Emplace(q, e)
        BY <1>2, <2>2
  <2> HIDE DEF Control, TaskStarts
  <2> QED BY <1>1, <1>3, <2>1, <2>2, <2>3, <2>4
<1>5. Typed'
      BY <1>4 DEF Typed, TypeOK
<1>6. PlaceInv'
  <2>1. k \notin ended
        BY <1>2 DEF Typed, TypeOK
  <2> QED BY <1>3, <1>4, <2>1 DEF PlaceInv
<1>7. FlushInv'
      BY <1>1, <1>2, <1>4 DEF FlushInv
<1> QED BY <1>5, <1>6, <1>7

\* When the flush ends, what was not due and what it added make one map, all
\* of it due after the flush began.
LEMMA FlushEndsJoins ==
    ASSUME Control, FlushEnds
    PROVE  /\ delayMap' \in Seq(Entry) /\ Sorted(delayMap') /\ Once(delayMap')
           /\ TasksOf(delayMap') = TasksOf(delayMap) \cup TasksOf(copyMap)
           /\ \A d \in DuesOf(delayMap') : flushNow <= d /\ (0 \notin TaskDelays => flushNow < d)
           /\ delayMap' # <<>> => /\ Head(delayMap').due \in DuesOf(delayMap')
                                  /\ Head(delayMap').due \in 0..MaxDue
<1> USE DEF Control, FlushEnds
<1>1. delayMap' = EmplaceAll(copyMap, delayMap) /\ pc = "flush" /\ ~DueEntry
      BY DEF NewWithOld
<1>2. /\ delayMap' \in Seq(Entry) /\ Sorted(delayMap')
      /\ TasksOf(delayMap') = TasksOf(copyMap) \cup TasksOf(delayMap)
      /\ DuesOf(delayMap') \subseteq DuesOf(copyMap) \cup DuesOf(delayMap)
      /\ Once(delayMap')
      BY <1>1, EmplaceAllFacts DEF Typed, FlushInv, PlaceInv
<1>3. ASSUME NEW d \in DuesOf(copyMap) PROVE flushNow < d
  <2>1. copyMap # <<>>
        BY <1>3, ShortLists
  <2>2. Head(copyMap) \in Entry /\ Head(copyMap).due <= d
        BY <1>3, <2>1, TailFacts DEF Typed, FlushInv
  <2>3. ~(Head(copyMap).due <= flushNow) /\ flushNow \in Int /\ Head(copyMap).due \in Int
        BY <1>1, <2>1, <2>2, EntryDue DEF DueEntry, Due, Typed, TypeOK
  <2>4. d \in Int
        BY <1>3, DuesAreIntegers, LenProperties DEF DuesOf, Typed
  <2> QED BY <2>2, <2>3, <2>4
<1>4. ASSUME NEW d \in DuesOf(delayMap')
      PROVE  flushNow <= d /\ (0 \notin TaskDelays => flushNow < d)
  <2>1. CASE d \in DuesOf(copyMap)
    <3>1. d \in Int /\ flushNow \in Int
          BY <2>1, DuesAreIntegers, LenProperties DEF DuesOf, Typed, TypeOK
    <3> QED BY <1>3, <2>1, <3>1
  <2>2. CASE d \in DuesOf(delayMap)
        BY <1>1, <2>2 DEF FlushInv
  <2> QED BY <1>2, <2>1, <2>2
<1>5. ASSUME delayMap' # <<>>
      PROVE  Head(delayMap').due \in DuesOf(delayMap') /\ Head(delayMap').due \in 0..MaxDue
  <2>1. PICK q : q = delayMap'
        OBVIOUS
  <2>2. q \in Seq(Entry) /\ q # <<>>
        BY <1>2, <1>5, <2>1
  <2>3. Head(q) \in Entry /\ Head(q).due \in DuesOf(q)
        BY <2>2, TailFacts
  <2> QED BY <2>1, <2>3, EntryDue
<1> QED BY <1>2, <1>4, <1>5

LEMMA FlushEndsPreserves ==
    ASSUME Control, FlushEnds
    PROVE  Control'
<1> USE DEF Control, FlushEnds
<1>1. /\ delayMap' \in Seq(Entry) /\ Sorted(delayMap') /\ Once(delayMap')
      /\ TasksOf(delayMap') = TasksOf(delayMap) \cup TasksOf(copyMap)
      BY FlushEndsJoins
<1>2. minDelay' \in 0..MaxDue
  <2>1. CASE delayMap' = <<>>
        BY <2>1
  <2>2. CASE delayMap' # <<>>
    <3>1. Head(delayMap').due \in 0..MaxDue /\ flushNow <= Head(delayMap').due
          BY <2>2, FlushEndsJoins
    <3>2. minDelay' = Head(delayMap').due - flushNow
          BY <2>2 DEF FlushBegan
    <3> QED BY <3>1, <3>2 DEF Typed, TypeOK
  <2> QED BY <2>1, <2>2
<1>3. copyMap' = <<>> /\ pc' = "sleep"
      OBVIOUS
<1>4. Typed'
      BY <1>1, <1>2, <1>3, ShortLists DEF Typed, TypeOK
<1>5. PlaceInv'
      BY <1>1, <1>3, ShortLists DEF PlaceInv
<1>6. FlushInv'
      BY <1>1, <1>3, ShortLists DEF FlushInv
<1> QED BY <1>4, <1>5, <1>6

LEMMA SleepPreserves ==
    ASSUME Control, Sleep \/ TimeoutExpires
    PROVE  Control'
BY DEF Control, Typed, TypeOK, PlaceInv, FlushInv, Sleep, TimeoutExpires, WakeUp, Negative

\* The queue's registrations join the map.
LEMMA RegisterPreserves ==
    ASSUME Control, Register
    PROVE  Control'
<1> USE DEF Control, Register
<1>1. /\ delayMap' \in Seq(Entry) /\ Sorted(delayMap')
      /\ TasksOf(delayMap') = TasksOf(delayMap) \cup TasksOf(pending)
      /\ Once(delayMap')
  <2>1. TasksOf(delayMap) \cap TasksOf(pending) = {}
        BY DEF PlaceInv
  <2> QED BY <2>1, EmplaceAllFacts DEF Typed, FlushInv, PlaceInv
<1>2. pending' = <<>> /\ pc' = "top" /\ copyMap' = copyMap /\ pc = "asleep"
      BY DEF WakeUp
<1>3. Typed'
      BY <1>1, <1>2, ShortLists DEF Typed, TypeOK, WakeUp
<1>4. PlaceInv'
      BY <1>1, <1>2, ShortLists DEF PlaceInv
<1>5. FlushInv'
      BY <1>1, <1>2 DEF FlushInv
<1> QED BY <1>3, <1>4, <1>5

LEMMA Invariance == Spec => []Control
<1>1. Init => Control
      BY InitEstablishes
<1>2. Control /\ [Next]_vars => Control'
  <2> SUFFICES ASSUME Control, [Next]_vars PROVE Control'
      OBVIOUS
  <2>1. CASE UNCHANGED vars
        BY <2>1 DEF Control, Typed, TypeOK, PlaceInv, FlushInv
  <2>2. CASE Next
        BY <2>2, TickPreserves, StartPreserves, TaskStartsPreserves, CancelPreserves,
           GetMinDelayPreserves, SkipTaskPreserves, RunTaskPreserves, FlushEndsPreserves,
           SleepPreserves, RegisterPreserves DEF Next, LoopStep
  <2> QED BY <2>1, <2>2
<1> QED BY <1>1, <1>2, PTL DEF Spec

-----------------------------------------------------------------------------
(* The theorems *)

\* The state is well typed; above all no timeout is ever negative.
THEOREM TypeCorrect == Spec => []TypeOK
<1>1. Control => TypeOK
      BY DEF Control, Typed
<1> QED BY <1>1, Invariance, PTL

\* A started operation that has not ended has one entry in the queue, the map
\* or its copy, and one that has ended has none, for any operations, delays
\* and clock.
THEOREM EntriesKept == Spec => []OneEntryEach
<1>1. Control => OneEntryEach
  <2> SUFFICES ASSUME Control, NEW k \in used
               PROVE  LET all == pending \o delayMap \o copyMap IN
                      Cardinality({i \in DOMAIN all : all[i].task = k})
                        = IF k \in ended THEN 0 ELSE 1
      BY DEF OneEntryEach
  <2> USE DEF Control
  <2>1. PICK both : both = pending \o delayMap
        OBVIOUS
  <2>2. PICK all : all = both \o copyMap
        OBVIOUS
  <2>3. /\ both \in Seq(Entry) /\ TasksOf(both) = TasksOf(pending) \cup TasksOf(delayMap)
        /\ Once(both)
        BY <2>1, ConcatFacts DEF Typed, PlaceInv
  <2>4. TasksOf(both) \cap TasksOf(copyMap) = {}
        BY <2>3 DEF PlaceInv
  <2>5. all \in Seq(Entry) /\ TasksOf(all) = TasksOf(both) \cup TasksOf(copyMap) /\ Once(all)
        BY <2>2, <2>3, <2>4, ConcatFacts DEF Typed, PlaceInv
  <2>6. TasksOf(all) = used \ ended
        BY <2>3, <2>5 DEF PlaceInv
  <2> DEFINE Mine == {i \in DOMAIN all : all[i].task = k}
  <2>7. CASE k \in ended
    <3>1. Mine = {}
          BY <2>6, <2>7 DEF TasksOf
    <3> HIDE DEF Mine
    <3>2. Cardinality(Mine) = 0
          BY <3>1, FS_EmptySet
    <3> QED BY <2>1, <2>2, <2>7, <3>2 DEF Mine
  <2>8. CASE k \notin ended
    <3>1. PICK i \in DOMAIN all : all[i].task = k
          BY <2>6, <2>8 DEF TasksOf
    <3>2. Mine = {i}
          BY <2>5, <3>1 DEF Once
    <3> HIDE DEF Mine
    <3>3. Cardinality(Mine) = 1
          BY <3>2, FS_Singleton
    <3> QED BY <2>1, <2>2, <2>8, <3>3 DEF Mine
  <2> QED BY <2>7, <2>8
<1> QED BY <1>1, Invariance, PTL

(***************************************************************************)
(* How far ahead a due time can be, if no delay is longer than D: by D, and*)
(* when a flush ends, measured from when it began, by what it took as well.*)
(***************************************************************************)
DelaysUpTo(D) == \A delayMs \in ClientDelays \cup TaskDelays \cup NextDelays : delayMs <= D

AheadInv(D) ==
    \A d \in DuesOf(pending) \cup DuesOf(delayMap) \cup DuesOf(copyMap) : d <= now + D

\* The delays fit an int, those that a long flush adds to as well.
TimeoutsFit(D) ==
    /\ 2 * D < IntSize
    /\ pc = "flush" => 2 * (D + (now - flushNow)) < IntSize

FitInv == pc = "sleep" => 2 * minDelay < IntSize

\* No due time gets further ahead of the clock than the longest delay.
LEMMA AheadPreserves ==
    ASSUME NEW D \in Nat, DelaysUpTo(D), Control, AheadInv(D), [Next]_vars
    PROVE  AheadInv(D)'
<1> USE DEF Control
<1> DEFINE Dues == DuesOf(pending) \cup DuesOf(delayMap) \cup DuesOf(copyMap)
<1>1. /\ now \in Int /\ flushNow \in Int /\ flushNow <= now
      /\ \A d \in Dues : d \in Int /\ d <= now + D
  <2>1. ASSUME NEW q \in Seq(Entry), NEW d \in DuesOf(q) PROVE d \in Int
        BY DuesAreIntegers, LenProperties DEF DuesOf
  <2> QED BY <2>1 DEF Typed, TypeOK, FlushInv, AheadInv
<1>2. ASSUME now' = now, \A d \in Dues' : d \in Dues \/ d <= now + D
      PROVE  AheadInv(D)'
      BY <1>1, <1>2 DEF AheadInv
<1> HIDE DEF Dues
<1>3. CASE \E step \in Steps : Tick(step)
  <2>1. now' \in Int /\ now <= now' /\ UNCHANGED <<pending, delayMap, copyMap>>
        BY <1>1, <1>3 DEF Tick, Expired
  <2>2. \A d \in Dues : d <= now' + D
        BY <1>1, <2>1
  <2> QED BY <2>1, <2>2 DEF AheadInv, Dues
<1>4. CASE \E k \in Tasks, delayMs \in ClientDelays : StartDelayOperation(k, delayMs)
  <2>1. PICK k \in Tasks, delayMs \in ClientDelays : StartDelayOperation(k, delayMs)
        BY <1>4
  <2>2. PICK e : e = [due |-> now + delayMs, task |-> k]
        OBVIOUS
  <2>3. e \in Entry /\ e.due <= now + D
    <3>1. delayMs \in Nat /\ delayMs <= D /\ now \in Nat /\ now + delayMs <= MaxDue
          BY <2>1 DEF StartDelayOperation, DelaysUpTo, Typed, TypeOK
    <3>2. now + delayMs \in 0..MaxDue /\ now + delayMs <= now + D
          BY <1>1, <3>1
    <3> QED BY <2>2, <3>2 DEF Entry
  <2>4. PICK one \in Seq(Entry) : one = <<e>> /\ DuesOf(one) = {e.due}
        BY <2>3, ShortLists
  <2>5. pending' = one \o pending /\ UNCHANGED <<now, delayMap, copyMap>>
        BY <2>1, <2>2, <2>4 DEF StartDelayOperation
  <2>6. DuesOf(one \o pending) \subseteq DuesOf(one) \cup DuesOf(pending)
        BY <2>4, ConcatFacts DEF Typed
  <2> QED BY <1>2, <2>3, <2>4, <2>5, <2>6 DEF Dues
<1>5. CASE \E k \in Tasks, delayMs \in TaskDelays : TaskStarts(k, delayMs)
  <2>1. PICK k \in Tasks, delayMs \in TaskDelays : TaskStarts(k, delayMs)
        BY <1>5
  <2>2. PICK e : e = [due |-> now + delayMs, task |-> k]
        OBVIOUS
  <2>3. e \in Entry /\ e.due <= now + D
    <3>1. delayMs \in Nat /\ delayMs <= D /\ now \in Nat /\ now + delayMs <= MaxDue
          BY <2>1 DEF TaskStarts, DelaysUpTo, Typed, TypeOK
    <3>2. now + delayMs \in 0..MaxDue /\ now + delayMs <= now + D
          BY <1>1, <3>1
    <3> QED BY <2>2, <3>2 DEF Entry
  <2>4. delayMap' = Emplace(delayMap, e) /\ UNCHANGED <<now, pending, copyMap>>
        BY <2>1, <2>2 DEF TaskStarts
  <2>5. DuesOf(Emplace(delayMap, e)) = DuesOf(delayMap) \cup {e.due}
        BY <2>3, EmplaceFacts DEF Typed, FlushInv
  <2> QED BY <1>2, <2>3, <2>4, <2>5 DEF Dues
<1>6. CASE \E next \in NextDelays \cup {0} : RunTask(next)
  <2>1. PICK next \in NextDelays \cup {0} : RunTask(next)
        BY <1>6
  <2>2. UNCHANGED <<now, pending>> /\ copyMap' = Tail(copyMap) /\ copyMap # <<>>
        BY <2>1 DEF RunTask, DueEntry
  <2>3. DuesOf(Tail(copyMap)) \subseteq DuesOf(copyMap)
        BY <2>2, TailFacts DEF Typed
  <2>4. CASE next = 0
    <3>1. delayMap' = delayMap
          BY <2>1, <2>4 DEF RunTask
    <3> QED BY <1>2, <2>2, <2>3, <3>1 DEF Dues
  <2>5. CASE next # 0
    <3>1. PICK e : e = [due |-> flushNow + next, task |-> Head(copyMap).task]
          OBVIOUS
    <3>2. Head(copyMap).task \in Tasks
          BY <2>1, FirstLeaves DEF RunTask
    <3>3. e \in Entry /\ e.due <= now + D
      <4>1. next \in Nat /\ next <= D /\ flushNow \in Nat /\ flushNow + next <= MaxDue
            BY <2>1, <2>5 DEF RunTask, DelaysUpTo, Typed, TypeOK
      <4>2. flushNow + next \in 0..MaxDue /\ flushNow + next <= now + D
            BY <1>1, <4>1
      <4> QED BY <3>1, <3>2, <4>2 DEF Entry
    <3>4. delayMap' = Emplace(delayMap, e)
          BY <2>1, <2>5, <3>1 DEF RunTask
    <3>5. DuesOf(Emplace(delayMap, e)) = DuesOf(delayMap) \cup {e.due}
          BY <3>3, EmplaceFacts DEF Typed, FlushInv
    <3> QED BY <1>2, <2>2, <2>3, <3>3, <3>4, <3>5 DEF Dues
  <2> QED BY <2>4, <2>5
<1>7. CASE SkipTask
  <2>1. UNCHANGED <<now, pending, delayMap>> /\ copyMap' = Tail(copyMap) /\ copyMap # <<>>
        BY <1>7 DEF SkipTask, DueEntry
  <2>2. DuesOf(Tail(copyMap)) \subseteq DuesOf(copyMap)
        BY <2>1, TailFacts DEF Typed
  <2> QED BY <1>2, <2>1, <2>2 DEF Dues
<1>8. CASE FlushEnds
  <2>1. /\ delayMap' = EmplaceAll(copyMap, delayMap) /\ copyMap' = <<>>
        /\ UNCHANGED <<now, pending>>
        BY <1>8 DEF FlushEnds, NewWithOld
  <2>2. DuesOf(EmplaceAll(copyMap, delayMap)) \subseteq DuesOf(copyMap) \cup DuesOf(delayMap)
        BY EmplaceAllFacts DEF Typed, FlushInv
  <2> QED BY <1>2, <2>1, <2>2, ShortLists DEF Dues
<1>9. CASE Register
  <2>1. /\ delayMap' = EmplaceAll(delayMap, pending) /\ pending' = <<>>
        /\ UNCHANGED <<now, copyMap>>
        BY <1>9 DEF Register
  <2>2. DuesOf(EmplaceAll(delayMap, pending)) \subseteq DuesOf(delayMap) \cup DuesOf(pending)
        BY EmplaceAllFacts DEF Typed, FlushInv
  <2> QED BY <1>2, <2>1, <2>2, ShortLists DEF Dues
<1>10. CASE GetMinDelay
  <2>1. /\ UNCHANGED <<now, pending>>
        /\ \/ copyMap' = delayMap /\ delayMap' = <<>>
           \/ UNCHANGED <<delayMap, copyMap>>
        BY <1>10 DEF GetMinDelay
  <2> QED BY <1>2, <2>1, ShortLists DEF Dues
<1>11. CASE Sleep \/ TimeoutExpires \/ UNCHANGED vars \/ \E k \in Tasks : Cancel(k)
  <2>1. UNCHANGED <<now, pending, delayMap, copyMap>>
        BY <1>11 DEF Sleep, TimeoutExpires, Cancel
  <2> QED BY <1>2, <2>1 DEF Dues
<1> QED BY <1>3, <1>4, <1>5, <1>6, <1>7, <1>8, <1>9, <1>10, <1>11 DEF Next, LoopStep

\* A timeout is as long as the longest delay, and at the end of a flush as the
\* flush took.
LEMMA TimeoutFits ==
    ASSUME NEW D \in Nat, Control, AheadInv(D), AheadInv(D)', TimeoutsFit(D), FitInv, [Next]_vars
    PROVE  FitInv'
<1> USE DEF Control
<1>1. now \in Int /\ flushNow \in Int /\ minDelay \in Int /\ IntSize \in Nat /\ IntSize > 0
      BY DEF Typed, TypeOK
<1>2. CASE GetMinDelay
  <2>1. CASE delayMap # <<>> /\ Due(Head(delayMap), now)
        BY <1>2, <2>1 DEF GetMinDelay, FitInv
  <2>2. CASE delayMap = <<>>
        BY <1>1, <1>2, <2>2 DEF GetMinDelay, FitInv
  <2>3. CASE delayMap # <<>> /\ ~Due(Head(delayMap), now)
    <3>1. Head(delayMap) \in Entry /\ Head(delayMap).due \in DuesOf(delayMap)
          BY <2>3, TailFacts DEF Typed
    <3>2. Head(delayMap).due \in Int /\ Head(delayMap).due <= now + D
          BY <3>1, EntryDue DEF AheadInv
    <3>3. minDelay' = Head(delayMap).due - now
          BY <1>2, <2>3 DEF GetMinDelay
    <3> QED BY <1>1, <3>2, <3>3 DEF FitInv, TimeoutsFit
  <2> QED BY <2>1, <2>2, <2>3
<1>3. CASE FlushEnds
  <2>1. CASE delayMap' = <<>>
        BY <1>1, <1>3, <2>1 DEF FlushEnds, FitInv
  <2>2. CASE delayMap' # <<>>
    <3>1. Head(delayMap').due \in DuesOf(delayMap') /\ Head(delayMap').due \in 0..MaxDue
          BY <1>3, <2>2, FlushEndsJoins
    <3>2. now' = now /\ minDelay' = Head(delayMap').due - flushNow /\ pc = "flush"
          BY <1>3, <2>2 DEF FlushEnds, FlushBegan
    <3>3. Head(delayMap').due <= now + D
          BY <3>1, <3>2 DEF AheadInv
    <3> QED BY <1>1, <3>1, <3>2, <3>3 DEF FitInv, TimeoutsFit
  <2> QED BY <2>1, <2>2
<1>4. CASE ~GetMinDelay /\ ~FlushEnds
  <2>1. pc' = "sleep" => pc = "sleep" /\ minDelay' = minDelay
        BY <1>4 DEF Next, LoopStep, Tick, StartDelayOperation, TaskStarts, Cancel, SkipTask,
           RunTask, Sleep, TimeoutExpires, Register, WakeUp
  <2> QED BY <2>1 DEF FitInv
<1> QED BY <1>2, <1>3, <1>4

\* If no operation asks for a delay of 0 from inside a flush, and delays and
\* the time a flush takes fit an int together, the loop never sleeps without a
\* timeout while a delayed operation is registered.
THEOREM SleepsOnlyIdle ==
    ASSUME NEW D \in Nat, DelaysUpTo(D), 0 \notin TaskDelays
    PROVE  Spec /\ []TimeoutsFit(D) => []SleepsForeverOnlyIdle
<1> DEFINE Inv == AheadInv(D) /\ FitInv /\ SleepInv
<1>1. Init => Inv
  <2>1. Init => AheadInv(D)
        BY ShortLists DEF Init, AheadInv
  <2>2. Init => FitInv
        BY DEF Init, FitInv
  <2> QED BY <2>1, <2>2, InitEstablishes
<1>2. Control /\ Inv /\ TimeoutsFit(D) /\ [Next]_vars => Inv'
  <2> SUFFICES ASSUME Control, AheadInv(D), FitInv, SleepInv, TimeoutsFit(D), [Next]_vars
               PROVE  SleepInv'
      BY AheadPreserves, TimeoutFits
  <2>1. CASE GetMinDelay
    <3>1. CASE delayMap # <<>> /\ Due(Head(delayMap), now)
          BY <2>1, <3>1 DEF GetMinDelay, SleepInv
    <3>2. CASE delayMap = <<>>
          BY <2>1, <3>2 DEF GetMinDelay, SleepInv
    <3>3. CASE delayMap # <<>> /\ ~Due(Head(delayMap), now)
      <4>1. Head(delayMap) \in Entry
            BY <3>3, TailFacts DEF Control, Typed
      <4>2. Head(delayMap).due \in Int /\ now \in Int
            BY <4>1, EntryDue DEF Control, Typed, TypeOK
      <4>3. minDelay' = Head(delayMap).due - now /\ ~(Head(delayMap).due <= now) /\ pc' = "sleep"
            BY <2>1, <3>3 DEF GetMinDelay, Due
      <4> QED BY <4>2, <4>3 DEF SleepInv
    <3> QED BY <3>1, <3>2, <3>3
  <2>2. CASE FlushEnds
    <3>1. CASE delayMap' = <<>>
          BY <2>2, <3>1 DEF FlushEnds, SleepInv
    <3>2. CASE delayMap' # <<>>
      <4>1. Head(delayMap').due \in 0..MaxDue /\ flushNow < Head(delayMap').due
            BY <2>2, <3>2, FlushEndsJoins
      <4>2. minDelay' = Head(delayMap').due - flushNow /\ flushNow \in Int /\ pc' = "sleep"
            BY <2>2, <3>2 DEF FlushEnds, FlushBegan, Control, Typed, TypeOK
      <4> QED BY <4>1, <4>2 DEF SleepInv
    <3> QED BY <3>1, <3>2
  <2>3. CASE Sleep
    <3>1. minDelay \in Nat /\ IntSize \in Nat /\ 2 * minDelay < IntSize
          BY <2>3 DEF Control, Typed, TypeOK, FitInv, Sleep
    <3>2. minDelay % IntSize = minDelay
          BY <3>1
    <3>3. ~Negative(minDelay)
          BY <3>1, <3>2 DEF Negative
    <3> QED BY <2>3, <3>3 DEF Sleep, SleepInv
  <2>4. CASE TimeoutExpires \/ Register
        BY <2>4 DEF TimeoutExpires, Register, WakeUp, SleepInv
  <2>5. CASE SkipTask \/ \E next \in NextDelays \cup {0} : RunTask(next)
        BY <2>5 DEF SkipTask, RunTask, DueEntry, SleepInv
  <2>6. CASE \/ \E step \in Steps : Tick(step)
             \/ \E k \in Tasks : Cancel(k)
             \/ \E k \in Tasks, delayMs \in ClientDelays : StartDelayOperation(k, delayMs)
             \/ UNCHANGED vars
    <3>1. UNCHANGED <<delayMap, minDelay, endless, pc>>
          BY <2>6 DEF Tick, Cancel, StartDelayOperation
    <3> QED BY <3>1 DEF SleepInv
  <2>7. CASE \E k \in Tasks, delayMs \in TaskDelays : TaskStarts(k, delayMs)
        BY <2>7 DEF TaskStarts, DueEntry, SleepInv
  <2> QED BY <2>1, <2>2, <2>3, <2>4, <2>5, <2>6, <2>7 DEF Next, LoopStep
<1>3. Inv => SleepsForeverOnlyIdle
      BY DEF SleepInv, SleepsForeverOnlyIdle
<1> HIDE DEF Inv
<1> QED BY <1>1, <1>2, <1>3, Invariance, PTL DEF Spec
=============================================================================
