-------------------------- MODULE ReusePoolProofs --------------------------
(***************************************************************************)
(* Theorems about Util/: List.tla and ReusePool.tla, whose pool is a list  *)
(* of objects.                                                             *)
(*                                                                         *)
(* For any lists, nodes and values: the lists are well formed, and they    *)
(* implement ListProtocol, the sequences that the other models take them   *)
(* for.  For any threads, any set of addresses and any pool sizes: typing, *)
(* exclusive ownership, and that no object leaks or is used after its      *)
(* deletion.                                                               *)
(***************************************************************************)
EXTENDS ReusePool, List, SequenceTheorems, FiniteSetTheorems, WellFoundedInduction, TLAPS

-----------------------------------------------------------------------------
(* List.tla *)

\* The least-number principle, with a set for the predicate.
LEMMA LeastNumber ==
    ASSUME NEW T \in SUBSET Nat, T # {}
    PROVE  \E x \in T : \A y \in T : x <= y
<1> DEFINE R == {ss \in Nat \X Nat : ss[1] < ss[2]}
<1>1. IsWellFoundedOn(R, Nat)
      BY NatLessThanWellFounded DEF OpToRel
<1> HIDE DEF R
<1>2. PICK x \in T : \A y \in T : ~(<<y, x>> \in R)
      BY <1>1, WFMin
<1>3. \A y \in T : ~(y < x)
      BY <1>2 DEF R
<1> QED BY <1>3

-----------------------------------------------------------------------------
(* One list *)

\* links lead along the nodes of c, the last of which has nothing behind it.
Linked(c, links) ==
    \A i \in 1..Len(c) : links[c[i]] = IF i = Len(c) THEN nullptr ELSE c[i + 1]

\* c are the nodes, each once, of a list with first and last node f and b and
\* the count s.
Holds(c, f, b, s, links) ==
    /\ c \in Seq(Nodes) /\ IsInjective(c) /\ Linked(c, links)
    /\ f = IF c = <<>> THEN nullptr ELSE c[1]
    /\ b = IF c = <<>> THEN nullptr ELSE c[Len(c)]
    /\ s = Len(c)

\* The number and the kind of the elements.
LEMMA NodeFacts ==
    ASSUME NEW c \in Seq(Nodes)
    PROVE  /\ Len(c) \in Nat /\ DOMAIN c = 1..Len(c)
           /\ c # <<>> <=> Len(c) > 0
           /\ \A i \in 1..Len(c) : c[i] \in Nodes /\ c[i] # nullptr
<1>1. Len(c) \in Nat /\ DOMAIN c = 1..Len(c)
      BY LenProperties
<1>2. c # <<>> => Len(c) > 0
      BY EmptySeq
<1>3. Len(c) > 0 => c # <<>>
      BY EmptySeq
<1>4. \A i \in 1..Len(c) : c[i] \in Nodes
      BY ElementOfSeq
<1> QED BY <1>1, <1>2, <1>3, <1>4, NodesAssumption

\* A list has no more nodes than there are.
LEMMA FitsMemory ==
    ASSUME NEW c \in Seq(Nodes), IsInjective(c)
    PROVE  Len(c) <= Cardinality(Nodes) /\ Cardinality(Nodes) \in Nat
<1> DEFINE n == Len(c)
<1>1. n \in Nat /\ DOMAIN c = 1..n /\ c \in [1..n -> Nodes]
      BY LenProperties
<1>2. IsFiniteSet(1..n) /\ Cardinality(1..n) = n
      BY <1>1, FS_Interval
<1>3. Cardinality(Nodes) \in Nat
      BY NodesAssumption, FS_CardinalityType
<1>4. \A i, j \in 1..n : c[i] = c[j] => i = j
      BY <1>1 DEF IsInjective
<1> HIDE DEF n
<1>5. ~(Cardinality(Nodes) < Cardinality(1..n))
      BY <1>1, <1>2, <1>4, FS_PigeonHole, NodesAssumption
<1> QED BY <1>1, <1>2, <1>3, <1>5 DEF n

\* for_each() meets the nodes of a list in their order, and no others.
LEMMA WalkMeetsNodes ==
    ASSUME NEW c, NEW f, NEW b, NEW s, NEW links, Holds(c, f, b, s, links)
    PROVE  Walk(f, links) = c
<1> DEFINE N == Cardinality(Nodes)
           After(at, k) ==
               IF k = 1 THEN f
               ELSE IF at[k - 1] = nullptr THEN nullptr ELSE links[at[k - 1]]
           F == [k \in 1..N |-> IF k <= Len(c) THEN c[k] ELSE nullptr]
           G == CHOOSE at : at = [k \in 1..N |-> After(at, k)]
<1>1. /\ Len(c) \in Nat /\ DOMAIN c = 1..Len(c) /\ (c # <<>> <=> Len(c) > 0)
      /\ \A i \in 1..Len(c) : c[i] # nullptr
      BY NodeFacts DEF Holds
<1>2. N \in Nat /\ Len(c) <= N
      BY FitsMemory DEF Holds
<1>3. \A i \in 1..Len(c) : links[c[i]] = IF i = Len(c) THEN nullptr ELSE c[i + 1]
      BY DEF Holds, Linked
<1>4. f = IF c = <<>> THEN nullptr ELSE c[1]
      BY DEF Holds
<1> HIDE DEF N
<1>5. F = [k \in 1..N |-> After(F, k)]
  <2> SUFFICES ASSUME NEW k \in 1..N PROVE F[k] = After(F, k)
      OBVIOUS
  <2>1. CASE k = 1
        BY <1>1, <1>2, <1>4, <2>1
  <2>2. CASE k # 1 /\ k - 1 <= Len(c)
    <3>1. k - 1 \in 1..N /\ k - 1 \in 1..Len(c)
          BY <1>1, <1>2, <2>2
    <3>2. F[k - 1] = c[k - 1] /\ F[k - 1] # nullptr
          BY <1>1, <3>1
    <3>3. links[c[k - 1]] = IF k - 1 = Len(c) THEN nullptr ELSE c[k]
          BY <1>3, <3>1
    <3>4. F[k] = IF k - 1 = Len(c) THEN nullptr ELSE c[k]
          BY <1>1, <2>2
    <3> QED BY <2>2, <3>2, <3>3, <3>4
  <2>3. CASE k # 1 /\ ~(k - 1 <= Len(c))
    <3>1. k - 1 \in 1..N /\ F[k - 1] = nullptr /\ F[k] = nullptr
          BY <1>1, <1>2, <2>3
    <3> QED BY <2>3, <3>1
  <2> QED BY <2>1, <2>2, <2>3
<1> HIDE DEF F
<1>6. G = [k \in 1..N |-> After(G, k)]
      BY <1>5
<1> HIDE DEF G
<1>7. \A k \in 1..N : G[k] = F[k]
  <2> DEFINE T == {k \in 1..N : G[k] # F[k]}
  <2> SUFFICES ASSUME T # {} PROVE FALSE
      OBVIOUS
  <2>1. PICK k \in T : \A j \in T : k <= j
    <3>1. T \in SUBSET Nat /\ T # {}
          BY <1>2
    <3> HIDE DEF T
    <3> QED BY <3>1, LeastNumber
  <2>2. k \in 1..N /\ G[k] # F[k]
        OBVIOUS
  <2>3. G[k] = After(G, k) /\ F[k] = After(F, k)
        BY <1>5, <1>6, <2>2
  <2>4. k # 1
        BY <2>2, <2>3
  <2>5. k - 1 \in 1..N /\ k - 1 \notin T
        BY <1>2, <2>1, <2>2, <2>4
  <2>6. G[k - 1] = F[k - 1]
        BY <2>5
  <2> QED BY <2>2, <2>3, <2>4, <2>6
<1>8. G = F
      BY <1>5, <1>6, <1>7
<1>9. Walk(f, links) = [k \in {i \in DOMAIN G : G[i] # nullptr} |-> G[k]]
      BY DEF Walk, G, N
<1>10. DOMAIN G = 1..N /\ {i \in 1..N : F[i] # nullptr} = 1..Len(c)
      BY <1>1, <1>2, <1>6 DEF F
<1>11. Walk(f, links) = [k \in 1..Len(c) |-> F[k]]
      BY <1>8, <1>9, <1>10
<1>12. \A k \in 1..Len(c) : F[k] = c[k]
      BY <1>1, <1>2 DEF F
<1>13. c = [k \in 1..Len(c) |-> c[k]]
      BY LenProperties DEF Holds
<1> QED BY <1>11, <1>12, <1>13

\* A change of other nodes does not reach a list.
LEMMA OtherNodes ==
    ASSUME NEW c, NEW f, NEW b, NEW s, NEW old, NEW links, Holds(c, f, b, s, old),
           \A n \in Range(c) : links[n] = old[n]
    PROVE  Holds(c, f, b, s, links)
<1>1. \A i \in 1..Len(c) : c[i] \in Range(c)
      BY NodeFacts DEF Holds, Range
<1> QED BY <1>1 DEF Holds, Linked

\* No list.
LEMMA NoNodes ==
    ASSUME NEW links
    PROVE  Holds(<<>>, nullptr, nullptr, 0, links) /\ Range(<<>>) = {}
<1>1. <<>> \in Seq(Nodes) /\ Len(<<>>) = 0
      BY EmptySeq
<1>2. IsInjective(<<>>) /\ Range(<<>>) = {}
      BY DEF IsInjective, Range
<1> QED BY <1>1, <1>2 DEF Holds, Linked

\* A list of one node.
LEMMA OneNode ==
    ASSUME NEW n \in Nodes, NEW links, links[n] = nullptr
    PROVE  Holds(<<n>>, n, n, 1, links) /\ Range(<<n>>) = {n}
<1>1. <<n>> \in Seq(Nodes) /\ Len(<<n>>) = 1 /\ DOMAIN <<n>> = {1} /\ <<n>>[1] = n
      OBVIOUS
<1>2. IsInjective(<<n>>) /\ Range(<<n>>) = {n}
      BY <1>1 DEF IsInjective, Range
<1>3. <<n>> # <<>>
      OBVIOUS
<1> QED BY <1>1, <1>2, <1>3 DEF Holds, Linked

\* pop_front(): what is behind the first node is a list without it.
LEMMA WithoutFirst ==
    ASSUME NEW c, NEW f, NEW b, NEW s, NEW links, Holds(c, f, b, s, links), c # <<>>
    PROVE  /\ Holds(Tail(c), links[f], IF links[f] = nullptr THEN nullptr ELSE b, s - 1, links)
           /\ Range(c) = Range(Tail(c)) \cup {f} /\ f \notin Range(Tail(c)) /\ f \in Nodes
<1> DEFINE d == Tail(c)
<1>1. /\ Len(c) \in Nat /\ DOMAIN c = 1..Len(c) /\ Len(c) > 0 /\ c \in Seq(Nodes)
      /\ \A i \in 1..Len(c) : c[i] \in Nodes /\ c[i] # nullptr
      BY NodeFacts DEF Holds
<1>2. /\ d \in Seq(Nodes) /\ Len(d) = Len(c) - 1
      /\ \A i \in 1..(Len(c) - 1) : d[i] = c[i + 1]
      BY <1>1, HeadTailProperties
<1>3. DOMAIN d = 1..(Len(c) - 1) /\ (d # <<>> <=> Len(d) > 0)
      BY <1>1, <1>2, NodeFacts
<1>4. f = c[1] /\ b = c[Len(c)] /\ s = Len(c)
      BY DEF Holds
<1>5. \A i, j \in 1..Len(c) : c[i] = c[j] => i = j
      BY <1>1 DEF Holds, IsInjective
<1>6. \A i \in 1..Len(c) : links[c[i]] = IF i = Len(c) THEN nullptr ELSE c[i + 1]
      BY DEF Holds, Linked
<1> HIDE DEF d
<1>7. IsInjective(d)
  <2> SUFFICES ASSUME NEW i \in 1..(Len(c) - 1), NEW j \in 1..(Len(c) - 1), d[i] = d[j]
               PROVE  i = j
      BY <1>3 DEF IsInjective
  <2>1. i + 1 \in 1..Len(c) /\ j + 1 \in 1..Len(c) /\ c[i + 1] = c[j + 1]
        BY <1>1, <1>2
  <2> QED BY <1>5, <2>1
<1>8. Linked(d, links)
  <2> SUFFICES ASSUME NEW i \in 1..Len(d)
               PROVE  links[d[i]] = IF i = Len(d) THEN nullptr ELSE d[i + 1]
      BY DEF Linked
  <2>1. i + 1 \in 1..Len(c) /\ d[i] = c[i + 1]
        BY <1>1, <1>2
  <2>2. links[d[i]] = IF i + 1 = Len(c) THEN nullptr ELSE c[(i + 1) + 1]
        BY <1>6, <2>1
  <2>3. i # Len(d) => i + 1 \in 1..(Len(c) - 1)
    <3>1. Len(c) \in Nat /\ Len(d) = Len(c) - 1
          BY <1>1, <1>2
    <3> QED BY <3>1
  <2>4. i # Len(d) => d[i + 1] = c[(i + 1) + 1]
        BY <1>2, <2>3
  <2>5. i + 1 = Len(c) <=> i = Len(d)
        BY <1>1, <1>2
  <2> QED BY <2>2, <2>4, <2>5
<1>9. links[f] = IF d = <<>> THEN nullptr ELSE d[1]
  <2>1. 1 \in 1..Len(c) /\ (Len(c) # 1 => 1 \in 1..(Len(c) - 1))
        BY <1>1
  <2>2. links[c[1]] = IF 1 = Len(c) THEN nullptr ELSE c[1 + 1]
        BY <1>6, <2>1
  <2>3. Len(c) # 1 => d[1] = c[1 + 1]
        BY <1>2, <2>1
  <2>4. d = <<>> <=> Len(c) = 1
        BY <1>1, <1>2, <1>3
  <2> QED BY <1>4, <2>2, <2>3, <2>4
<1>10. (IF links[f] = nullptr THEN nullptr ELSE b) = IF d = <<>> THEN nullptr ELSE d[Len(d)]
  <2>1. CASE d = <<>>
        BY <1>9, <2>1
  <2>2. CASE d # <<>>
    <3>1. Len(d) \in 1..(Len(c) - 1) /\ 1 \in 1..(Len(c) - 1)
          BY <1>1, <1>2, <1>3, <2>2
    <3>2. d[1] # nullptr /\ d[Len(d)] = c[Len(c)]
      <4>1. Len(d) + 1 = Len(c) /\ 2 \in 1..Len(c)
            BY <1>1, <1>2, <3>1
      <4>2. d[Len(d)] = c[Len(d) + 1] /\ d[1] = c[2]
            BY <1>2, <3>1
      <4> QED BY <1>1, <4>1, <4>2
    <3> QED BY <1>4, <1>9, <2>2, <3>2
  <2> QED BY <2>1, <2>2
<1>11. Range(c) = Range(d) \cup {c[1]}
  <2>1. ASSUME NEW i \in 1..Len(c) PROVE c[i] \in Range(d) \cup {c[1]}
    <3>1. CASE i = 1
          BY <3>1
    <3>2. CASE i # 1
      <4>1. i - 1 \in DOMAIN d /\ d[i - 1] = c[i]
            BY <1>1, <1>2, <1>3, <3>2
      <4> QED BY <4>1 DEF Range
    <3> QED BY <3>1, <3>2
  <2>2. ASSUME NEW i \in 1..(Len(c) - 1) PROVE d[i] \in Range(c)
    <3>1. i + 1 \in DOMAIN c /\ c[i + 1] = d[i]
          BY <1>1, <1>2
    <3> QED BY <3>1 DEF Range
  <2>3. c[1] \in Range(c)
        BY <1>1 DEF Range
  <2>4. Range(c) \subseteq Range(d) \cup {c[1]}
        BY <1>1, <2>1 DEF Range
  <2>5. Range(d) \subseteq Range(c)
        BY <1>3, <2>2 DEF Range
  <2> QED BY <2>3, <2>4, <2>5
<1>12. c[1] \notin Range(d)
  <2>1. ASSUME NEW i \in 1..(Len(c) - 1) PROVE d[i] # c[1]
        BY <1>1, <1>2, <1>5
  <2> QED BY <1>3, <2>1 DEF Range
<1>13. Holds(d, links[f], IF links[f] = nullptr THEN nullptr ELSE b, s - 1, links)
      BY <1>2, <1>4, <1>7, <1>8, <1>9, <1>10 DEF Holds
<1> QED BY <1>1, <1>4, <1>11, <1>12, <1>13 DEF d

\* emplace_front(), emplace_back() and append(): the nodes of d behind those of
\* c, whose last node leads to them.
LEMMA Joined ==
    ASSUME NEW c, NEW f1, NEW b1, NEW s1, NEW l1, Holds(c, f1, b1, s1, l1), c # <<>>,
           NEW d, NEW f2, NEW b2, NEW s2, NEW l2, Holds(d, f2, b2, s2, l2),
           Range(c) \cap Range(d) = {},
           NEW links, \A n \in Range(d) : links[n] = l2[n],
           \A n \in Range(c) \ {b1} : links[n] = l1[n], links[b1] = f2
    PROVE  /\ Holds(c \o d, f1, IF d = <<>> THEN b1 ELSE b2, s1 + s2, links)
           /\ Range(c \o d) = Range(c) \cup Range(d)
<1> DEFINE e == c \o d
           m == Len(c)
           n == Len(d)
<1>1. /\ m \in Nat /\ DOMAIN c = 1..m /\ m > 0 /\ c \in Seq(Nodes)
      /\ \A i \in 1..m : c[i] \in Nodes /\ c[i] # nullptr
      BY NodeFacts DEF Holds
<1>2. n \in Nat /\ DOMAIN d = 1..n /\ (d # <<>> <=> n > 0) /\ d \in Seq(Nodes)
      BY NodeFacts DEF Holds
<1>3. /\ e \in Seq(Nodes) /\ Len(e) = m + n
      /\ \A i \in 1..(m + n) : e[i] = IF i <= m THEN c[i] ELSE d[i - m]
      BY <1>1, <1>2, ConcatProperties
<1>4. DOMAIN e = 1..(m + n) /\ (e # <<>> <=> m + n > 0)
      BY <1>3, NodeFacts
<1>5. f1 = c[1] /\ b1 = c[m] /\ s1 = m /\ s2 = n
      BY DEF Holds
<1>6. f2 = IF d = <<>> THEN nullptr ELSE d[1]
      BY DEF Holds
<1>7. b2 = IF d = <<>> THEN nullptr ELSE d[n]
      BY DEF Holds
<1>8. Range(e) = Range(c) \cup Range(d)
      BY <1>1, <1>2, RangeConcatenation
<1>9. /\ \A i, j \in 1..m : c[i] = c[j] => i = j
      /\ \A i, j \in 1..n : d[i] = d[j] => i = j
      BY <1>1, <1>2 DEF Holds, IsInjective
<1>10. \A i \in 1..m, j \in 1..n : c[i] # d[j]
      BY <1>1, <1>2 DEF Range
<1>11. \A i \in 1..m : l1[c[i]] = IF i = m THEN nullptr ELSE c[i + 1]
      BY DEF Holds, Linked
<1>12. \A i \in 1..n : l2[d[i]] = IF i = n THEN nullptr ELSE d[i + 1]
      BY DEF Holds, Linked
<1>13. /\ \A i \in 1..m : c[i] \in Range(c)
       /\ \A i \in 1..n : d[i] \in Range(d)
      BY <1>1, <1>2 DEF Range
<1> HIDE DEF e, m, n
<1>14. IsInjective(e)
  <2> SUFFICES ASSUME NEW i \in 1..(m + n), NEW j \in 1..(m + n), e[i] = e[j]
               PROVE  i = j
      BY <1>4 DEF IsInjective
  <2>1. CASE i <= m /\ j <= m
        BY <1>1, <1>2, <1>3, <1>9, <2>1
  <2>2. CASE i > m /\ j > m
    <3>1. i - m \in 1..n /\ j - m \in 1..n /\ d[i - m] = d[j - m]
          BY <1>1, <1>2, <1>3, <2>2
    <3>2. i - m = j - m
          BY <1>9, <3>1
    <3> QED BY <1>1, <1>2, <3>2
  <2>3. CASE i <= m /\ j > m
    <3>1. i \in 1..m /\ j - m \in 1..n /\ e[i] = c[i] /\ e[j] = d[j - m]
          BY <1>1, <1>2, <1>3, <2>3
    <3> QED BY <1>10, <3>1
  <2>4. CASE i > m /\ j <= m
    <3>1. j \in 1..m /\ i - m \in 1..n /\ e[j] = c[j] /\ e[i] = d[i - m]
          BY <1>1, <1>2, <1>3, <2>4
    <3> QED BY <1>10, <3>1
  <2> QED BY <1>1, <1>2, <2>1, <2>2, <2>3, <2>4
<1>15. Linked(e, links)
  <2> SUFFICES ASSUME NEW i \in 1..(m + n)
               PROVE  links[e[i]] = IF i = m + n THEN nullptr ELSE e[i + 1]
      BY <1>3 DEF Linked
  <2>1. CASE i < m
    <3>1. i \in 1..m /\ i # m /\ m \in 1..m /\ i + 1 \in 1..(m + n) /\ i + 1 <= m /\ i # m + n
          BY <1>1, <1>2, <2>1
    <3>2. e[i] = c[i] /\ e[i + 1] = c[i + 1]
          BY <1>3, <2>1, <3>1
    <3>3. c[i] # b1
          BY <1>5, <1>9, <3>1
    <3>4. links[c[i]] = c[i + 1]
          BY <1>11, <1>13, <3>1, <3>3
    <3> QED BY <3>1, <3>2, <3>4
  <2>2. CASE i = m
    <3>1. e[i] = b1 /\ links[e[i]] = f2
          BY <1>3, <1>5, <2>2, <1>1
    <3>2. CASE n = 0
          BY <1>1, <1>2, <1>6, <2>2, <3>1, <3>2
    <3>3. CASE n # 0
      <4>1. m + 1 \in 1..(m + n) /\ ~(m + 1 <= m) /\ (m + 1) - m = 1 /\ m # m + n /\ d # <<>>
            BY <1>1, <1>2, <3>3
      <4>2. e[m + 1] = d[1]
            BY <1>3, <4>1
      <4> QED BY <1>6, <2>2, <3>1, <4>1, <4>2
    <3> QED BY <3>2, <3>3
  <2>3. CASE i > m
    <3>1. i - m \in 1..n /\ ~(i <= m)
          BY <1>1, <1>2, <2>3
    <3>2. e[i] = d[i - m]
          BY <1>3, <3>1
    <3>3. links[d[i - m]] = IF i - m = n THEN nullptr ELSE d[(i - m) + 1]
          BY <1>12, <1>13, <3>1
    <3>4. i - m = n <=> i = m + n
          BY <1>1, <1>2, <2>3
    <3>5. ASSUME i # m + n PROVE e[i + 1] = d[(i - m) + 1]
      <4>1. i + 1 \in 1..(m + n) /\ ~(i + 1 <= m) /\ (i + 1) - m = (i - m) + 1
            BY <1>1, <1>2, <2>3, <3>5
      <4> QED BY <1>3, <4>1
    <3> QED BY <3>2, <3>3, <3>4, <3>5
  <2> QED BY <1>1, <1>2, <2>1, <2>2, <2>3
<1>16. f1 = e[1] /\ s1 + s2 = Len(e) /\ e # <<>>
  <2>1. 1 \in 1..(m + n) /\ 1 <= m
        BY <1>1, <1>2
  <2> QED BY <1>1, <1>2, <1>3, <1>4, <1>5, <2>1
<1>17. (IF d = <<>> THEN b1 ELSE b2) = e[Len(e)]
  <2>1. CASE d = <<>>
    <3>1. n = 0 /\ m + n = m /\ m \in 1..(m + n) /\ m <= m
          BY <1>1, <1>2, <2>1
    <3> QED BY <1>3, <1>5, <2>1, <3>1
  <2>2. CASE d # <<>>
    <3>1. m + n \in 1..(m + n) /\ ~(m + n <= m) /\ (m + n) - m = n
          BY <1>1, <1>2, <2>2
    <3> QED BY <1>3, <1>7, <2>2, <3>1
  <2> QED BY <2>1, <2>2
<1>18. Holds(e, f1, IF d = <<>> THEN b1 ELSE b2, s1 + s2, links)
      BY <1>3, <1>14, <1>15, <1>16, <1>17 DEF Holds
<1> QED BY <1>8, <1>18 DEF e

\* One node more, before the first.
LEMMA OneBefore ==
    ASSUME NEW d, NEW f, NEW b, NEW s, NEW old, Holds(d, f, b, s, old),
           NEW n \in Nodes, n \notin Range(d),
           NEW links, \A x \in Range(d) : links[x] = old[x], links[n] = f
    PROVE  /\ Holds(<<n>> \o d, n, IF d = <<>> THEN n ELSE b, 1 + s, links)
           /\ Range(<<n>> \o d) = Range(d) \cup {n}
<1> DEFINE alone == [x \in Nodes |-> nullptr]
<1>1. Holds(<<n>>, n, n, 1, alone) /\ Range(<<n>>) = {n} /\ <<n>> # <<>>
      BY OneNode
<1>2. {n} \cap Range(d) = {} /\ \A x \in {n} \ {n} : links[x] = alone[x]
      OBVIOUS
<1> HIDE DEF alone
<1> QED BY <1>1, <1>2, Joined

\* One node more, behind the last.
LEMMA OneBehind ==
    ASSUME NEW d, NEW f, NEW b, NEW s, NEW old, Holds(d, f, b, s, old),
           NEW n \in Nodes, n \notin Range(d),
           NEW links, \A x \in Range(d) \ {b} : links[x] = old[x], links[n] = nullptr,
           d # <<>> => links[b] = n
    PROVE  /\ Holds(d \o <<n>>, IF d = <<>> THEN n ELSE f, n, s + 1, links)
           /\ Range(d \o <<n>>) = Range(d) \cup {n}
<1>1. Holds(<<n>>, n, n, 1, links) /\ Range(<<n>>) = {n} /\ <<n>> # <<>> /\ <<n>> \in Seq(Nodes)
      BY OneNode
<1>2. CASE d = <<>>
  <2>1. d \o <<n>> = <<n>> /\ s = 0 /\ Range(d) = {}
        BY <1>1, <1>2, ConcatEmptySeq, NoNodes, EmptySeq DEF Holds
  <2> QED BY <1>1, <1>2, <2>1
<1>3. CASE d # <<>>
  <2>1. Range(d) \cap Range(<<n>>) = {} /\ \A x \in Range(<<n>>) : links[x] = links[x]
        BY <1>1
  <2>2. links[b] = n
        BY <1>3
  <2> QED BY <1>1, <1>3, <2>1, <2>2, Joined
<1> QED BY <1>2, <1>3

-----------------------------------------------------------------------------
(* What a list shows of its nodes *)

Image(c, memory) == [i \in 1..Len(c) |-> memory[c[i]]]

\* It is the values of the nodes in their order.
LEMMA ImageFacts ==
    ASSUME NEW c \in Seq(Nodes), NEW memory \in [Nodes -> Values]
    PROVE  /\ Image(c, memory) \in Seq(Values) /\ Len(Image(c, memory)) = Len(c)
           /\ \A i \in 1..Len(c) : Image(c, memory)[i] = memory[c[i]]
<1>1. Len(c) \in Nat /\ \A i \in 1..Len(c) : memory[c[i]] \in Values
      BY NodeFacts
<1> DEFINE e(i) == memory[c[i]]
<1>2. \A i \in 1..Len(c) : e(i) \in Values
      BY <1>1
<1> HIDE DEF e
<1>3. [i \in 1..Len(c) |-> e(i)] \in Seq(Values)
      BY <1>1, <1>2, IsASeq
<1>4. Image(c, memory) \in Seq(Values)
      BY <1>3 DEF Image, e
<1>5. DOMAIN Image(c, memory) = 1..Len(c)
      BY DEF Image
<1>6. Len(Image(c, memory)) = Len(c)
      BY <1>1, <1>5
<1> QED BY <1>4, <1>6 DEF Image

\* Nodes that are not in a list do not show.
LEMMA ImageKept ==
    ASSUME NEW c \in Seq(Nodes), NEW old, NEW memory, \A n \in Range(c) : memory[n] = old[n]
    PROVE  Image(c, memory) = Image(c, old)
<1>1. \A i \in 1..Len(c) : c[i] \in Range(c)
      BY NodeFacts DEF Range
<1> QED BY <1>1 DEF Image

\* What lists show when they are joined.
LEMMA ImageOfJoined ==
    ASSUME NEW c \in Seq(Nodes), NEW d \in Seq(Nodes), NEW memory \in [Nodes -> Values]
    PROVE  Image(c \o d, memory) = Image(c, memory) \o Image(d, memory)
<1> DEFINE e == c \o d
           p == Image(c, memory)
           q == Image(d, memory)
           r == Image(e, memory)
<1>1. /\ e \in Seq(Nodes) /\ Len(e) = Len(c) + Len(d)
      /\ \A i \in 1..Len(c) + Len(d) : e[i] = IF i <= Len(c) THEN c[i] ELSE d[i - Len(c)]
      BY ConcatProperties
<1> HIDE DEF e
<1>2. /\ p \in Seq(Values) /\ Len(p) = Len(c)
      /\ \A i \in 1..Len(c) : p[i] = memory[c[i]]
      BY ImageFacts
<1>3. /\ q \in Seq(Values) /\ Len(q) = Len(d)
      /\ \A i \in 1..Len(d) : q[i] = memory[d[i]]
      BY ImageFacts
<1>4. /\ r \in Seq(Values) /\ Len(r) = Len(e)
      /\ \A i \in 1..Len(e) : r[i] = memory[e[i]]
      BY <1>1, ImageFacts
<1>5. Len(c) \in Nat /\ Len(d) \in Nat
      BY NodeFacts
<1> HIDE DEF p, q, r
<1>6. /\ p \o q \in Seq(Values) /\ Len(p \o q) = Len(p) + Len(q)
      /\ \A i \in 1..Len(p) + Len(q) : (p \o q)[i] = IF i <= Len(p) THEN p[i] ELSE q[i - Len(p)]
      BY <1>2, <1>3, ConcatProperties
<1>7. ASSUME NEW i \in 1..Len(r) PROVE r[i] = (p \o q)[i]
  <2>1. i \in 1..Len(c) + Len(d) /\ r[i] = memory[e[i]]
        BY <1>1, <1>4
  <2>2. CASE i <= Len(c)
    <3>1. i \in 1..Len(c) /\ e[i] = c[i] /\ (p \o q)[i] = p[i]
          BY <1>1, <1>2, <1>3, <1>5, <1>6, <2>1, <2>2
    <3> QED BY <1>2, <2>1, <3>1
  <2>3. CASE ~(i <= Len(c))
    <3>1. i - Len(c) \in 1..Len(d) /\ e[i] = d[i - Len(c)] /\ (p \o q)[i] = q[i - Len(c)]
          BY <1>1, <1>2, <1>3, <1>5, <1>6, <2>1, <2>3
    <3> QED BY <1>3, <2>1, <3>1
  <2> QED BY <2>2, <2>3
<1>8. r = p \o q
      BY <1>1, <1>2, <1>3, <1>4, <1>6, <1>7, SeqEqual
<1> QED BY <1>8 DEF p, q, r, e

\* What a list shows when its first node is gone.
LEMMA ImageOfTail ==
    ASSUME NEW c \in Seq(Nodes), c # <<>>, NEW memory \in [Nodes -> Values]
    PROVE  Image(c, memory) # <<>> /\ Image(Tail(c), memory) = Tail(Image(c, memory))
<1> DEFINE d == Tail(c)
           p == Image(c, memory)
           q == Image(d, memory)
<1>1. /\ d \in Seq(Nodes) /\ Len(d) = Len(c) - 1
      /\ \A i \in 1..Len(d) : d[i] = c[i + 1]
      BY HeadTailProperties
<1> HIDE DEF d
<1>2. /\ p \in Seq(Values) /\ Len(p) = Len(c)
      /\ \A i \in 1..Len(c) : p[i] = memory[c[i]]
      BY ImageFacts
<1>3. /\ q \in Seq(Values) /\ Len(q) = Len(d)
      /\ \A i \in 1..Len(d) : q[i] = memory[d[i]]
      BY <1>1, ImageFacts
<1>4. Len(c) \in Nat /\ Len(c) > 0
      BY NodeFacts
<1> HIDE DEF p, q
<1>5. p # <<>>
      BY <1>2, <1>4, EmptySeq
<1>6. /\ Tail(p) \in Seq(Values) /\ Len(Tail(p)) = Len(p) - 1
      /\ \A i \in 1..Len(Tail(p)) : Tail(p)[i] = p[i + 1]
      BY <1>2, <1>5, HeadTailProperties
<1>7. ASSUME NEW i \in 1..Len(q) PROVE q[i] = Tail(p)[i]
  <2>1. i \in 1..Len(d) /\ i \in 1..Len(Tail(p)) /\ i + 1 \in 1..Len(c)
    <3>1. Len(q) = Len(c) - 1 /\ Len(d) = Len(c) - 1 /\ Len(Tail(p)) = Len(c) - 1
          BY <1>1, <1>2, <1>3, <1>6
    <3> QED BY <1>4, <3>1
  <2>2. q[i] = memory[d[i]] /\ d[i] = c[i + 1]
        BY <1>1, <1>3, <2>1
  <2>3. Tail(p)[i] = p[i + 1] /\ p[i + 1] = memory[c[i + 1]]
        BY <1>2, <1>6, <2>1
  <2> QED BY <2>2, <2>3
<1>8. q = Tail(p)
      BY <1>1, <1>2, <1>3, <1>6, <1>7, SeqEqual
<1> QED BY <1>5, <1>8 DEF p, q, d

-----------------------------------------------------------------------------
(* The inductive invariant: each list has a chain of nodes.  WellFormed says *)
(* so of the nodes that a walk meets; an inductive proof needs to know that  *)
(* next ends where _back points, or the walk might go on behind it.          *)

Types ==
    /\ data \in [Nodes -> Values] /\ next \in [Nodes -> Pointers]
    /\ front \in [Lists -> Pointers] /\ back \in [Lists -> Pointers]
    /\ size \in [Lists -> Nat]

Chained(chain) ==
    /\ chain \in [Lists -> Seq(Nodes)]
    /\ \A l \in Lists : Holds(chain[l], front[l], back[l], size[l], next)
    /\ \A a, b \in Lists : a # b => Range(chain[a]) \cap Range(chain[b]) = {}
    /\ \A n : n \in allocated <=> \E l \in Lists : n \in Range(chain[l])

ListInv == Types /\ \E chain : Chained(chain)

\* What the lists show.
View(chain, memory) == [l \in Lists |-> Image(chain[l], memory)]

\* One pointer is null when the other is, and when there is nothing in the list.
LEMMA EndsAgree ==
    ASSUME NEW chain, Chained(chain), NEW l \in Lists
    PROVE  /\ front[l] = nullptr <=> chain[l] = <<>>
           /\ back[l] = nullptr <=> chain[l] = <<>>
           /\ size[l] = Len(chain[l]) /\ (size[l] = 0 <=> chain[l] = <<>>)
           /\ chain[l] # <<>> => /\ front[l] = chain[l][1] /\ back[l] = chain[l][Len(chain[l])]
                                 /\ front[l] \in Range(chain[l]) /\ back[l] \in Range(chain[l])
                                 /\ front[l] \in Nodes /\ back[l] \in Nodes
<1> DEFINE c == chain[l]
<1>1. /\ c \in Seq(Nodes) /\ size[l] = Len(c)
      /\ front[l] = IF c = <<>> THEN nullptr ELSE c[1]
      /\ back[l] = IF c = <<>> THEN nullptr ELSE c[Len(c)]
      BY DEF Chained, Holds
<1>2. /\ Len(c) \in Nat /\ DOMAIN c = 1..Len(c) /\ (c # <<>> <=> Len(c) > 0)
      /\ \A i \in 1..Len(c) : c[i] \in Nodes /\ c[i] # nullptr
      BY <1>1, NodeFacts
<1> HIDE DEF c
<1>3. c # <<>> => 1 \in 1..Len(c) /\ Len(c) \in 1..Len(c)
      BY <1>2
<1>4. c # <<>> => c[1] \in Range(c) /\ c[Len(c)] \in Range(c)
      BY <1>2, <1>3 DEF Range
<1>5. c # <<>> => c[1] \in Nodes /\ c[1] # nullptr /\ c[Len(c)] \in Nodes /\ c[Len(c)] # nullptr
      BY <1>2, <1>3
<1>6. size[l] = 0 <=> c = <<>>
      BY <1>1, <1>2
<1> QED BY <1>1, <1>4, <1>5, <1>6 DEF c

\* A node that is not allocated is in no list.
LEMMA FreshNode ==
    ASSUME NEW chain, Chained(chain), NEW n, n \notin allocated
    PROVE  \A l \in Lists : n \notin Range(chain[l])
BY DEF Chained

\* List l gets another chain, and the other lists keep theirs.
LEMMA OneChanged ==
    ASSUME NEW chain, Chained(chain), NEW l \in Lists, NEW after \in [Lists -> Seq(Nodes)],
           \A m \in Lists \ {l} : after[m] = chain[m],
           Holds(after[l], front'[l], back'[l], size'[l], next'),
           \A m \in Lists \ {l} : front'[m] = front[m] /\ back'[m] = back[m] /\ size'[m] = size[m],
           \A m \in Lists \ {l} : Range(after[l]) \cap Range(chain[m]) = {},
           \A m \in Lists \ {l} : \A n \in Range(chain[m]) : next'[n] = next[n],
           \A n : n \in allocated' <=>
                     (n \in allocated /\ n \notin Range(chain[l])) \/ n \in Range(after[l])
    PROVE  Chained(after)'
<1>3. ASSUME NEW m \in Lists PROVE Holds(after[m], front'[m], back'[m], size'[m], next')
  <2>1. CASE m = l
        BY <2>1
  <2>2. CASE m # l
    <3>1. Holds(chain[m], front'[m], back'[m], size'[m], next)
          BY <2>2 DEF Chained
    <3>2. \A n \in Range(chain[m]) : next'[n] = next[n]
          BY <2>2
    <3>3. Holds(chain[m], front'[m], back'[m], size'[m], next')
          BY <3>1, <3>2, OtherNodes
    <3> QED BY <2>2, <3>3
  <2> QED BY <2>1, <2>2
<1>4. ASSUME NEW a \in Lists, NEW b \in Lists, a # b
      PROVE  Range(after[a]) \cap Range(after[b]) = {}
  <2>1. CASE a = l
        BY <1>4, <2>1
  <2>2. CASE b = l
        BY <1>4, <2>2
  <2>3. CASE a # l /\ b # l
        BY <1>4, <2>3 DEF Chained
  <2> QED BY <2>1, <2>2, <2>3
<1>5. ASSUME NEW n PROVE n \in allocated' <=> \E m \in Lists : n \in Range(after[m])
  <2>1. n \in allocated <=> \E m \in Lists : n \in Range(chain[m])
        BY DEF Chained
  <2>2. \A m \in Lists \ {l} : ~(n \in Range(chain[m]) /\ n \in Range(chain[l]))
        BY DEF Chained
  <2> QED BY <2>1, <2>2
<1> QED BY <1>3, <1>4, <1>5 DEF Chained

\* What the other lists show stays.
LEMMA OneShown ==
    ASSUME NEW chain, Chained(chain), NEW l \in Lists, NEW after \in [Lists -> Seq(Nodes)],
           \A m \in Lists \ {l} : after[m] = chain[m],
           \A m \in Lists \ {l} : \A n \in Range(chain[m]) : data'[n] = data[n]
    PROVE  \A m \in Lists \ {l} : Image(after[m], data') = Image(chain[m], data)
<1> SUFFICES ASSUME NEW m \in Lists \ {l} PROVE Image(after[m], data') = Image(chain[m], data)
    OBVIOUS
<1>1. chain[m] \in Seq(Nodes) /\ \A n \in Range(chain[m]) : data'[n] = data[n]
      BY DEF Chained
<1>2. Image(chain[m], data') = Image(chain[m], data)
      BY <1>1, ImageKept
<1> QED BY <1>2

-----------------------------------------------------------------------------
(* The operations, one by one *)

\* A new node is in no list, and next of the others stays.
LEMMA NewNodeFacts ==
    ASSUME Types, NEW chain, Chained(chain), NEW n \in Nodes, NEW v \in Values, NewNode(n, v)
    PROVE  /\ \A m \in Lists : chain[m] \in Seq(Nodes) /\ n \notin Range(chain[m])
           /\ \A m \in Lists : \A x \in Range(chain[m]) : x # n /\ data'[x] = data[x]
           /\ data' \in [Nodes -> Values] /\ data'[n] = v
           /\ \A x : x \in allocated' <=> x \in allocated \/ x = n
           /\ Image(<<n>>, data') = <<v>> /\ <<n>> \in Seq(Nodes)
<1>1. n \notin allocated
      BY DEF NewNode
<1>2. \A m \in Lists : chain[m] \in Seq(Nodes) /\ n \notin Range(chain[m])
      BY <1>1, FreshNode DEF Chained
<1>3. data' = [data EXCEPT ![n] = v]
      BY DEF NewNode
<1>4. data' \in [Nodes -> Values] /\ data'[n] = v
      BY <1>3 DEF Types
<1>5. \A m \in Lists : \A x \in Range(chain[m]) : x # n
      BY <1>2
<1>6. \A x : x # n => data'[x] = data[x]
      BY <1>3 DEF Types
<1>7. Image(<<n>>, data') = <<v>>
      BY <1>4 DEF Image
<1>8. \A x : x \in allocated' <=> x \in allocated \/ x = n
      BY DEF NewNode
<1> QED BY <1>2, <1>4, <1>5, <1>6, <1>7, <1>8

\* List l gets a new node, and the other lists show what they showed.
LEMMA NodeAdded ==
    ASSUME Types, NEW chain, Chained(chain), NEW l \in Lists, NEW n \in Nodes, NEW v \in Values,
           NewNode(n, v), NEW after \in [Lists -> Seq(Nodes)],
           \A m \in Lists \ {l} : after[m] = chain[m],
           Holds(after[l], front'[l], back'[l], size'[l], next'),
           Range(after[l]) = Range(chain[l]) \cup {n},
           \A m \in Lists \ {l} : front'[m] = front[m] /\ back'[m] = back[m] /\ size'[m] = size[m],
           \A m \in Lists \ {l} : \A x \in Range(chain[m]) : next'[x] = next[x]
    PROVE  /\ Chained(after)'
           /\ \A m \in Lists \ {l} : Image(after[m], data') = Image(chain[m], data)
<1>1. /\ \A m \in Lists : chain[m] \in Seq(Nodes) /\ n \notin Range(chain[m])
      /\ \A m \in Lists : \A x \in Range(chain[m]) : x # n /\ data'[x] = data[x]
      /\ data' \in [Nodes -> Values] /\ data'[n] = v
      /\ \A x : x \in allocated' <=> x \in allocated \/ x = n
      /\ Image(<<n>>, data') = <<v>> /\ <<n>> \in Seq(Nodes)
      BY NewNodeFacts
<1>2. Chained(after)'
  <2>1. \A m \in Lists \ {l} : Range(after[l]) \cap Range(chain[m]) = {}
        BY <1>1 DEF Chained
  <2>2. \A x : x \in Range(chain[l]) => x \in allocated
        BY DEF Chained
  <2>3. \A x : x \in allocated' <=>
                  (x \in allocated /\ x \notin Range(chain[l])) \/ x \in Range(after[l])
        BY <1>1, <2>2
  <2> QED BY <2>1, <2>3, OneChanged, SMTT(60)
<1>3. \A m \in Lists \ {l} : Image(after[m], data') = Image(chain[m], data)
  <2>1. \A m \in Lists \ {l} : \A x \in Range(chain[m]) : data'[x] = data[x]
        BY <1>1
  <2> QED BY <2>1, OneShown
<1> QED BY <1>2, <1>3

\* After the step the lists are well formed, list l shows s, and the others
\* show what they showed.
OneShows(chain, after, l, s) ==
    /\ Types' /\ Chained(after)'
    /\ View(after, data')[l] = s
    /\ \A m \in Lists \ {l} : View(after, data')[m] = View(chain, data)[m]

TwoShow(chain, after, a, s, b, t) ==
    /\ Types' /\ Chained(after)'
    /\ View(after, data')[a] = s /\ View(after, data')[b] = t
    /\ \A m \in Lists \ {a, b} : View(after, data')[m] = View(chain, data)[m]

\* emplace_front() puts a node before the first.
LEMMA EmplaceFrontStep ==
    ASSUME Types, NEW chain, Chained(chain), NEW l \in Lists, NEW n \in Nodes, NEW v \in Values,
           EmplaceFront(l, n, v),
           NEW after \in [Lists -> Seq(Nodes)], after[l] = <<n>> \o chain[l],
           \A m \in Lists \ {l} : after[m] = chain[m]
    PROVE  OneShows(chain, after, l, <<v>> \o View(chain, data)[l])
<1> DEFINE d == chain[l]
           c == <<n>> \o d
<1>1. NewNode(n, v)
      BY DEF EmplaceFront
<1>2. /\ \A m \in Lists : chain[m] \in Seq(Nodes) /\ n \notin Range(chain[m])
      /\ \A m \in Lists : \A x \in Range(chain[m]) : x # n /\ data'[x] = data[x]
      /\ data' \in [Nodes -> Values] /\ data'[n] = v
      /\ \A x : x \in allocated' <=> x \in allocated \/ x = n
      /\ Image(<<n>>, data') = <<v>> /\ <<n>> \in Seq(Nodes)
      BY <1>1, NewNodeFacts
<1>3. Holds(d, front[l], back[l], size[l], next)
      BY DEF Chained
<1>4. front[l] = nullptr <=> d = <<>>
      BY EndsAgree
<1>5. /\ next' = [next EXCEPT ![n] = front[l]]
      /\ front' = [front EXCEPT ![l] = n]
      /\ back' = [back EXCEPT ![l] = IF d = <<>> THEN n ELSE back[l]]
      /\ size' = [size EXCEPT ![l] = 1 + size[l]]
  <2>1. CASE front[l] = nullptr
    <3>1. OnlyNode(l, n) /\ d = <<>> /\ size[l] = 0
          BY <1>4, <2>1, EndsAgree DEF EmplaceFront
    <3> QED BY <2>1, <3>1 DEF OnlyNode
  <2>2. CASE front[l] # nullptr
        BY <1>4, <2>2 DEF EmplaceFront, Types
  <2> QED BY <2>1, <2>2
<1>6. Types'
  <2>1. front[l] \in Pointers /\ n \in Pointers /\ back[l] \in Pointers /\ 1 + size[l] \in Nat
        BY DEF Types, Pointers
  <2> QED BY <1>2, <1>5, <2>1 DEF Types
<1>7. Holds(c, n, IF d = <<>> THEN n ELSE back[l], 1 + size[l], next') /\ Range(c) = Range(d) \cup {n}
  <2>1. \A x \in Range(d) : next'[x] = next[x]
        BY <1>2, <1>5 DEF Types
  <2>2. next'[n] = front[l] /\ n \notin Range(d)
        BY <1>2, <1>5 DEF Types
  <2> QED BY <1>3, <2>1, <2>2, OneBefore
<1>8. d \in Seq(Nodes) /\ Image(c, data') = <<v>> \o Image(d, data)
  <2>1. d \in Seq(Nodes) /\ \A x \in Range(d) : data'[x] = data[x]
        BY <1>2
  <2>2. Image(d, data') = Image(d, data)
        BY <2>1, ImageKept
  <2>3. Image(c, data') = Image(<<n>>, data') \o Image(d, data')
        BY <1>2, <2>1, ImageOfJoined
  <2> QED BY <1>2, <2>1, <2>2, <2>3
<1>9. after[l] = c
      OBVIOUS
<1> HIDE DEF c
<1>10. /\ Chained(after)'
       /\ \A m \in Lists \ {l} : Image(after[m], data') = Image(chain[m], data)
  <2>1. Holds(after[l], front'[l], back'[l], size'[l], next')
        BY <1>5, <1>7, <1>9 DEF Types
  <2>2. \A m \in Lists \ {l} : front'[m] = front[m] /\ back'[m] = back[m] /\ size'[m] = size[m]
        BY <1>5 DEF Types
  <2>3. \A m \in Lists \ {l} : \A x \in Range(chain[m]) : next'[x] = next[x]
        BY <1>2, <1>5 DEF Types
  <2>4. Range(after[l]) = Range(chain[l]) \cup {n}
        BY <1>7, <1>9
  <2> QED BY <1>1, <2>1, <2>2, <2>3, <2>4, NodeAdded
<1>11. /\ View(after, data')[l] = Image(c, data') /\ View(chain, data)[l] = Image(d, data)
       /\ \A m \in Lists \ {l} : View(after, data')[m] = View(chain, data)[m]
      BY <1>9, <1>10 DEF View
<1> QED BY <1>6, <1>8, <1>10, <1>11 DEF OneShows

\* emplace_back() puts a node behind the last.
LEMMA EmplaceBackStep ==
    ASSUME Types, NEW chain, Chained(chain), NEW l \in Lists, NEW n \in Nodes, NEW v \in Values,
           EmplaceBack(l, n, v),
           NEW after \in [Lists -> Seq(Nodes)], after[l] = chain[l] \o <<n>>,
           \A m \in Lists \ {l} : after[m] = chain[m]
    PROVE  OneShows(chain, after, l, View(chain, data)[l] \o <<v>>)
<1> DEFINE d == chain[l]
           c == d \o <<n>>
<1>1. NewNode(n, v)
      BY DEF EmplaceBack
<1>2. /\ \A m \in Lists : chain[m] \in Seq(Nodes) /\ n \notin Range(chain[m])
      /\ \A m \in Lists : \A x \in Range(chain[m]) : x # n /\ data'[x] = data[x]
      /\ data' \in [Nodes -> Values] /\ data'[n] = v
      /\ Image(<<n>>, data') = <<v>> /\ <<n>> \in Seq(Nodes)
      BY <1>1, NewNodeFacts
<1>3. Holds(d, front[l], back[l], size[l], next)
      BY DEF Chained
<1>4. /\ back[l] = nullptr <=> d = <<>>
      /\ front[l] = nullptr <=> d = <<>>
      /\ d # <<>> => back[l] \in Range(d) /\ back[l] \in Nodes
      BY EndsAgree
<1>5. /\ next' = IF d = <<>> THEN [next EXCEPT ![n] = nullptr]
                             ELSE [next EXCEPT ![n] = nullptr, ![back[l]] = n]
      /\ front' = [front EXCEPT ![l] = IF d = <<>> THEN n ELSE front[l]]
      /\ back' = [back EXCEPT ![l] = n]
      /\ size' = [size EXCEPT ![l] = size[l] + 1]
  <2>1. CASE back[l] = nullptr
    <3>1. OnlyNode(l, n) /\ d = <<>> /\ size[l] = 0
          BY <1>4, <2>1, EndsAgree DEF EmplaceBack
    <3> QED BY <2>1, <3>1 DEF OnlyNode
  <2>2. CASE back[l] # nullptr
        BY <1>4, <2>2 DEF EmplaceBack, Types
  <2> QED BY <2>1, <2>2
<1>6. Types'
  <2>1. front[l] \in Pointers /\ n \in Pointers /\ nullptr \in Pointers /\ size[l] + 1 \in Nat
        BY DEF Types, Pointers
  <2> QED BY <1>2, <1>5, <2>1 DEF Types
<1>7. /\ next'[n] = nullptr
      /\ \A x \in Nodes : x # n /\ (d # <<>> => x # back[l]) => next'[x] = next[x]
      /\ d # <<>> => next'[back[l]] = n
  <2>1. d # <<>> => back[l] # n
        BY <1>2, <1>4
  <2> QED BY <1>4, <1>5, <2>1 DEF Types
<1>8. \A m \in Lists : Range(chain[m]) \subseteq Nodes
      BY <1>2, RangeOfSeq
<1>9. Holds(c, IF d = <<>> THEN n ELSE front[l], n, size[l] + 1, next') /\ Range(c) = Range(d) \cup {n}
  <2>1. \A x \in Range(d) \ {back[l]} : next'[x] = next[x]
        BY <1>2, <1>7, <1>8
  <2>2. n \notin Range(d) /\ next'[n] = nullptr /\ (d # <<>> => next'[back[l]] = n)
        BY <1>2, <1>7
  <2> QED BY <1>3, <2>1, <2>2, OneBehind
<1>10. d \in Seq(Nodes) /\ Image(c, data') = Image(d, data) \o <<v>>
  <2>1. d \in Seq(Nodes) /\ \A x \in Range(d) : data'[x] = data[x]
        BY <1>2
  <2>2. Image(d, data') = Image(d, data)
        BY <2>1, ImageKept
  <2>3. Image(c, data') = Image(d, data') \o Image(<<n>>, data')
        BY <1>2, <2>1, ImageOfJoined
  <2> QED BY <1>2, <2>1, <2>2, <2>3
<1>11. after[l] = c
      OBVIOUS
<1> HIDE DEF c
<1>12. /\ Chained(after)'
       /\ \A m \in Lists \ {l} : Image(after[m], data') = Image(chain[m], data)
  <2>1. Holds(after[l], front'[l], back'[l], size'[l], next')
        BY <1>5, <1>9, <1>11 DEF Types
  <2>2. \A m \in Lists \ {l} : front'[m] = front[m] /\ back'[m] = back[m] /\ size'[m] = size[m]
        BY <1>5 DEF Types
  <2>3. ASSUME NEW m \in Lists \ {l}, NEW x \in Range(chain[m]) PROVE next'[x] = next[x]
    <3>1. x \notin Range(d)
          BY DEF Chained
    <3> QED BY <1>2, <1>4, <1>7, <1>8, <3>1
  <2>4. Range(after[l]) = Range(chain[l]) \cup {n}
        BY <1>9, <1>11
  <2> QED BY <1>1, <2>1, <2>2, <2>3, <2>4, NodeAdded
<1>13. /\ View(after, data')[l] = Image(c, data') /\ View(chain, data)[l] = Image(d, data)
       /\ \A m \in Lists \ {l} : View(after, data')[m] = View(chain, data)[m]
      BY <1>11, <1>12 DEF View
<1> QED BY <1>6, <1>10, <1>12, <1>13 DEF OneShows

\* A walk along a list meets its chain.
LEMMA WalkMeetsChain ==
    ASSUME NEW chain, Chained(chain), NEW l \in Lists
    PROVE  Chain(l) = chain[l]
<1>1. Holds(chain[l], front[l], back[l], size[l], next)
      BY DEF Chained
<1> QED BY <1>1, WalkMeetsNodes DEF Chain

\* pop_front() deletes the first node.
LEMMA PopFrontStep ==
    ASSUME Types, NEW chain, Chained(chain), NEW l \in Lists, PopFront(l),
           NEW after \in [Lists -> Seq(Nodes)], after[l] = Tail(chain[l]),
           \A m \in Lists \ {l} : after[m] = chain[m]
    PROVE  /\ View(chain, data)[l] # <<>>
           /\ OneShows(chain, after, l, Tail(View(chain, data)[l]))
<1> DEFINE c == chain[l]
<1>1. /\ c # <<>> /\ c \in Seq(Nodes) /\ front[l] \in Nodes /\ size[l] \in Nat /\ size[l] # 0
      BY EndsAgree DEF PopFront, Chained, Types
<1>2. /\ Holds(Tail(c), next[front[l]], IF next[front[l]] = nullptr THEN nullptr ELSE back[l],
               size[l] - 1, next)
      /\ Range(c) = Range(Tail(c)) \cup {front[l]} /\ front[l] \notin Range(Tail(c))
  <2>1. Holds(c, front[l], back[l], size[l], next)
        BY DEF Chained
  <2> HIDE DEF c
  <2> QED BY <1>1, <2>1, WithoutFirst
<1>3. /\ front' = [front EXCEPT ![l] = next[front[l]]]
      /\ back' = [back EXCEPT ![l] = IF next[front[l]] = nullptr THEN nullptr ELSE back[l]]
      /\ size' = [size EXCEPT ![l] = size[l] - 1]
      /\ next' = next /\ data' = data /\ allocated' = allocated \ {front[l]}
      BY DEF PopFront, BackAfterPop, Types
<1>4. Types'
  <2>1. next[front[l]] \in Pointers /\ back[l] \in Pointers /\ nullptr \in Pointers /\ size[l] - 1 \in Nat
        BY <1>1 DEF Types, Pointers
  <2> QED BY <1>3, <2>1 DEF Types
<1>5. Chained(after)'
  <2>1. Holds(after[l], front'[l], back'[l], size'[l], next')
        BY <1>2, <1>3 DEF Types
  <2>2. \A m \in Lists \ {l} : front'[m] = front[m] /\ back'[m] = back[m] /\ size'[m] = size[m]
        BY <1>3 DEF Types
  <2>3. \A m \in Lists \ {l} : Range(after[l]) \cap Range(chain[m]) = {}
        BY <1>2 DEF Chained
  <2>4. \A m \in Lists \ {l} : \A x \in Range(chain[m]) : next'[x] = next[x]
        BY <1>3
  <2>5. \A x : x \in Range(c) => x \in allocated
        BY DEF Chained
  <2>6. \A x : x \in allocated' <=> (x \in allocated /\ x \notin Range(chain[l])) \/ x \in Range(after[l])
        BY <1>2, <1>3, <2>5
  <2> QED BY <2>1, <2>2, <2>3, <2>4, <2>6, OneChanged
<1>6. View(chain, data)[l] # <<>> /\ View(after, data')[l] = Tail(View(chain, data)[l])
  <2>1. Image(c, data) # <<>> /\ Image(Tail(c), data) = Tail(Image(c, data))
        BY <1>1, ImageOfTail DEF Types
  <2> QED BY <1>3, <2>1 DEF View
<1>7. \A m \in Lists \ {l} : View(after, data')[m] = View(chain, data)[m]
      BY <1>3 DEF View
<1> QED BY <1>4, <1>5, <1>6, <1>7 DEF OneShows

\* clear() deletes all nodes of a list, and no others.
LEMMA ClearStep ==
    ASSUME Types, NEW chain, Chained(chain), NEW l \in Lists, Clear(l),
           NEW after \in [Lists -> Seq(Nodes)], after[l] = <<>>,
           \A m \in Lists \ {l} : after[m] = chain[m]
    PROVE  OneShows(chain, after, l, <<>>)
<1>1. /\ front' = [front EXCEPT ![l] = nullptr]
      /\ back' = [back EXCEPT ![l] = nullptr]
      /\ size' = [size EXCEPT ![l] = 0]
      /\ next' = next /\ data' = data /\ allocated' = allocated \ Range(chain[l])
      BY WalkMeetsChain DEF Clear
<1>2. Types'
      BY <1>1 DEF Types, Pointers
<1>3. Chained(after)'
  <2>1. Holds(after[l], front'[l], back'[l], size'[l], next') /\ Range(after[l]) = {}
        BY <1>1, NoNodes DEF Types
  <2>2. \A m \in Lists \ {l} : front'[m] = front[m] /\ back'[m] = back[m] /\ size'[m] = size[m]
        BY <1>1 DEF Types
  <2>3. \A m \in Lists \ {l} : Range(after[l]) \cap Range(chain[m]) = {}
        BY <2>1
  <2>4. \A m \in Lists \ {l} : \A x \in Range(chain[m]) : next'[x] = next[x]
        BY <1>1
  <2>5. \A x : x \in allocated' <=> (x \in allocated /\ x \notin Range(chain[l])) \/ x \in Range(after[l])
        BY <1>1, <2>1
  <2> QED BY <2>1, <2>2, <2>3, <2>4, <2>5, OneChanged
<1>4. View(after, data')[l] = <<>>
  <2>1. Len(after[l]) = 0 /\ \A memory : Image(<<>>, memory) = <<>>
        BY DEF Image
  <2> QED BY <2>1 DEF View
<1>5. \A m \in Lists \ {l} : View(after, data')[m] = View(chain, data)[m]
      BY <1>1 DEF View
<1> QED BY <1>2, <1>3, <1>4, <1>5 DEF OneShows

\* swap() exchanges the chains.
LEMMA SwapStep ==
    ASSUME Types, NEW chain, Chained(chain), NEW a \in Lists, NEW b \in Lists, Swap(a, b),
           NEW after \in [Lists -> Seq(Nodes)], after[a] = chain[b], after[b] = chain[a],
           \A m \in Lists \ {a, b} : after[m] = chain[m]
    PROVE  TwoShow(chain, after, a, View(chain, data)[b], b, View(chain, data)[a])
<1>1. /\ front' = Exchanged(front, a, b) /\ back' = Exchanged(back, a, b)
      /\ size' = Exchanged(size, a, b)
      /\ allocated' = allocated /\ data' = data /\ next' = next
      BY DEF Swap, nodeVars
<1> DEFINE other(m) == IF m = a THEN b ELSE IF m = b THEN a ELSE m
<1>2. \A m \in Lists : other(m) \in Lists /\ after[m] = chain[other(m)]
      OBVIOUS
<1>3. \A m \in Lists : /\ front'[m] = front[other(m)] /\ back'[m] = back[other(m)]
                       /\ size'[m] = size[other(m)]
      BY <1>1 DEF Exchanged, Types
<1>4. \A m, k \in Lists : m # k => other(m) # other(k)
      OBVIOUS
<1>5. \A k \in Lists : \E m \in Lists : other(m) = k
      OBVIOUS
<1>6. Types'
      BY <1>1 DEF Types, Exchanged
<1> HIDE DEF other
<1>7. Chained(after)'
  <2>1. ASSUME NEW m \in Lists PROVE Holds(after[m], front'[m], back'[m], size'[m], next')
        BY <1>1, <1>2, <1>3 DEF Chained
  <2>2. ASSUME NEW m \in Lists, NEW k \in Lists, m # k PROVE Range(after[m]) \cap Range(after[k]) = {}
        BY <1>2, <1>4, <2>2 DEF Chained
  <2>3. ASSUME NEW n PROVE n \in allocated' <=> \E m \in Lists : n \in Range(after[m])
    <3>1. n \in allocated' <=> \E m \in Lists : n \in Range(chain[m])
          BY <1>1 DEF Chained
    <3>2. (\E m \in Lists : n \in Range(chain[m])) => \E m \in Lists : n \in Range(after[m])
          BY <1>2, <1>5
    <3>3. (\E m \in Lists : n \in Range(after[m])) => \E m \in Lists : n \in Range(chain[m])
          BY <1>2
    <3> QED BY <3>1, <3>2, <3>3
  <2> QED BY <2>1, <2>2, <2>3 DEF Chained
<1> QED BY <1>1, <1>6, <1>7 DEF View, TwoShow

\* Two lists, of which the first may be empty, make one.
LEMMA TwoJoined ==
    ASSUME NEW c, NEW f1, NEW b1, NEW s1, NEW l1, Holds(c, f1, b1, s1, l1),
           NEW d, NEW f2, NEW b2, NEW s2, NEW l2, Holds(d, f2, b2, s2, l2), d # <<>>,
           Range(c) \cap Range(d) = {},
           NEW links, \A n \in Range(d) : links[n] = l2[n],
           \A n \in Range(c) \ {b1} : links[n] = l1[n], c # <<>> => links[b1] = f2
    PROVE  /\ Holds(c \o d, IF c = <<>> THEN f2 ELSE f1, b2, s1 + s2, links)
           /\ Range(c \o d) = Range(c) \cup Range(d)
<1>1. CASE c = <<>>
  <2>1. s1 = 0 /\ s2 \in Nat /\ d \in Seq(Nodes)
        BY <1>1, NodeFacts, EmptySeq DEF Holds
  <2>2. c \o d = d /\ Range(c) = {} /\ s1 + s2 = s2
        BY <1>1, <2>1, ConcatEmptySeq, NoNodes
  <2>3. Holds(d, f2, b2, s2, links)
        BY OtherNodes
  <2> QED BY <1>1, <2>2, <2>3
<1>2. CASE c # <<>>
  <2>1. links[b1] = f2
        BY <1>2
  <2> QED BY <1>2, <2>1, Joined
<1> QED BY <1>1, <1>2

\* append() leads from the last node of one list to the first of the other.
LEMMA AppendListFacts ==
    ASSUME Types, NEW chain, Chained(chain), NEW a \in Lists, NEW b \in Lists, AppendList(a, b)
    PROVE  /\ next' \in [Nodes -> Pointers] /\ front' \in [Lists -> Pointers]
           /\ back' \in [Lists -> Pointers] /\ size' \in [Lists -> Nat] /\ a # b
           /\ \A m \in Lists \ {a, b} : front'[m] = front[m] /\ back'[m] = back[m] /\ size'[m] = size[m]
           /\ front'[b] = nullptr /\ back'[b] = nullptr /\ size'[b] = 0
           /\ data' = data /\ allocated' = allocated
           /\ \A x \in Nodes : x \notin Range(chain[a]) => next'[x] = next[x]
           /\ \A m \in Lists : chain[m] \in Seq(Nodes) /\ Range(chain[m]) \subseteq Nodes
           /\ Holds(chain[a] \o chain[b], front'[a], back'[a], size'[a], next')
           /\ Range(chain[a] \o chain[b]) = Range(chain[a]) \cup Range(chain[b])
<1>1. /\ a # b /\ chain[b] # <<>> /\ chain[a] \in Seq(Nodes) /\ chain[b] \in Seq(Nodes)
      /\ Range(chain[a]) \cap Range(chain[b]) = {}
      BY EndsAgree DEF AppendList, Chained
<1>2. /\ Holds(chain[a], front[a], back[a], size[a], next)
      /\ Holds(chain[b], front[b], back[b], size[b], next)
      BY DEF Chained
<1>3. /\ back[a] = nullptr <=> chain[a] = <<>>
      /\ front[a] = nullptr <=> chain[a] = <<>>
      /\ size[a] = 0 <=> chain[a] = <<>>
      /\ chain[a] # <<>> => back[a] \in Range(chain[a]) /\ back[a] \in Nodes
      /\ size[a] \in Nat /\ size[b] \in Nat
      BY EndsAgree DEF Types
<1>4. /\ next' = IF chain[a] = <<>> THEN next ELSE [next EXCEPT ![back[a]] = front[b]]
      /\ front' = [front EXCEPT ![a] = IF chain[a] = <<>> THEN front[b] ELSE front[a], ![b] = nullptr]
      /\ back' = [back EXCEPT ![a] = back[b], ![b] = nullptr]
      /\ size' = [size EXCEPT ![a] = size[a] + size[b], ![b] = 0]
      /\ data' = data /\ allocated' = allocated
      BY <1>3 DEF AppendList, BackMoved, Types
<1>5. Types'
  <2>1. /\ front[a] \in Pointers /\ front[b] \in Pointers /\ back[b] \in Pointers
        /\ nullptr \in Pointers /\ size[a] + size[b] \in Nat
        BY <1>3 DEF Types, Pointers
  <2> QED BY <1>4, <2>1 DEF Types
<1>6. \A x \in Nodes : x \notin Range(chain[a]) => next'[x] = next[x]
      BY <1>3, <1>4 DEF Types
<1>7. \A m \in Lists : Range(chain[m]) \subseteq Nodes
      BY RangeOfSeq DEF Chained
<1>8. /\ Holds(chain[a] \o chain[b], IF chain[a] = <<>> THEN front[b] ELSE front[a], back[b], size[a] + size[b], next')
      /\ Range(chain[a] \o chain[b]) = Range(chain[a]) \cup Range(chain[b])
  <2>1. chain[a] # <<>> => next'[back[a]] = front[b]
        BY <1>3, <1>4 DEF Types
  <2>2. \A x \in Range(chain[b]) : next'[x] = next[x]
        BY <1>1, <1>6, <1>7
  <2>3. \A x \in Range(chain[a]) \ {back[a]} : next'[x] = next[x]
        BY <1>4, <1>7 DEF Types
  <2>4. chain[b] # <<>> /\ Range(chain[a]) \cap Range(chain[b]) = {}
        BY <1>1
  <2> QED BY <1>2, <2>1, <2>2, <2>3, <2>4, TwoJoined
<1>9. \A m \in Lists : chain[m] \in Seq(Nodes)
      BY DEF Chained
<1>10. /\ \A m \in Lists \ {a, b} : front'[m] = front[m] /\ back'[m] = back[m] /\ size'[m] = size[m]
       /\ front'[b] = nullptr /\ back'[b] = nullptr /\ size'[b] = 0
       /\ front'[a] = IF chain[a] = <<>> THEN front[b] ELSE front[a]
       /\ back'[a] = back[b] /\ size'[a] = size[a] + size[b]
      BY <1>1, <1>4 DEF Types
<1> QED BY <1>1, <1>4, <1>5, <1>6, <1>7, <1>8, <1>9, <1>10 DEF Types

\* append() puts the nodes of one list behind those of the other, which is
\* left empty.
LEMMA AppendListStep ==
    ASSUME Types, NEW chain, Chained(chain), NEW a \in Lists, NEW b \in Lists, AppendList(a, b),
           NEW after \in [Lists -> Seq(Nodes)],
           after[a] = chain[a] \o chain[b], after[b] = <<>>,
           \A m \in Lists \ {a, b} : after[m] = chain[m]
    PROVE  TwoShow(chain, after, a, View(chain, data)[a] \o View(chain, data)[b], b, <<>>)
<1> DEFINE c == chain[a]
           d == chain[b]
<1>1. /\ next' \in [Nodes -> Pointers] /\ front' \in [Lists -> Pointers]
      /\ back' \in [Lists -> Pointers] /\ size' \in [Lists -> Nat] /\ a # b
  <2>1. next' \in [Nodes -> Pointers]
        BY AppendListFacts
  <2>2. front' \in [Lists -> Pointers]
        BY AppendListFacts
  <2>3. back' \in [Lists -> Pointers]
        BY AppendListFacts
  <2>4. size' \in [Lists -> Nat]
        BY AppendListFacts
  <2>5. a # b
        BY AppendListFacts
  <2> QED BY <2>1, <2>2, <2>3, <2>4, <2>5
<1>2. \A m \in Lists \ {a, b} : front'[m] = front[m] /\ back'[m] = back[m] /\ size'[m] = size[m]
      BY AppendListFacts
<1>3. front'[b] = nullptr /\ back'[b] = nullptr /\ size'[b] = 0
      BY AppendListFacts
<1>4. data' = data /\ allocated' = allocated
      BY AppendListFacts
<1>5. \A x \in Nodes : x \notin Range(c) => next'[x] = next[x]
      BY AppendListFacts
<1>6. \A m \in Lists : chain[m] \in Seq(Nodes) /\ Range(chain[m]) \subseteq Nodes
      BY AppendListFacts
<1>7. Holds(c \o d, front'[a], back'[a], size'[a], next')
      BY AppendListFacts
<1>8. Range(c \o d) = Range(c) \cup Range(d)
      BY <1>6, RangeConcatenation
<1>9. Chained(after)'
  <2>1. ASSUME NEW m \in Lists PROVE Holds(after[m], front'[m], back'[m], size'[m], next')
    <3>1. CASE m = a
          BY <1>7, <3>1 DEF Types
    <3>2. CASE m = b
          BY <1>1, <1>3, <3>2, NoNodes DEF Types
    <3>3. CASE m \notin {a, b}
      <4>1. Holds(chain[m], front'[m], back'[m], size'[m], next)
            BY <1>2, <3>3 DEF Types, Chained
      <4>2. ASSUME NEW x \in Range(chain[m]) PROVE next'[x] = next[x]
        <5>1. x \notin Range(c)
              BY <3>3 DEF Chained
        <5> QED BY <1>5, <1>6, <5>1
      <4>3. Holds(chain[m], front'[m], back'[m], size'[m], next')
            BY <4>1, <4>2, OtherNodes
      <4> QED BY <3>3, <4>3
    <3> QED BY <3>1, <3>2, <3>3
  <2>2. Range(after[a]) = Range(c) \cup Range(d) /\ Range(after[b]) = {}
        BY <1>8, NoNodes
  <2>3. ASSUME NEW m \in Lists, NEW k \in Lists, m # k PROVE Range(after[m]) \cap Range(after[k]) = {}
    <3>1. CASE m \in {a, b} /\ k \in {a, b}
          BY <2>2, <2>3, <3>1
    <3>2. CASE m = a /\ k \notin {a, b}
          BY <2>2, <3>2 DEF Chained
    <3>3. CASE m \notin {a, b} /\ k = a
          BY <2>2, <3>3 DEF Chained
    <3>4. CASE m \notin {a, b} /\ k \notin {a, b}
          BY <2>3, <3>4 DEF Chained
    <3>5. CASE m = b \/ k = b
          BY <2>2, <3>5
    <3> QED BY <3>1, <3>2, <3>3, <3>4, <3>5
  <2>4. ASSUME NEW n PROVE n \in allocated' <=> \E m \in Lists : n \in Range(after[m])
    <3>1. n \in allocated' <=> \E m \in Lists : n \in Range(chain[m])
          BY <1>4 DEF Chained
    <3>2. ASSUME NEW m \in Lists, n \in Range(chain[m]) PROVE \E k \in Lists : n \in Range(after[k])
      <4>1. CASE m \in {a, b}
            BY <2>2, <3>2, <4>1
      <4>2. CASE m \notin {a, b}
            BY <3>2, <4>2
      <4> QED BY <4>1, <4>2
    <3>3. ASSUME NEW m \in Lists, n \in Range(after[m]) PROVE \E k \in Lists : n \in Range(chain[k])
      <4>1. CASE m \in {a, b}
            BY <2>2, <3>3, <4>1
      <4>2. CASE m \notin {a, b}
            BY <3>3, <4>2
      <4> QED BY <4>1, <4>2
    <3> QED BY <3>1, <3>2, <3>3
  <2> QED BY <2>1, <2>3, <2>4 DEF Chained
<1>10. View(after, data')[a] = View(chain, data)[a] \o View(chain, data)[b]
  <2>1. c \in Seq(Nodes) /\ d \in Seq(Nodes) /\ data \in [Nodes -> Values]
        BY <1>6 DEF Types
  <2>2. Image(c \o d, data) = Image(c, data) \o Image(d, data)
        BY <2>1, ImageOfJoined, Zenon
  <2> QED BY <1>4, <2>2 DEF View
<1>11. View(after, data')[b] = <<>>
  <2>1. \A memory : Image(<<>>, memory) = <<>>
        BY DEF Image
  <2> QED BY <2>1 DEF View
<1>12. \A m \in Lists \ {a, b} : View(after, data')[m] = View(chain, data)[m]
      BY <1>4 DEF View
<1>13. Types'
      BY <1>1, <1>4 DEF Types
<1> QED BY <1>1, <1>9, <1>10, <1>11, <1>12, <1>13 DEF TwoShow

-----------------------------------------------------------------------------
(* The theorems *)

\* What for_each() shows is what the chains show.
LEMMA ContentsAreView ==
    ASSUME Types, NEW chain, Chained(chain)
    PROVE  [l \in Lists |-> Contents(l)] = View(chain, data) /\ View(chain, data) \in [Lists -> Seq(Values)]
<1>1. ASSUME NEW l \in Lists
      PROVE  Contents(l) = Image(chain[l], data) /\ Image(chain[l], data) \in Seq(Values)
  <2>1. chain[l] \in Seq(Nodes) /\ DOMAIN chain[l] = 1..Len(chain[l])
        BY NodeFacts DEF Chained
  <2> QED BY <2>1, WalkMeetsChain, ImageFacts DEF Contents, Image, Types
<1> QED BY <1>1 DEF View

\* One list is changed.
LEMMA OneUpdated ==
    ASSUME NEW old \in [Lists -> Seq(Values)], NEW new \in [Lists -> Seq(Values)], NEW l \in Lists,
           \A m \in Lists \ {l} : new[m] = old[m]
    PROVE  new = [old EXCEPT ![l] = new[l]]
OBVIOUS

\* Two lists are changed.
LEMMA TwoUpdated ==
    ASSUME NEW old \in [Lists -> Seq(Values)], NEW new \in [Lists -> Seq(Values)],
           NEW a \in Lists, NEW b \in Lists, \A m \in Lists \ {a, b} : new[m] = old[m]
    PROVE  new = [old EXCEPT ![a] = new[a], ![b] = new[b]]
OBVIOUS

\* Every list is empty at first.
LEMMA ListInitially == ListInit => Types /\ Chained([l \in Lists |-> <<>>])
<1> SUFFICES ASSUME ListInit PROVE Types /\ Chained([l \in Lists |-> <<>>])
    OBVIOUS
<1>1. Types
      BY DEF ListInit, Types, Pointers
<1>2. <<>> \in Seq(Nodes) /\ \A l \in Lists : Holds(<<>>, front[l], back[l], size[l], next)
      BY NoNodes, EmptySeq DEF ListInit
<1>3. Range(<<>>) = {}
      BY NoNodes
<1>4. Chained([l \in Lists |-> <<>>])
      BY <1>2, <1>3 DEF ListInit, Chained
<1> QED BY <1>1, <1>4

\* The step of the sequences from old to new.
Mirrored(old, new) ==
    \/ \E l \in Lists, v \in Values : new = [old EXCEPT ![l] = <<v>> \o old[l]]
    \/ \E l \in Lists, v \in Values : new = [old EXCEPT ![l] = Append(old[l], v)]
    \/ \E l \in Lists : old[l] # <<>> /\ new = [old EXCEPT ![l] = Tail(old[l])]
    \/ \E l \in Lists : new = [old EXCEPT ![l] = <<>>]
    \/ \E a, b \in Lists : new = [old EXCEPT ![a] = old[b], ![b] = old[a]]
    \/ \E a, b \in Lists : a # b /\ new = [old EXCEPT ![a] = old[a] \o old[b], ![b] = <<>>]
    \/ new = old

\* Every operation leaves each list with a chain, and with the sequence that
\* the operation promises.
LEMMA ListStep ==
    ASSUME Types, NEW chain, Chained(chain), [ListNext]_listVars
    PROVE  \E after : Types' /\ Chained(after)' /\ Mirrored(View(chain, data), View(after, data'))
<1>0. /\ chain \in [Lists -> Seq(Nodes)]
      /\ View(chain, data) \in [Lists -> Seq(Values)]
      BY ContentsAreView DEF Chained
<1>1. ASSUME NEW after \in [Lists -> Seq(Nodes)], Types'
      PROVE  View(after, data') \in [Lists -> Seq(Values)]
  <2>1. ASSUME NEW l \in Lists PROVE Image(after[l], data') \in Seq(Values)
        BY <1>1, ImageFacts DEF Types
  <2> QED BY <2>1 DEF View
<1>2. CASE UNCHANGED listVars
  <2>1. Types' /\ Chained(chain)' /\ data' = data
        BY <1>2 DEF listVars, nodeVars, Types, Chained
  <2> QED BY <2>1 DEF Mirrored
<1>3. ASSUME NEW l \in Lists, NEW n \in Nodes, NEW v \in Values, EmplaceFront(l, n, v)
      PROVE  \E after : Types' /\ Chained(after)' /\ Mirrored(View(chain, data), View(after, data'))
  <2>1. PICK after \in [Lists -> Seq(Nodes)] :
               after[l] = <<n>> \o chain[l] /\ \A m \in Lists \ {l} : after[m] = chain[m]
    <3>1. <<n>> \o chain[l] \in Seq(Nodes)
          BY <1>0, ConcatProperties
    <3>2. [chain EXCEPT ![l] = <<n>> \o chain[l]] \in [Lists -> Seq(Nodes)]
          BY <1>0, <3>1
    <3> QED BY <1>0, <3>2
  <2>2. OneShows(chain, after, l, <<v>> \o View(chain, data)[l])
        BY <1>3, <2>1, EmplaceFrontStep
  <2>3. View(after, data') = [View(chain, data) EXCEPT ![l] = View(after, data')[l]]
        BY <1>0, <1>1, <2>2, OneUpdated DEF OneShows
  <2>4. View(after, data') = [View(chain, data) EXCEPT ![l] = <<v>> \o View(chain, data)[l]]
        BY <2>2, <2>3 DEF OneShows
  <2>5. Mirrored(View(chain, data), View(after, data'))
        BY <2>4 DEF Mirrored
  <2> QED BY <2>2, <2>5 DEF OneShows
<1>4. ASSUME NEW l \in Lists, NEW n \in Nodes, NEW v \in Values, EmplaceBack(l, n, v)
      PROVE  \E after : Types' /\ Chained(after)' /\ Mirrored(View(chain, data), View(after, data'))
  <2>1. PICK after \in [Lists -> Seq(Nodes)] :
               after[l] = chain[l] \o <<n>> /\ \A m \in Lists \ {l} : after[m] = chain[m]
    <3>1. chain[l] \o <<n>> \in Seq(Nodes)
          BY <1>0, ConcatProperties
    <3>2. [chain EXCEPT ![l] = chain[l] \o <<n>>] \in [Lists -> Seq(Nodes)]
          BY <1>0, <3>1
    <3> QED BY <1>0, <3>2
  <2>2. OneShows(chain, after, l, View(chain, data)[l] \o <<v>>)
        BY <1>4, <2>1, EmplaceBackStep
  <2>3. View(after, data') = [View(chain, data) EXCEPT ![l] = View(after, data')[l]]
        BY <1>0, <1>1, <2>2, OneUpdated DEF OneShows
  <2>4. View(chain, data)[l] \o <<v>> = Append(View(chain, data)[l], v)
        BY <1>0, AppendIsConcat
  <2>5. View(after, data') = [View(chain, data) EXCEPT ![l] = Append(View(chain, data)[l], v)]
        BY <2>2, <2>3, <2>4 DEF OneShows
  <2>6. Mirrored(View(chain, data), View(after, data'))
        BY <2>5 DEF Mirrored
  <2> QED BY <2>2, <2>6 DEF OneShows
<1>5. ASSUME NEW l \in Lists, PopFront(l)
      PROVE  \E after : Types' /\ Chained(after)' /\ Mirrored(View(chain, data), View(after, data'))
  <2>1. PICK after \in [Lists -> Seq(Nodes)] :
               after[l] = Tail(chain[l]) /\ \A m \in Lists \ {l} : after[m] = chain[m]
    <3>1. Tail(chain[l]) \in Seq(Nodes)
          BY <1>0, <1>5, EndsAgree, HeadTailProperties DEF PopFront
    <3>2. [chain EXCEPT ![l] = Tail(chain[l])] \in [Lists -> Seq(Nodes)]
          BY <1>0, <3>1
    <3> QED BY <1>0, <3>2
  <2>2. View(chain, data)[l] # <<>> /\ OneShows(chain, after, l, Tail(View(chain, data)[l]))
        BY <1>5, <2>1, PopFrontStep
  <2>3. View(after, data') = [View(chain, data) EXCEPT ![l] = View(after, data')[l]]
        BY <1>0, <1>1, <2>2, OneUpdated DEF OneShows
  <2>4. View(after, data') = [View(chain, data) EXCEPT ![l] = Tail(View(chain, data)[l])]
        BY <2>2, <2>3 DEF OneShows
  <2>5. Mirrored(View(chain, data), View(after, data'))
        BY <2>2, <2>4 DEF Mirrored
  <2> QED BY <2>2, <2>5 DEF OneShows
<1>6. ASSUME NEW l \in Lists, Clear(l)
      PROVE  \E after : Types' /\ Chained(after)' /\ Mirrored(View(chain, data), View(after, data'))
  <2>1. PICK after \in [Lists -> Seq(Nodes)] :
               after[l] = <<>> /\ \A m \in Lists \ {l} : after[m] = chain[m]
    <3>1. [chain EXCEPT ![l] = <<>>] \in [Lists -> Seq(Nodes)]
          BY <1>0, EmptySeq
    <3> QED BY <1>0, <3>1
  <2>2. OneShows(chain, after, l, <<>>)
        BY <1>6, <2>1, ClearStep
  <2>3. View(after, data') = [View(chain, data) EXCEPT ![l] = View(after, data')[l]]
        BY <1>0, <1>1, <2>2, OneUpdated DEF OneShows
  <2>4. View(after, data') = [View(chain, data) EXCEPT ![l] = <<>>]
        BY <2>2, <2>3 DEF OneShows
  <2>5. Mirrored(View(chain, data), View(after, data'))
        BY <2>4 DEF Mirrored
  <2> QED BY <2>2, <2>5 DEF OneShows
<1>7. ASSUME NEW a \in Lists, NEW b \in Lists, Swap(a, b)
      PROVE  \E after : Types' /\ Chained(after)' /\ Mirrored(View(chain, data), View(after, data'))
  <2>1. PICK after \in [Lists -> Seq(Nodes)] :
               /\ after[a] = chain[b] /\ after[b] = chain[a]
               /\ \A m \in Lists \ {a, b} : after[m] = chain[m]
    <3>1. [chain EXCEPT ![a] = chain[b], ![b] = chain[a]] \in [Lists -> Seq(Nodes)]
          BY <1>0
    <3> QED BY <1>0, <3>1
  <2>2. TwoShow(chain, after, a, View(chain, data)[b], b, View(chain, data)[a])
        BY <1>7, <2>1, SwapStep
  <2>3. View(after, data') =
            [View(chain, data) EXCEPT ![a] = View(after, data')[a], ![b] = View(after, data')[b]]
        BY <1>0, <1>1, <2>2, TwoUpdated DEF TwoShow
  <2>4. View(after, data') = [View(chain, data) EXCEPT ![a] = View(chain, data)[b], ![b] = View(chain, data)[a]]
        BY <2>2, <2>3 DEF TwoShow
  <2>5. Mirrored(View(chain, data), View(after, data'))
        BY <2>4 DEF Mirrored
  <2> QED BY <2>2, <2>5 DEF TwoShow
<1>8. ASSUME NEW a \in Lists, NEW b \in Lists, AppendList(a, b)
      PROVE  \E after : Types' /\ Chained(after)' /\ Mirrored(View(chain, data), View(after, data'))
  <2>0. a # b
        BY <1>8 DEF AppendList
  <2>1. PICK after \in [Lists -> Seq(Nodes)] :
               /\ after[a] = chain[a] \o chain[b] /\ after[b] = <<>>
               /\ \A m \in Lists \ {a, b} : after[m] = chain[m]
    <3>1. chain[a] \o chain[b] \in Seq(Nodes)
          BY <1>0, ConcatProperties
    <3>2. [chain EXCEPT ![a] = chain[a] \o chain[b], ![b] = <<>>] \in [Lists -> Seq(Nodes)]
          BY <1>0, <3>1, EmptySeq
    <3> QED BY <1>0, <2>0, <3>2
  <2>2. TwoShow(chain, after, a, View(chain, data)[a] \o View(chain, data)[b], b, <<>>)
        BY <1>8, <2>1, AppendListStep
  <2>3. View(after, data') =
            [View(chain, data) EXCEPT ![a] = View(after, data')[a], ![b] = View(after, data')[b]]
        BY <1>0, <1>1, <2>2, TwoUpdated DEF TwoShow
  <2>4. View(after, data') = [View(chain, data) EXCEPT ![a] = View(chain, data)[a] \o View(chain, data)[b], ![b] = <<>>]
        BY <2>2, <2>3 DEF TwoShow
  <2>5. Mirrored(View(chain, data), View(after, data'))
        BY <2>0, <2>4 DEF Mirrored
  <2> QED BY <2>2, <2>5 DEF TwoShow
<1> QED BY <1>2, <1>3, <1>4, <1>5, <1>6, <1>7, <1>8 DEF ListNext

\* The invariant above holds in every reachable state.
LEMMA ListInvariance == ListSpec => []ListInv
<1>1. ListInit => ListInv
      BY ListInitially DEF ListInv
<1>2. ListInv /\ [ListNext]_listVars => ListInv'
      BY ListStep DEF ListInv
<1> QED BY <1>1, <1>2, PTL DEF ListSpec

\* Whatever is done to the lists: the count and the last node are right, no
\* node is in two places, and a node exists as long as a list has it, for any
\* number of lists and nodes.
THEOREM ListsWellFormed == ListSpec => []WellFormed
<1>1. ListInv => WellFormed
  <2> SUFFICES ASSUME Types, NEW chain, Chained(chain) PROVE WellFormed
      BY DEF ListInv
  <2>1. \A l \in Lists : Chain(l) = chain[l]
        BY WalkMeetsChain
  <2>2. ASSUME NEW l \in Lists
        PROVE  /\ size[l] = Len(chain[l]) /\ IsInjective(chain[l])
               /\ back[l] = IF chain[l] = <<>> THEN nullptr ELSE Last(chain[l])
               /\ chain[l] # <<>> => next[back[l]] = nullptr
    <3> DEFINE c == chain[l]
    <3>1. Holds(c, front[l], back[l], size[l], next)
          BY DEF Chained
    <3>2. c \in Seq(Nodes)
          BY <3>1 DEF Holds
    <3>3. c # <<>> => Len(c) \in 1..Len(c)
          BY <3>2, NodeFacts
    <3>4. c # <<>> => next[c[Len(c)]] = nullptr
          BY <3>1, <3>3 DEF Holds, Linked
    <3> QED BY <3>1, <3>4 DEF Holds, Last
  <2>3. \A a, b \in Lists : a # b => Range(chain[a]) \cap Range(chain[b]) = {}
        BY DEF Chained
  <2>4. allocated = UNION {Range(chain[l]) : l \in Lists}
    <3>1. \A n : n \in allocated <=> \E l \in Lists : n \in Range(chain[l])
          BY DEF Chained
    <3> QED BY <3>1
  <2>5. UNION {Range(Chain(l)) : l \in Lists} = UNION {Range(chain[l]) : l \in Lists}
        BY <2>1
  <2> QED BY <2>1, <2>2, <2>3, <2>4, <2>5 DEF WellFormed, Types
<1> QED BY <1>1, ListInvariance, PTL

\* In every state the lists show what their chains show.
Shown == \A chain : Types /\ Chained(chain) => [l \in Lists |-> Contents(l)] = View(chain, data)

LEMMA AlwaysShown == Shown
BY ContentsAreView DEF Shown

\* List.h implements sequences: every operation does to what for_each() shows
\* what ListProtocol promises, on which all other models rely.
THEOREM ListsAreSequences == ListSpec => ImplementsSequences
<1>1. ListInit => Sequence!Init
  <2> SUFFICES ASSUME ListInit PROVE [l \in Lists |-> Contents(l)] = [l \in Lists |-> <<>>]
      BY DEF Sequence!Init
  <2> DEFINE none == [l \in Lists |-> <<>>]
  <2>1. Types /\ Chained(none)
        BY ListInitially
  <2>2. [l \in Lists |-> Contents(l)] = View(none, data)
        BY <2>1, ContentsAreView
  <2>3. View(none, data) = [l \in Lists |-> <<>>]
        BY DEF View, Image
  <2> QED BY <2>2, <2>3
<1>2. Shown /\ Shown'
      BY AlwaysShown, PTL
<1>3. ListInv /\ [ListNext]_listVars
          => [Sequence!Next]_([l \in Lists |-> Contents(l)])
  <2> SUFFICES ASSUME Types, NEW chain, Chained(chain), [ListNext]_listVars
               PROVE  [Sequence!Next]_([l \in Lists |-> Contents(l)])
      BY DEF ListInv
  <2>1. PICK after : Types' /\ Chained(after)' /\ Mirrored(View(chain, data), View(after, data'))
        BY ListStep
  <2>2. [l \in Lists |-> Contents(l)] = View(chain, data)
        BY <1>2 DEF Shown
  <2>3. [l \in Lists |-> Contents(l)]' = View(after, data')
    <3>1. View(after, data)' = View(after, data')
          BY DEF View, Image
    <3> QED BY <1>2, <2>1, <3>1 DEF Shown
  <2>4. Mirrored([l \in Lists |-> Contents(l)], [l \in Lists |-> Contents(l)]')
        BY <2>1, <2>2, <2>3
  <2> QED BY <2>4 DEF Mirrored, Sequence!Next, Sequence!EmplaceFront, Sequence!EmplaceBack,
             Sequence!PopFront, Sequence!Clear, Sequence!Swap, Sequence!AppendList
<1> QED BY <1>1, <1>3, ListInvariance, PTL DEF ListSpec, ImplementsSequences, Sequence!Spec

-----------------------------------------------------------------------------
(* ReusePool.tla *)

(***************************************************************************)
(* The inductive invariant.  Ownership rests on the flag, which keeps two  *)
(* threads out of the list (FlagInv), although a set flag may also be one  *)
(* that an exception left behind; on what a thread has in hand at each     *)
(* place of the deleter (DeleterInv); and on the list being empty once     *)
(* nobody keeps the pool alive (PoolInv).                                  *)
(***************************************************************************)
InList(t) == pc[t] \in {"take", "put"}

FlagInv == \A t \in Threads : InList(t) => flag /\ \A s \in Threads : InList(s) => s = t

DeleterInv == \A t \in Threads : obj[t] # Nothing <=> pc[t] \in {"release", "recycle", "put"}

PoolInv ==
    /\ \A t \in Threads : pc[t] \in {"take", "alloc"} => handle
    /\ ~PoolExists => objs = <<>>

Control == TypeOK /\ FlagInv /\ DeleterInv /\ PoolInv

USE SizesAssumption, ObjectsAssumption, AllocAssumption
USE DEF Goto, ClearFlag, Hold, TakeFront, Room, InList, Locking, PoolExists, vars

-----------------------------------------------------------------------------
(* Lists without repetition *)

\* What obtain() takes from the front of a list is gone from it.
LEMMA TailFacts ==
    ASSUME NEW s \in Seq(Objects), s # <<>>
    PROVE  /\ Tail(s) \in Seq(Objects) /\ Len(Tail(s)) <= Len(s) /\ Head(s) \in Objects
           /\ Range(s) = Range(Tail(s)) \cup {Head(s)}
           /\ IsInjective(s) => IsInjective(Tail(s)) /\ Head(s) \notin Range(Tail(s))
<1> DEFINE q == Tail(s)
<1>1. Len(s) \in Nat \ {0} /\ DOMAIN s = 1..Len(s) /\ \A i \in 1..Len(s) : s[i] \in Objects
      BY LenProperties, EmptySeq
<1>2. q \in Seq(Objects) /\ Len(q) = Len(s) - 1 /\ Head(s) = s[1]
      BY HeadTailProperties
<1>3. DOMAIN q = 1..(Len(s) - 1) /\ \A i \in 1..(Len(s) - 1) : q[i] = s[i + 1]
      BY <1>1, <1>2, HeadTailProperties, LenProperties
<1> HIDE DEF q
<1>4. Range(s) \subseteq Range(q) \cup {s[1]}
  <2> SUFFICES ASSUME NEW i \in DOMAIN s, i # 1 PROVE s[i] \in Range(q)
      BY DEF Range
  <2>1. i - 1 \in DOMAIN q /\ q[i - 1] = s[i]
        BY <1>1, <1>3
  <2> QED BY <2>1 DEF Range
<1>5. Range(q) \cup {s[1]} \subseteq Range(s)
      BY <1>1, <1>3 DEF Range
<1>6. ASSUME IsInjective(s) PROVE IsInjective(q) /\ s[1] \notin Range(q)
  <2>1. \A i, j \in 1..Len(s) : s[i] = s[j] => i = j
        BY <1>1, <1>6 DEF IsInjective
  <2>2. \A i, j \in 1..(Len(s) - 1) : q[i] = q[j] => i = j
        BY <1>1, <1>3, <2>1
  <2>3. \A i \in 1..(Len(s) - 1) : s[1] # q[i]
        BY <1>1, <1>3, <2>1
  <2> QED BY <2>2, <2>3, <1>3 DEF IsInjective, Range
<1> QED BY <1>1, <1>2, <1>4, <1>5, <1>6 DEF q

\* What recycle() appends to a list is in it once if it was not there.
LEMMA AppendFacts ==
    ASSUME NEW s \in Seq(Objects), NEW o \in Objects
    PROVE  /\ Append(s, o) \in Seq(Objects) /\ Len(Append(s, o)) = Len(s) + 1
           /\ Range(Append(s, o)) = Range(s) \cup {o}
           /\ IsInjective(s) /\ o \notin Range(s) => IsInjective(Append(s, o))
<1> DEFINE q == Append(s, o)
<1>1. Len(s) \in Nat /\ DOMAIN s = 1..Len(s)
      BY LenProperties
<1>2. q \in Seq(Objects) /\ Len(q) = Len(s) + 1 /\ DOMAIN q = 1..(Len(s) + 1)
      BY AppendProperties, LenProperties
<1>3. q[Len(s) + 1] = o /\ \A i \in 1..Len(s) : q[i] = s[i]
      BY AppendProperties
<1> HIDE DEF q
<1>4. Range(q) \subseteq Range(s) \cup {o}
  <2> SUFFICES ASSUME NEW i \in DOMAIN q, i # Len(s) + 1 PROVE q[i] \in Range(s)
      BY <1>3 DEF Range
  <2>1. i \in DOMAIN s /\ q[i] = s[i]
        BY <1>1, <1>2, <1>3
  <2> QED BY <2>1 DEF Range
<1>5. Range(s) \cup {o} \subseteq Range(q)
      BY <1>1, <1>2, <1>3 DEF Range
<1>6. ASSUME IsInjective(s), o \notin Range(s) PROVE IsInjective(q)
  <2>1. \A i, j \in 1..Len(s) : s[i] = s[j] => i = j
        BY <1>1, <1>6 DEF IsInjective
  <2>2. \A i \in 1..Len(s) : s[i] # o
        BY <1>1, <1>6 DEF Range
  <2>3. \A i, j \in 1..(Len(s) + 1) : q[i] = q[j] => i = j
        BY <1>1, <1>3, <2>1, <2>2
  <2> QED BY <2>3, <1>2 DEF IsInjective
<1> QED BY <1>2, <1>4, <1>5, <1>6 DEF q

\* The list of a pool that is gone holds nothing.
LEMMA EmptyFacts == <<>> \in Seq(Objects) /\ Range(<<>>) = {} /\ IsInjective(<<>>)
BY EmptySeq DEF Range, IsInjective

\* The empty list fits a pool of any size.
LEMMA EmptyFits == <<>> \in Seq(Objects) /\ \E n \in Sizes : Len(<<>>) <= n
<1>1. Len(<<>>) = 0 /\ DefaultSize \in Nat
      BY EmptySeq
<1> QED BY <1>1, EmptySeq

-----------------------------------------------------------------------------
(* Typing and control *)

\* Every step keeps the types, the flag and the places of the deleters in
\* order.
LEMMA ControlStep == Control /\ [Next]_vars => Control'
<1> SUFFICES ASSUME Control, [Next]_vars PROVE Control'
    OBVIOUS
<1> USE DEF Control, TypeOK, FlagInv, DeleterInv, PoolInv
<1>1. CASE UNCHANGED vars
      BY <1>1
<1>2. CASE \E t \in Threads : ObtainTest(t)
      BY <1>2 DEF ObtainTest
<1>3. CASE \E t \in Threads : Take(t)
  <2> PICK t \in Threads : Take(t)
      BY <1>3
  <2>1. Tail(objs) \in Seq(Objects) /\ Len(Tail(objs)) <= Len(objs) /\ Head(objs) \in Objects
        BY TailFacts DEF Take
  <2>2. PICK n \in Sizes : Len(objs) <= n
        OBVIOUS
  <2>3. Len(objs') <= n
        BY <2>1, <2>2, LenProperties DEF Take
  <2>4. TypeOK'
        BY <2>1, <2>3 DEF Take
  <2> QED BY <2>4 DEF Take
<1>4. CASE \E t \in Threads : Allocate(t)
  <2> PICK t \in Threads : Allocate(t)
      BY <1>4
  <2>1. TypeOK'
    <3>1. PICK o \in Objects : live' = live \cup {o} /\ Hold(t, o)
          BY DEF Allocate
    <3>2. live' \subseteq Objects /\ held' \in [Threads -> SUBSET Objects]
          BY <3>1
    <3> QED BY <3>2 DEF Allocate
  <2>2. FlagInv' /\ DeleterInv'
        BY DEF Allocate
  <2>3. pc[t] \in {"take", "alloc"} /\ handle' = handle
        BY DEF Allocate
  <2>4. handle /\ handle'
        BY <2>3
  <2>5. PoolInv'
        BY <2>4
  <2> QED BY <2>1, <2>2, <2>5
<1>5. CASE \E t \in Threads : AllocateFails(t)
      BY <1>5 DEF AllocateFails
<1>6. CASE \E t \in Threads, o \in Objects : Release(t, o)
      BY <1>6 DEF Release
<1>7. CASE \E t \in Threads, o \in Objects, giveUp \in BOOLEAN : SetQuit(t, o, giveUp)
      BY <1>7 DEF SetQuit
<1>8. CASE \E t \in Threads : NoPool(t)
      BY <1>8 DEF NoPool, Delete
<1>9. CASE \E t \in Threads : LockPool(t)
      BY <1>9 DEF LockPool, Delete
<1>10. CASE \E t \in Threads : Recycle(t)
      BY <1>10 DEF Recycle, Delete
<1>11. CASE \E t \in Threads : Put(t)
  <2> PICK t \in Threads : Put(t)
      BY <1>11
  <2>1. obj[t] \in Objects
        BY DEF Put
  <2>2. CASE Room
    <3>1. objs' = Append(objs, obj[t]) /\ Len(objs) \in Nat
          BY <2>2, LenProperties DEF Put
    <3>2. objs' \in Seq(Objects) /\ Len(objs') = Len(objs) + 1
          BY <2>1, <3>1, AppendFacts
    <3>3. Len(objs') <= poolSize
          BY <2>2, <3>1, <3>2
    <3>4. TypeOK'
          BY <2>2, <3>2, <3>3 DEF Put
    <3> QED BY <2>2, <3>4 DEF Put
  <2>3. CASE ~Room
    <3>1. TypeOK'
          BY <2>3 DEF Put, Delete
    <3> QED BY <2>3, <3>1 DEF Put, Delete
  <2> QED BY <2>2, <2>3
<1>12. CASE \E t \in Threads : Unlock(t)
  <2> PICK t \in Threads : Unlock(t)
      BY <1>12
  <2>1. CASE handle \/ Locking # {t}
        BY <2>1 DEF Unlock, KeepPool
  <2>2. CASE ~(handle \/ Locking # {t})
    <3>1. TypeOK'
          BY <2>2, EmptyFits DEF Unlock, DestroyPool
    <3> QED BY <2>2, <3>1 DEF Unlock, DestroyPool
  <2> QED BY <2>1, <2>2
<1>13. CASE \E n \in Sizes : SetSize(n)
      BY <1>13 DEF SetSize
<1>14. CASE DestroyHandle
  <2>1. CASE Locking # {}
        BY <1>14, <2>1 DEF DestroyHandle, KeepPool
  <2>2. CASE Locking = {}
    <3>1. TypeOK'
          BY <1>14, <2>2, EmptyFits DEF DestroyHandle, DestroyPool
    <3> QED BY <1>14, <2>2, <3>1 DEF DestroyHandle, DestroyPool
  <2> QED BY <2>1, <2>2
<1>15. CASE Terminated
      BY <1>15 DEF Terminated
<1> QED
    BY <1>1, <1>2, <1>3, <1>4, <1>5, <1>6, <1>7, <1>8, <1>9, <1>10, <1>11, <1>12,
       <1>13, <1>14, <1>15 DEF Next, Step

-----------------------------------------------------------------------------
(* Ownership *)

\* Where the objects are, while the list of a pool that is gone is empty.
Placed == \A o : o \in live <=> o \in Range(objs) \/ \E t \in Threads : o \in InHand(t)

\* EveryObjectAccounted counts the list of an existing pool only; the list of
\* another is empty.
LEMMA PlacedFacts == Control => (EveryObjectAccounted <=> Placed)
<1> SUFFICES ASSUME Control PROVE EveryObjectAccounted <=> Placed
    OBVIOUS
<1> DEFINE inHand == UNION {InHand(t) : t \in Threads}
           kept == IF PoolExists THEN Range(objs) ELSE {}
<1>1. kept = Range(objs)
      BY EmptyFacts DEF Control, PoolInv
<1>2. \A o : o \in inHand <=> \E t \in Threads : o \in InHand(t)
      OBVIOUS
<1> HIDE DEF inHand
<1>3. EveryObjectAccounted <=> live = inHand \cup Range(objs)
      BY <1>1 DEF EveryObjectAccounted, inHand
<1> QED BY <1>2, <1>3 DEF Placed

Owned == ExclusiveOwnership /\ Placed

\* Objects change hands at most inside one thread.
LEMMA SameHands ==
    ASSUME Owned, objs' = objs, live' = live,
           \A t \in Threads : InHand(t)' = InHand(t) /\ ~(obj[t] \in held[t])'
    PROVE  Owned'
BY DEF Owned, ExclusiveOwnership, Placed

\* Thread t deletes the object its deleter has.
LEMMA DeletedHand ==
    ASSUME Owned, Control, NEW t \in Threads, obj[t] # Nothing,
           Delete(t), held' = held, objs' = objs
    PROVE  Owned'
<1> USE DEF Control, TypeOK
<1>1. obj[t] \in InHand(t) /\ obj[t] \notin held[t]
      BY DEF InHand, Owned, ExclusiveOwnership
<1>2. InHand(t)' = InHand(t) \ {obj[t]} /\ obj'[t] = Nothing /\ Nothing \notin held'[t]
      BY <1>1 DEF Delete, InHand
<1>3. \A s \in Threads \ {t} : InHand(s)' = InHand(s) /\ obj'[s] = obj[s]
      BY DEF Delete, InHand
<1>4. ExclusiveOwnership'
      BY <1>2, <1>3 DEF Owned, ExclusiveOwnership
<1>5. Placed'
  <2> SUFFICES ASSUME NEW o
               PROVE  o \in live' <=> o \in Range(objs) \/ \E s \in Threads : o \in InHand(s)'
      BY DEF Placed
  <2>1. CASE o = obj[t]
        BY <1>1, <1>2, <1>3, <2>1 DEF Owned, ExclusiveOwnership, Delete
  <2>2. CASE o # obj[t]
    <3>1. o \in live' <=> o \in live
          BY <2>2 DEF Delete
    <3>2. \A s \in Threads : o \in InHand(s)' <=> o \in InHand(s)
          BY <1>2, <1>3, <2>2
    <3> QED BY <3>1, <3>2 DEF Owned, Placed
  <2> QED BY <2>1, <2>2
<1> QED BY <1>4, <1>5 DEF Owned

\* Thread t gets the object o that was in no hands.
LEMMA NewInHand ==
    ASSUME Owned, Control, NEW t \in Threads, pc[t] \in {"take", "alloc"},
           NEW o \in Objects, \A s \in Threads : o \notin InHand(s),
           Hold(t, o), obj' = obj
    PROVE  /\ InHand(t)' = InHand(t) \cup {o}
           /\ \A s \in Threads \ {t} : InHand(s)' = InHand(s)
           /\ \A s \in Threads : obj'[s] \notin held'[s]
<1> USE DEF Control, TypeOK
<1>1. InHand(t)' = InHand(t) \cup {o} /\ \A s \in Threads \ {t} : InHand(s)' = InHand(s)
      BY DEF InHand
<1>2. obj[t] = Nothing
      BY DEF DeleterInv
<1>3. \A s \in Threads : obj'[s] \notin held'[s]
      BY <1>2 DEF Owned, ExclusiveOwnership
<1> QED BY <1>1, <1>3

\* obtain() with a pooled object: nobody has what the list had.
LEMMA TakeStep == Owned /\ Control /\ (\E t \in Threads : Take(t)) => Owned'
<1> SUFFICES ASSUME Owned, Control, NEW t \in Threads, Take(t) PROVE Owned'
    OBVIOUS
<1> DEFINE o == Head(objs)
<1>1. /\ o \in Objects /\ Range(objs) = Range(objs') \cup {o}
      /\ IsInjective(objs') /\ o \notin Range(objs')
      BY TailFacts DEF Take, Control, TypeOK, Owned, ExclusiveOwnership
<1>2. \A s \in Threads : o \notin InHand(s)
      BY <1>1 DEF Owned, ExclusiveOwnership
<1>3. Hold(t, o) /\ obj' = obj /\ live' = live /\ pc[t] = "take"
      BY DEF Take
<1> HIDE DEF o
<1>4. /\ InHand(t)' = InHand(t) \cup {o}
      /\ \A s \in Threads \ {t} : InHand(s)' = InHand(s)
      /\ \A s \in Threads : obj'[s] \notin held'[s]
      BY <1>1, <1>2, <1>3, NewInHand
<1>5. ExclusiveOwnership'
      BY <1>1, <1>2, <1>4 DEF Owned, ExclusiveOwnership
<1>6. Placed'
      BY <1>1, <1>2, <1>3, <1>4 DEF Owned, Placed
<1> QED BY <1>5, <1>6 DEF Owned

\* obtain() with a new object: the allocator gives what nobody has.
LEMMA AllocateStep == Owned /\ Control /\ (\E t \in Threads : Allocate(t)) => Owned'
<1> SUFFICES ASSUME Owned, Control, NEW t \in Threads, Allocate(t) PROVE Owned'
    OBVIOUS
<1>1. PICK o \in Objects \ live : live' = live \cup {o} /\ Hold(t, o)
      BY DEF Allocate
<1>2. o \notin Range(objs) /\ \A s \in Threads : o \notin InHand(s)
      BY <1>1 DEF Owned, Placed
<1>3. obj' = obj /\ objs' = objs /\ pc[t] \in {"take", "alloc"}
      BY DEF Allocate
<1>4. /\ InHand(t)' = InHand(t) \cup {o}
      /\ \A s \in Threads \ {t} : InHand(s)' = InHand(s)
      /\ \A s \in Threads : obj'[s] \notin held'[s]
      BY <1>1, <1>2, <1>3, NewInHand
<1>5. ExclusiveOwnership'
      BY <1>2, <1>3, <1>4 DEF Owned, ExclusiveOwnership
<1>6. Placed'
      BY <1>1, <1>2, <1>3, <1>4 DEF Owned, Placed
<1> QED BY <1>5, <1>6 DEF Owned

\* recycle() with the flag: the object passes from the deleter to the list.
LEMMA PutStep == Owned /\ Control /\ (\E t \in Threads : Put(t)) => Owned'
<1> SUFFICES ASSUME Owned, Control, NEW t \in Threads, Put(t) PROVE Owned'
    OBVIOUS
<1> USE DEF Control, TypeOK
<1>1. obj[t] # Nothing /\ held' = held
      BY DEF Put, DeleterInv
<1>2. CASE ~Room
      BY <1>1, <1>2, DeletedHand DEF Put
<1>3. CASE Room
  <2>1. /\ obj[t] \in Objects /\ obj[t] \in InHand(t) /\ obj[t] \notin held[t]
        /\ obj[t] \notin Range(objs)
        BY <1>1 DEF InHand, Owned, ExclusiveOwnership
  <2>2. Range(objs') = Range(objs) \cup {obj[t]} /\ IsInjective(objs')
        BY <1>3, <2>1, AppendFacts DEF Put, Owned, ExclusiveOwnership
  <2>3. InHand(t)' = InHand(t) \ {obj[t]} /\ obj'[t] = Nothing /\ Nothing \notin held'[t]
        BY <1>1, <1>3, <2>1 DEF Put, InHand
  <2>4. \A s \in Threads \ {t} : InHand(s)' = InHand(s) /\ obj'[s] = obj[s]
        BY <1>1, <1>3 DEF Put, InHand
  <2>5. ExclusiveOwnership'
        BY <1>1, <2>1, <2>2, <2>3, <2>4 DEF Owned, ExclusiveOwnership
  <2>6. live' = live
        BY <1>3 DEF Put
  <2>7. Placed'
        BY <2>1, <2>2, <2>3, <2>4, <2>6 DEF Owned, Placed
  <2> QED BY <2>5, <2>7 DEF Owned
<1> QED BY <1>2, <1>3

\* The pool is destroyed with what its list has.
LEMMA DestroyPoolStep ==
    ASSUME Owned, DestroyPool, held' = held, obj' = obj
    PROVE  Owned'
<1>1. \A t \in Threads : InHand(t)' = InHand(t)
      BY DEF InHand
<1>2. Range(objs') = {} /\ IsInjective(objs') /\ live' = live \ Range(objs)
      BY EmptyFacts DEF DestroyPool
<1>3. ExclusiveOwnership'
      BY <1>1, <1>2 DEF Owned, ExclusiveOwnership
<1>4. Placed'
      BY <1>1, <1>2 DEF Owned, ExclusiveOwnership, Placed
<1> QED BY <1>3, <1>4 DEF Owned

\* No step of another kind gives one object to two owners, or loses one.
LEMMA OwnedStep == Owned /\ Control /\ [Next]_vars => Owned'
<1> SUFFICES ASSUME Owned, Control, [Next]_vars PROVE Owned'
    OBVIOUS
<1> USE DEF Control, TypeOK
<1>0. \A t \in Threads : obj[t] \notin held[t]
      BY DEF Owned, ExclusiveOwnership
<1>1. CASE held' = held /\ obj' = obj /\ objs' = objs /\ live' = live
  <2>1. \A t \in Threads : InHand(t)' = InHand(t)
        BY <1>1 DEF InHand
  <2> QED BY <1>0, <1>1, <2>1, SameHands
<1>2. CASE \E t \in Threads, o \in Objects : Release(t, o)
  <2> PICK t \in Threads, o \in Objects : Release(t, o)
      BY <1>2
  <2>1. o # Nothing /\ o \in held[t] /\ obj[t] = Nothing
        BY DEF Release, DeleterInv
  <2>2. /\ held'[t] = held[t] \ {o} /\ obj'[t] = o
        /\ \A s \in Threads \ {t} : held'[s] = held[s] /\ obj'[s] = obj[s]
        BY DEF Release
  <2>3. \A s \in Threads : InHand(s)' = InHand(s)
        BY <2>1, <2>2 DEF InHand
  <2>4. \A s \in Threads : obj'[s] \notin held'[s]
        BY <1>0, <2>2
  <2> QED BY <2>3, <2>4, SameHands DEF Release
<1>3. CASE \E t \in Threads : NoPool(t) \/ LockPool(t) \/ Recycle(t)
  <2> PICK t \in Threads : NoPool(t) \/ LockPool(t) \/ Recycle(t)
      BY <1>3
  <2>1. obj[t] # Nothing /\ held' = held /\ objs' = objs
        BY DEF NoPool, LockPool, Recycle, DeleterInv
  <2>2. Delete(t) \/ (obj' = obj /\ live' = live)
        BY DEF NoPool, LockPool, Recycle
  <2> QED BY <1>1, <2>1, <2>2, DeletedHand
<1>4. CASE DestroyHandle \/ \E t \in Threads : Unlock(t)
      BY <1>1, <1>4, DestroyPoolStep DEF DestroyHandle, Unlock, KeepPool
<1>5. CASE \E t \in Threads : Take(t) \/ Allocate(t) \/ Put(t)
      BY <1>5, TakeStep, AllocateStep, PutStep
<1> QED
    BY <1>1, <1>2, <1>3, <1>4, <1>5 DEF Next, Step, ObtainTest, AllocateFails, SetQuit,
       SetSize, Terminated

-----------------------------------------------------------------------------
(* The theorems *)

\* The invariant above holds in every reachable state.
LEMMA Invariance == Spec => [](Control /\ Owned)
<1>1. ASSUME Init PROVE Control /\ Owned
  <2>1. TypeOK
        BY <1>1, EmptyFits DEF Init, TypeOK
  <2>2. FlagInv /\ DeleterInv /\ PoolInv
        BY <1>1 DEF Init, FlagInv, DeleterInv, PoolInv
  <2>3. \A t \in Threads : InHand(t) = {} /\ obj[t] \notin held[t]
        BY <1>1 DEF Init, InHand
  <2>4. Owned
        BY <1>1, <2>3, EmptyFacts DEF Init, Owned, ExclusiveOwnership, Placed
  <2> QED BY <2>1, <2>2, <2>4 DEF Control
<1> QED BY <1>1, ControlStep, OwnedStep, PTL DEF Spec

\* The list never outgrows every size the pool was given, whoever changes the
\* size meanwhile, and a deleter holds an object or nothing.
THEOREM TypeCorrect == Spec => []TypeOK
<1>1. Control => TypeOK
      BY DEF Control
<1> QED BY <1>1, Invariance, PTL

\* The flag keeps two threads out of the list, also when a constructor threw
\* and left it set.
THEOREM ListExclusive ==
    Spec => [](\A s, t \in Threads : InList(s) /\ InList(t) => s = t)
<1>1. Control => \A s, t \in Threads : InList(s) /\ InList(t) => s = t
      BY DEF Control, FlagInv
<1> QED BY <1>1, Invariance, PTL

\* Somebody will clear the flag, or a constructor threw.
FlagHasOwner == flag => abandoned \/ \E t \in Threads : InList(t)

\* The flag, once set, has an owner that will clear it, unless a constructor
\* threw: what FlagReleased rests on.
THEOREM FlagIsOwned == Spec => []FlagHasOwner
<1>1. Init => FlagHasOwner
      BY DEF Init, FlagHasOwner
<1>2. Control /\ FlagHasOwner /\ [Next]_vars => FlagHasOwner'
  <2> SUFFICES ASSUME Control, FlagHasOwner, [Next]_vars, flag', ~abandoned'
               PROVE  \E t \in Threads : InList(t)'
      BY DEF FlagHasOwner
  <2> USE DEF Control, TypeOK, FlagHasOwner
  <2>1. CASE UNCHANGED <<flag, abandoned, pc>>
        BY <2>1
  <2>2. CASE \E t \in Threads : Take(t) \/ Put(t)
        BY <2>2 DEF Take, Put
  <2>3. CASE \E t \in Threads : ObtainTest(t)
        BY <2>3 DEF ObtainTest
  <2>4. CASE \E t \in Threads : Allocate(t)
    <3> PICK t \in Threads : Allocate(t)
        BY <2>4
    <3>1. pc[t] = "alloc" /\ flag /\ ~abandoned
          BY DEF Allocate
    <3>2. PICK s \in Threads : InList(s)
          BY <3>1
    <3> QED BY <3>1, <3>2 DEF Allocate
  <2>5. CASE \E t \in Threads : AllocateFails(t)
        BY <2>5 DEF AllocateFails
  <2>6. CASE \E t \in Threads : Recycle(t)
    <3> PICK t \in Threads : Recycle(t)
        BY <2>6
    <3>1. CASE flag
      <4>1. PICK s \in Threads : InList(s)
            BY <3>1 DEF Recycle
      <4> QED BY <4>1 DEF Recycle
    <3>2. CASE ~flag
          BY <3>2 DEF Recycle
    <3> QED BY <3>1, <3>2
  <2>7. CASE \E t \in Threads : NoPool(t) \/ LockPool(t) \/ Unlock(t)
    <3> PICK t \in Threads : NoPool(t) \/ LockPool(t) \/ Unlock(t)
        BY <2>7
    <3>1. ~InList(t) /\ flag /\ ~abandoned
          BY DEF NoPool, LockPool, Unlock
    <3>2. \A s \in Threads \ {t} : pc'[s] = pc[s]
          BY DEF NoPool, LockPool, Unlock
    <3>3. PICK s \in Threads : InList(s)
          BY <3>1
    <3> QED BY <3>1, <3>2, <3>3
  <2>8. CASE \E t \in Threads, o \in Objects : Release(t, o)
        BY <2>8 DEF Release
  <2> QED
      BY <2>1, <2>2, <2>3, <2>4, <2>5, <2>6, <2>7, <2>8 DEF Next, Step, SetQuit, SetSize,
         DestroyHandle, Terminated
<1> QED BY <1>1, <1>2, Invariance, PTL DEF Spec

\* What a thread obtained is nobody else's, for any number of threads.
THEOREM OwnershipExclusive == Spec => []ExclusiveOwnership
<1>1. Owned => ExclusiveOwnership
      BY DEF Owned
<1> QED BY <1>1, Invariance, PTL

\* No object leaks, and none is in use after its deletion, whichever deleter
\* is the one that destroys the pool.
THEOREM ObjectsAccounted == Spec => []EveryObjectAccounted
<1>1. Control /\ Owned => EveryObjectAccounted
      BY PlacedFacts DEF Owned
<1> QED BY <1>1, Invariance, PTL
=============================================================================
