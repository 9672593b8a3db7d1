-------------------------- MODULE CacheExtListsProofs --------------------------
(***************************************************************************)
(* What the list operators preserve, for lists of any length: Select keeps  *)
(* the type of a list and picks exactly the given positions, an iteration   *)
(* neither loses nor invents nodes.  These facts replace induction over     *)
(* sequences in the proofs about the policies.                              *)
(***************************************************************************)
EXTENDS CacheExtLists, FiniteSetTheorems, SequenceTheorems, WellFoundedInduction,
        TLAPS

\* Every nonempty set of naturals has a least element.
LEMMA LeastNatural ==
    ASSUME NEW T \in SUBSET Nat, T # {}
    PROVE  \E m \in T : \A k \in T : m <= k
<1> DEFINE R == OpToRel(<, Nat)
<1>1. IsWellFoundedOn(R, Nat)
    BY NatLessThanWellFounded
<1>2. \A x, y \in Nat : x < y => <<x, y>> \in R
    BY DEF OpToRel
<1> HIDE DEF R
<1>3. PICK m \in T : \A y \in T : ~(<<y, m>> \in R)
    BY <1>1, WFMin
<1>4. \A y \in T : ~(y < m)
    BY <1>2, <1>3
<1>5. \A x, y \in Nat : ~(y < x) => x <= y
    OBVIOUS
<1> QED
    BY <1>4, <1>5

\* Two finite sets that differ in one element at most.
LEMMA OneElement ==
    ASSUME NEW A, NEW B, NEW t, IsFiniteSet(A), A \ {t} = B \ {t}
    PROVE  /\ IsFiniteSet(B) /\ Cardinality(A) \in Nat /\ Cardinality(B) \in Nat
           /\ (t \in A <=> t \in B) => Cardinality(B) = Cardinality(A)
           /\ t \in A /\ t \notin B => Cardinality(B) = Cardinality(A) - 1
           /\ t \notin A /\ t \in B => Cardinality(B) = Cardinality(A) + 1
<1>1. IsFiniteSet(A \ {t})
    BY FS_RemoveElement
<1>2. CASE t \in B
  <2>1. B = (A \ {t}) \cup {t}
      BY <1>2
  <2>2. IsFiniteSet(B) /\ Cardinality(B) = Cardinality(A \ {t}) + 1
      BY <1>1, <2>1, FS_AddElement
  <2>3. Cardinality(A \ {t}) = IF t \in A THEN Cardinality(A) - 1 ELSE Cardinality(A)
      BY FS_RemoveElement
  <2>4. Cardinality(A) \in Nat /\ Cardinality(B) \in Nat
      BY <2>2, FS_CardinalityType
  <2> QED
      BY <1>2, <2>2, <2>3, <2>4
<1>3. CASE t \notin B
  <2>1. B = A \ {t}
      BY <1>3
  <2>2. /\ IsFiniteSet(B)
        /\ Cardinality(B) = IF t \in A THEN Cardinality(A) - 1 ELSE Cardinality(A)
      BY <2>1, FS_RemoveElement
  <2>3. Cardinality(A) \in Nat /\ Cardinality(B) \in Nat
      BY <2>2, FS_CardinalityType
  <2> QED
      BY <1>3, <2>2, <2>3
<1> QED
    BY <1>2, <1>3

\* The k-th position exists for every k up to the number of positions.
LEMMA RankExists ==
    ASSUME NEW n \in Nat, NEW I \in SUBSET (1 .. n), NEW k \in 1 .. Cardinality(I)
    PROVE  \E i \in I : Cardinality({j \in I : j <= i}) = k
<1> DEFINE below(i) == {j \in I : j <= i}
           card(i) == Cardinality(below(i))
           A == {i \in 1 .. n : card(i) >= k}
<1>1. IsFiniteSet(I) /\ Cardinality(I) \in Nat
  <2>1. IsFiniteSet(1 .. n)
      BY FS_Interval
  <2> QED
      BY <2>1, FS_Subset, FS_CardinalityType
<1>2. k \in Nat /\ k >= 1 /\ k <= Cardinality(I)
    BY <1>1
<1>3. \A j \in I : j \in Int /\ 1 <= j /\ j <= n
    OBVIOUS
<1>4. \A i : below(i) \in SUBSET I
    OBVIOUS
<1>5. \A i : IsFiniteSet(below(i))
    BY <1>1, <1>4, FS_Subset
<1>6. \A i : card(i) \in Nat
    BY <1>5, FS_CardinalityType
<1>7. n \in A
  <2>1. below(n) = I
      BY <1>3
  <2>2. I # {}
      BY <1>2, FS_EmptySet
  <2>3. PICK j \in I : TRUE
      BY <2>2
  <2>4. n \in 1 .. n
      BY <1>3, <2>3
  <2>5. card(n) >= k
      BY <1>1, <1>2, <2>1
  <2> QED
      BY <2>4, <2>5
<1>8. PICK m \in A : \A i \in A : m <= i
  <2>1. A \in SUBSET Nat
      OBVIOUS
  <2> QED
      BY <1>7, <2>1, LeastNatural
<1>9. m \in 1 .. n /\ card(m) >= k
    BY <1>8
<1>10. card(m - 1) < k
  <2>1. CASE m = 1
    <3>1. \A j \in I : ~(j <= m - 1)
        BY <1>3, <2>1
    <3>2. below(m - 1) = {}
        BY <3>1
    <3> QED
        BY <1>2, <3>2, FS_EmptySet
  <2>2. CASE m # 1
    <3>1. m - 1 \in 1 .. n /\ ~(m <= m - 1)
        BY <1>9, <2>2
    <3>2. m - 1 \notin A
        BY <1>8, <3>1
    <3>3. ~(card(m - 1) >= k)
        BY <3>1, <3>2
    <3> HIDE DEF card
    <3> QED
        BY <1>2, <1>6, <3>3
  <2> QED
      BY <2>1, <2>2
<1>11. m \in I
  <2> SUFFICES ASSUME m \notin I PROVE FALSE
      OBVIOUS
  <2>1. \A j \in I : j # m
      OBVIOUS
  <2>2. \A j \in I : j <= m <=> j <= m - 1
      BY <1>3, <1>9, <2>1
  <2>3. below(m) = below(m - 1)
      BY <2>2
  <2>4. card(m) = card(m - 1)
      BY <2>3
  <2> HIDE DEF card
  <2> QED
      BY <1>2, <1>6, <1>9, <1>10, <2>4
<1>12. card(m) = card(m - 1) + 1
  <2>1. \A j \in I : j <= m <=> j <= m - 1 \/ j = m
      BY <1>3, <1>9
  <2>2. m <= m /\ ~(m <= m - 1)
      BY <1>9
  <2>3. below(m) = below(m - 1) \cup {m} /\ m \notin below(m - 1)
      BY <1>11, <2>1, <2>2
  <2>4. Cardinality(below(m - 1) \cup {m}) = Cardinality(below(m - 1)) + 1
    <3> HIDE DEF below
    <3> QED
        BY <1>5, <2>3, FS_AddElement
  <2> QED
      BY <2>3, <2>4
<1>13. card(m) = k
  <2> HIDE DEF card
  <2> QED
      BY <1>2, <1>6, <1>9, <1>10, <1>12
<1> QED
    BY <1>11, <1>13

\* Different positions have different ranks.
LEMMA RankInjective ==
    ASSUME NEW n \in Nat, NEW I \in SUBSET (1 .. n), NEW a \in I, NEW b \in I, a < b
    PROVE  Cardinality({j \in I : j <= a}) < Cardinality({j \in I : j <= b})
<1> DEFINE below(i) == {j \in I : j <= i}
<1>1. IsFiniteSet(I)
  <2>1. IsFiniteSet(1 .. n)
      BY FS_Interval
  <2> QED
      BY <2>1, FS_Subset
<1>2. \A j \in I : j \in Int
    OBVIOUS
<1>3. \A i : below(i) \in SUBSET I
    OBVIOUS
<1>4. \A i : IsFiniteSet(below(i)) /\ Cardinality(below(i)) \in Nat
    BY <1>1, <1>3, FS_Subset, FS_CardinalityType
<1>5. b \notin below(a)
    BY <1>2
<1>6. below(a) \cup {b} \subseteq below(b)
  <2>1. \A j \in I : j <= a => j <= b
      BY <1>2
  <2>2. b <= b
      BY <1>2
  <2> QED
      BY <2>1, <2>2
<1> HIDE DEF below
<1>7. Cardinality(below(a) \cup {b}) = Cardinality(below(a)) + 1
    BY <1>4, <1>5, FS_AddElement
<1>8. Cardinality(below(a) \cup {b}) <= Cardinality(below(b))
    BY <1>4, <1>6, FS_Subset
<1>9. Cardinality(below(a)) < Cardinality(below(b))
    BY <1>4, <1>7, <1>8
<1> QED
    BY <1>9 DEF below

\* What Select returns: a list of as many nodes as positions, holding exactly the
\* nodes at these positions.
LEMMA SelectProperties ==
    ASSUME NEW S, NEW list \in Seq(S), NEW I \in SUBSET (DOMAIN list)
    PROVE  /\ Select(list, I) \in Seq(S)
           /\ Len(Select(list, I)) = Cardinality(I)
           /\ Cardinality(I) \in Nat
           /\ ToSet(Select(list, I)) = {list[i] : i \in I}
<1> DEFINE rank(i) == Cardinality({j \in I : j <= i})
           nth(k) == NthPosition(I, k)
<1>1. Len(list) \in Nat /\ DOMAIN list = 1 .. Len(list) /\ \A i \in DOMAIN list : list[i] \in S
    BY LenProperties, ElementOfSeq
<1>2. IsFiniteSet(I) /\ Cardinality(I) \in Nat
  <2>1. IsFiniteSet(1 .. Len(list))
      BY <1>1, FS_Interval
  <2> QED
      BY <1>1, <2>1, FS_Subset, FS_CardinalityType
<1>3. ASSUME NEW k \in 1 .. Cardinality(I)
      PROVE  nth(k) \in I /\ rank(nth(k)) = k
  <2>1. \E i \in I : Cardinality({j \in I : j <= i}) = k
      BY <1>1, RankExists
  <2> QED
      BY <2>1 DEF NthPosition
<1>4. ASSUME NEW i \in I
      PROVE  rank(i) \in 1 .. Cardinality(I)
  <2> DEFINE B == {j \in I : j <= i}
  <2>1. B \in SUBSET I
      OBVIOUS
  <2>2. i <= i
      BY <1>1
  <2>3. i \in B
      BY <2>2
  <2> HIDE DEF B
  <2>4. IsFiniteSet(B) /\ Cardinality(B) \in Nat /\ Cardinality(B) <= Cardinality(I)
      BY <1>2, <2>1, FS_Subset, FS_CardinalityType
  <2>5. Cardinality(B) # 0
      BY <2>3, <2>4, FS_EmptySet
  <2>6. Cardinality(B) \in 1 .. Cardinality(I)
      BY <1>2, <2>4, <2>5
  <2> QED
      BY <2>6 DEF B
<1>5. ASSUME NEW i \in I
      PROVE  nth(rank(i)) = i
  <2>1. nth(rank(i)) \in I /\ rank(nth(rank(i))) = rank(i)
      BY <1>3, <1>4
  <2>2. \A a, b \in I : a < b => rank(a) < rank(b)
      BY <1>1, RankInjective
  <2>3. \A a \in I : a \in Int /\ rank(a) \in Int
      BY <1>1, <1>2, <1>4
  <2>4. ~(i < nth(rank(i))) /\ ~(nth(rank(i)) < i)
    <3> HIDE DEF rank, nth
    <3> QED
        BY <2>1, <2>2, <2>3
  <2> HIDE DEF rank, nth
  <2> QED
      BY <2>1, <2>3, <2>4
<1>6. Select(list, I) = [k \in 1 .. Cardinality(I) |-> list[nth(k)]]
    BY DEF Select
<1> HIDE DEF rank, nth
<1>7. \A k \in 1 .. Cardinality(I) : list[nth(k)] \in S
    BY <1>1, <1>3
<1>8. Select(list, I) \in [1 .. Cardinality(I) -> S]
    BY <1>6, <1>7
<1>9. Select(list, I) \in Seq(S)
    BY <1>2, <1>8, SeqDef
<1>10. DOMAIN Select(list, I) = 1 .. Cardinality(I) /\ Len(Select(list, I)) = Cardinality(I)
    BY <1>2, <1>8, <1>9, LenProperties
<1>11. ToSet(Select(list, I)) = {list[nth(k)] : k \in 1 .. Cardinality(I)}
    BY <1>6, <1>10 DEF ToSet
<1>12. {list[nth(k)] : k \in 1 .. Cardinality(I)} = {list[i] : i \in I}
    BY <1>3, <1>4, <1>5
<1> QED
    BY <1>2, <1>9, <1>10, <1>11, <1>12

-----------------------------------------------------------------------------
\* The nodes of a list are in its domain's image, and a concatenation holds the
\* nodes of both parts.
LEMMA ToSetType ==
    ASSUME NEW S, NEW list \in Seq(S)
    PROVE  ToSet(list) \in SUBSET S
BY LenProperties, ElementOfSeq DEF ToSet

LEMMA ToSetConcat ==
    ASSUME NEW S, NEW a \in Seq(S), NEW b \in Seq(S)
    PROVE  /\ a \o b \in Seq(S)
           /\ Len(a \o b) = Len(a) + Len(b)
           /\ ToSet(a \o b) = ToSet(a) \cup ToSet(b)
<1> DEFINE c == a \o b
<1>1. /\ c \in Seq(S) /\ Len(c) = Len(a) + Len(b)
      /\ \A i \in 1 .. Len(a) + Len(b) : c[i] = IF i <= Len(a) THEN a[i] ELSE b[i - Len(a)]
    BY ConcatProperties
<1>2. /\ Len(a) \in Nat /\ DOMAIN a = 1 .. Len(a)
      /\ Len(b) \in Nat /\ DOMAIN b = 1 .. Len(b)
      /\ DOMAIN c = 1 .. Len(a) + Len(b)
    BY <1>1, LenProperties
<1> HIDE DEF c
<1>3. ASSUME NEW i \in DOMAIN c
      PROVE  \/ \E j \in DOMAIN a : c[i] = a[j]
             \/ \E j \in DOMAIN b : c[i] = b[j]
  <2>1. CASE i <= Len(a)
    <3>1. i \in DOMAIN a /\ c[i] = a[i]
        BY <1>1, <1>2, <2>1
    <3> QED
        BY <3>1
  <2>2. CASE ~(i <= Len(a))
    <3>1. i - Len(a) \in DOMAIN b /\ c[i] = b[i - Len(a)]
        BY <1>1, <1>2, <2>2
    <3> QED
        BY <3>1
  <2> QED
      BY <2>1, <2>2
<1>4. ASSUME NEW j \in DOMAIN a
      PROVE  j \in DOMAIN c /\ c[j] = a[j]
    BY <1>1, <1>2
<1>5. ASSUME NEW j \in DOMAIN b
      PROVE  \E i \in DOMAIN c : c[i] = b[j]
  <2>1. Len(a) + j \in DOMAIN c /\ ~(Len(a) + j <= Len(a)) /\ (Len(a) + j) - Len(a) = j
      BY <1>2
  <2>2. c[Len(a) + j] = b[j]
      BY <1>1, <1>2, <2>1
  <2> QED
      BY <2>1, <2>2
<1>6. ToSet(c) = ToSet(a) \cup ToSet(b)
    BY <1>3, <1>4, <1>5 DEF ToSet
<1> QED
    BY <1>1, <1>6 DEF c

\* Adding a folio at either end, or removing it.
LEMMA AddProperties ==
    ASSUME NEW S, NEW list \in Seq(S), NEW f \in S
    PROVE  /\ ListAdd(list, f) \in Seq(S)
           /\ ToSet(ListAdd(list, f)) = ToSet(list) \cup {f}
           /\ ListAddTail(list, f) \in Seq(S)
           /\ ToSet(ListAddTail(list, f)) = ToSet(list) \cup {f}
<1> DEFINE one == <<f>>
<1>1. one \in Seq(S) /\ ToSet(one) = {f}
    BY DEF ToSet
<1>2. Append(list, f) = list \o one
    BY AppendIsConcat
<1>3. ListAdd(list, f) = one \o list /\ ListAddTail(list, f) = list \o one
    BY <1>2 DEF ListAdd, ListAddTail
<1> HIDE DEF one
<1>4. one \o list \in Seq(S) /\ ToSet(one \o list) = {f} \cup ToSet(list)
    BY <1>1, ToSetConcat
<1>5. list \o one \in Seq(S) /\ ToSet(list \o one) = ToSet(list) \cup {f}
    BY <1>1, ToSetConcat
<1> QED
    BY <1>3, <1>4, <1>5

LEMMA DelProperties ==
    ASSUME NEW S, NEW list \in Seq(S), NEW f
    PROVE  /\ ListDel(list, f) \in Seq(S)
           /\ ToSet(ListDel(list, f)) = ToSet(list) \ {f}
<1> DEFINE I == {i \in DOMAIN list : list[i] # f}
<1>1. I \in SUBSET (DOMAIN list)
    OBVIOUS
<1>2. {list[i] : i \in I} = ToSet(list) \ {f}
    BY DEF ToSet
<1> HIDE DEF I
<1>3. /\ Select(list, I) \in Seq(S)
      /\ ToSet(Select(list, I)) = {list[i] : i \in I}
    BY <1>1, SelectProperties
<1> QED
    BY <1>2, <1>3 DEF ListDel, I

\* An iteration neither loses nor invents a node, whatever the verdicts: every
\* node is either not visited, or proposed for eviction, or passed over; and the
\* verdict decides which.
LEMMA IterationProperties ==
    ASSUME NEW S, NEW list \in Seq(S), NEW verdict, NEW room
    PROVE  /\ Unvisited(list, verdict, room) \in Seq(S)
           /\ Visited(list, verdict, room) \in Seq(S)
           /\ Evicted(list, verdict, room) \in Seq(S)
           /\ Continued(list, verdict, room) \in Seq(S)
           /\ Len(Evicted(list, verdict, room)) \in Nat
           /\ Len(Continued(list, verdict, room)) \in Nat
           /\ ToSet(Visited(list, verdict, room)) =
                ToSet(Evicted(list, verdict, room)) \cup ToSet(Continued(list, verdict, room))
           /\ ToSet(list) =
                ToSet(Visited(list, verdict, room)) \cup ToSet(Unvisited(list, verdict, room))
           /\ \A f \in ToSet(Evicted(list, verdict, room)) : verdict[f] = EVICT_NODE
           /\ \A f \in ToSet(Continued(list, verdict, room)) : verdict[f] # EVICT_NODE
<1> DEFINE V == VisitedAt(list, verdict, room)
           U == DOMAIN list \ V
           E == {i \in V : verdict[list[i]] = EVICT_NODE}
           C == {i \in V : verdict[list[i]] # EVICT_NODE}
<1>1. V \in SUBSET (DOMAIN list)
    BY DEF VisitedAt
<1> HIDE DEF V
<1>2. U \in SUBSET (DOMAIN list) /\ E \in SUBSET (DOMAIN list) /\ C \in SUBSET (DOMAIN list)
    BY <1>1
<1>3. V = E \cup C /\ DOMAIN list = V \cup U
    BY <1>1
<1> DEFINE image(I) == {list[i] : i \in I}
<1>4. image(V) = image(E) \cup image(C) /\ ToSet(list) = image(V) \cup image(U)
    BY <1>3 DEF ToSet
<1>5. /\ \A f \in image(E) : verdict[f] = EVICT_NODE
      /\ \A f \in image(C) : verdict[f] # EVICT_NODE
    OBVIOUS
<1> HIDE DEF U, E, C
<1>6. \A I \in SUBSET (DOMAIN list) :
         /\ Select(list, I) \in Seq(S)
         /\ Len(Select(list, I)) \in Nat
         /\ ToSet(Select(list, I)) = image(I)
    BY SelectProperties
<1>7. /\ Visited(list, verdict, room) = Select(list, V)
      /\ Unvisited(list, verdict, room) = Select(list, U)
      /\ Evicted(list, verdict, room) = Select(list, E)
      /\ Continued(list, verdict, room) = Select(list, C)
    BY DEF Visited, Unvisited, Evicted, Continued, V, U, E, C
<1> HIDE DEF image
<1> QED
    BY <1>1, <1>2, <1>4, <1>5, <1>6, <1>7

-----------------------------------------------------------------------------
\* A list that holds no folio twice keeps that property when it is cut into parts,
\* and the parts have no folio in common.
LEMMA SelectInjective ==
    ASSUME NEW S, NEW list \in Seq(S), IsInjective(list), NEW I \in SUBSET (DOMAIN list)
    PROVE  IsInjective(Select(list, I))
<1> DEFINE rank(i) == Cardinality({j \in I : j <= i})
           nth(k) == NthPosition(I, k)
<1>1. Len(list) \in Nat /\ DOMAIN list = 1 .. Len(list)
    BY LenProperties
<1>2. ASSUME NEW k \in 1 .. Cardinality(I)
      PROVE  nth(k) \in I /\ rank(nth(k)) = k
  <2>1. \E i \in I : Cardinality({j \in I : j <= i}) = k
      BY <1>1, RankExists
  <2> QED
      BY <2>1 DEF NthPosition
<1>3. Select(list, I) = [k \in 1 .. Cardinality(I) |-> list[nth(k)]]
    BY DEF Select
<1> HIDE DEF rank, nth
<1>4. \A j, k \in 1 .. Cardinality(I) : nth(j) = nth(k) => j = k
    BY <1>2
<1>5. \A i, j \in DOMAIN list : list[i] = list[j] => i = j
    BY DEF IsInjective
<1>6. \A j, k \in 1 .. Cardinality(I) : list[nth(j)] = list[nth(k)] => j = k
    BY <1>2, <1>4, <1>5
<1> QED
    BY <1>3, <1>6 DEF IsInjective

LEMMA ConcatInjective ==
    ASSUME NEW S, NEW a \in Seq(S), NEW b \in Seq(S),
           IsInjective(a), IsInjective(b), ToSet(a) \cap ToSet(b) = {}
    PROVE  IsInjective(a \o b)
<1> DEFINE c == a \o b
<1>1. /\ c \in Seq(S) /\ Len(c) = Len(a) + Len(b)
      /\ \A i \in 1 .. Len(a) + Len(b) : c[i] = IF i <= Len(a) THEN a[i] ELSE b[i - Len(a)]
    BY ConcatProperties
<1>2. /\ Len(a) \in Nat /\ DOMAIN a = 1 .. Len(a)
      /\ Len(b) \in Nat /\ DOMAIN b = 1 .. Len(b)
      /\ DOMAIN c = 1 .. Len(a) + Len(b)
    BY <1>1, LenProperties
<1> HIDE DEF c
<1>3. \A i \in DOMAIN c : i <= Len(a) => i \in DOMAIN a /\ c[i] = a[i]
    BY <1>1, <1>2
<1>4. \A i \in DOMAIN c : ~(i <= Len(a)) => i - Len(a) \in DOMAIN b /\ c[i] = b[i - Len(a)]
    BY <1>1, <1>2
<1>5. /\ \A i, j \in DOMAIN a : a[i] = a[j] => i = j
      /\ \A i, j \in DOMAIN b : b[i] = b[j] => i = j
      /\ \A i \in DOMAIN a, j \in DOMAIN b : a[i] # b[j]
    BY DEF IsInjective, ToSet
<1>6. ASSUME NEW i \in DOMAIN c, NEW j \in DOMAIN c, c[i] = c[j]
      PROVE  i = j
  <2>1. CASE i <= Len(a) /\ j <= Len(a)
      BY <1>3, <1>5, <1>6, <2>1
  <2>2. CASE ~(i <= Len(a)) /\ ~(j <= Len(a))
    <3>1. i - Len(a) = j - Len(a)
        BY <1>4, <1>5, <1>6, <2>2
    <3> QED
        BY <1>2, <3>1
  <2>3. CASE i <= Len(a) /\ ~(j <= Len(a))
      BY <1>3, <1>4, <1>5, <1>6, <2>3
  <2>4. CASE ~(i <= Len(a)) /\ j <= Len(a)
      BY <1>3, <1>4, <1>5, <1>6, <2>4
  <2> QED
      BY <2>1, <2>2, <2>3, <2>4
<1> QED
    BY <1>6 DEF IsInjective, c

\* The same for the list operations.
LEMMA OperationsInjective ==
    ASSUME NEW S, NEW list \in Seq(S), IsInjective(list), NEW f
    PROVE  /\ IsInjective(ListDel(list, f))
           /\ f \in S \ ToSet(list) => IsInjective(ListAddTail(list, f))
<1>1. IsInjective(ListDel(list, f))
    BY SelectInjective DEF ListDel
<1>2. ASSUME f \in S \ ToSet(list) PROVE IsInjective(ListAddTail(list, f))
  <2> DEFINE one == <<f>>
  <2>1. one \in Seq(S) /\ ToSet(one) = {f} /\ IsInjective(one)
      BY <1>2 DEF ToSet, IsInjective
  <2>2. ListAddTail(list, f) = list \o one
      BY <1>2, AppendIsConcat DEF ListAddTail
  <2> HIDE DEF one
  <2> QED
      BY <1>2, <2>1, <2>2, ConcatInjective
<1> QED
    BY <1>1, <1>2

LEMMA AddInjective ==
    ASSUME NEW S, NEW list \in Seq(S), IsInjective(list), NEW f \in S \ ToSet(list)
    PROVE  IsInjective(ListAdd(list, f))
<1> DEFINE one == <<f>>
<1>1. one \in Seq(S) /\ ToSet(one) = {f} /\ IsInjective(one)
    BY DEF ToSet, IsInjective
<1>2. ListAdd(list, f) = one \o list
    BY DEF ListAdd
<1> HIDE DEF one
<1> QED
    BY <1>1, <1>2, ConcatInjective

\* A list without duplicates is as long as it has members.
LEMMA InjectiveLen ==
    ASSUME NEW S, NEW list \in Seq(S), IsInjective(list)
    PROVE  IsFiniteSet(ToSet(list)) /\ Cardinality(ToSet(list)) = Len(list)
<1>1. Len(list) \in Nat /\ DOMAIN list = 1 .. Len(list) /\ list \in [1 .. Len(list) -> S]
    BY LenProperties
<1>2. list \in [1 .. Len(list) -> ToSet(list)]
    BY <1>1 DEF ToSet
<1>3. list \in Surjection(1 .. Len(list), ToSet(list))
    BY <1>1, <1>2 DEF Surjection, ToSet
<1>4. list \in Injection(1 .. Len(list), ToSet(list))
    BY <1>2 DEF Injection
<1>5. IsFiniteSet(1 .. Len(list)) /\ Cardinality(1 .. Len(list)) = Len(list)
    BY <1>1, FS_Interval
<1> QED
    BY <1>3, <1>4, <1>5, FS_Surjection

LEMMA IterationInjective ==
    ASSUME NEW S, NEW list \in Seq(S), IsInjective(list), NEW verdict, NEW room
    PROVE  /\ IsInjective(Unvisited(list, verdict, room))
           /\ IsInjective(Visited(list, verdict, room))
           /\ IsInjective(Evicted(list, verdict, room))
           /\ IsInjective(Continued(list, verdict, room))
           /\ ToSet(Unvisited(list, verdict, room))
                \cap ToSet(Visited(list, verdict, room)) = {}
           /\ ToSet(Evicted(list, verdict, room))
                \cap ToSet(Continued(list, verdict, room)) = {}
<1> DEFINE V == VisitedAt(list, verdict, room)
           U == DOMAIN list \ V
           E == {i \in V : verdict[list[i]] = EVICT_NODE}
           C == {i \in V : verdict[list[i]] # EVICT_NODE}
<1>1. V \in SUBSET (DOMAIN list)
    BY DEF VisitedAt
<1> HIDE DEF V
<1>2. U \in SUBSET (DOMAIN list) /\ E \in SUBSET (DOMAIN list) /\ C \in SUBSET (DOMAIN list)
    BY <1>1
<1>3. /\ Visited(list, verdict, room) = Select(list, V)
      /\ Unvisited(list, verdict, room) = Select(list, U)
      /\ Evicted(list, verdict, room) = Select(list, E)
      /\ Continued(list, verdict, room) = Select(list, C)
    BY DEF Visited, Unvisited, Evicted, Continued, V
<1> DEFINE image(I) == {list[i] : i \in I}
<1>4. \A I \in SUBSET (DOMAIN list) :
         ToSet(Select(list, I)) = image(I) /\ IsInjective(Select(list, I))
    BY SelectProperties, SelectInjective
<1>5. image(U) \cap image(V) = {} /\ image(E) \cap image(C) = {}
    BY <1>1, <1>2 DEF IsInjective
<1> HIDE DEF U, E, C, image
<1> QED
    BY <1>1, <1>2, <1>3, <1>4, <1>5

\* The length of a list after a folio was added at the tail or removed.
LEMMA AddDelLen ==
    ASSUME NEW S, NEW list \in Seq(S), NEW f
    PROVE  /\ Len(ListAddTail(list, f)) = Len(list) + 1
           /\ IsInjective(list) =>
                Len(ListDel(list, f)) = IF f \in ToSet(list) THEN Len(list) - 1 ELSE Len(list)
<1>1. Len(ListAddTail(list, f)) = Len(list) + 1
    BY DEF ListAddTail
<1>2. ASSUME IsInjective(list)
      PROVE  Len(ListDel(list, f)) = IF f \in ToSet(list) THEN Len(list) - 1 ELSE Len(list)
  <2>1. /\ ListDel(list, f) \in Seq(S) /\ IsInjective(ListDel(list, f))
        /\ ToSet(ListDel(list, f)) = ToSet(list) \ {f}
      BY <1>2, DelProperties, OperationsInjective
  <2>2. IsFiniteSet(ToSet(list)) /\ Cardinality(ToSet(list)) = Len(list)
      BY <1>2, InjectiveLen
  <2>3. Cardinality(ToSet(ListDel(list, f))) = Len(ListDel(list, f))
      BY <2>1, InjectiveLen
  <2>4. Cardinality(ToSet(list) \ {f}) =
          IF f \in ToSet(list) THEN Cardinality(ToSet(list)) - 1 ELSE Cardinality(ToSet(list))
      BY <2>2, FS_RemoveElement
  <2> QED
      BY <2>1, <2>2, <2>3, <2>4
<1> QED
    BY <1>1, <1>2

\* Lists without common members whose members are those of a third list.
LEMMA SplitLen ==
    ASSUME NEW S, NEW list \in Seq(S), NEW a \in Seq(S), NEW b \in Seq(S),
           IsInjective(list), IsInjective(a), IsInjective(b),
           ToSet(list) = ToSet(a) \cup ToSet(b), ToSet(a) \cap ToSet(b) = {}
    PROVE  Len(list) = Len(a) + Len(b)
<1>1. Cardinality(ToSet(list)) = Len(list)
    BY InjectiveLen
<1>2. IsFiniteSet(ToSet(a)) /\ Cardinality(ToSet(a)) = Len(a)
    BY InjectiveLen
<1>3. IsFiniteSet(ToSet(b)) /\ Cardinality(ToSet(b)) = Len(b)
    BY InjectiveLen
<1>4. Cardinality(ToSet(a) \cap ToSet(b)) = 0
    BY FS_EmptySet
<1>5. Cardinality(ToSet(a) \cup ToSet(b)) =
        Cardinality(ToSet(a)) + Cardinality(ToSet(b)) - Cardinality(ToSet(a) \cap ToSet(b))
    BY <1>2, <1>3, FS_Union
<1>6. Len(a) \in Nat /\ Len(b) \in Nat
    OBVIOUS
<1> QED
    BY <1>1, <1>2, <1>3, <1>4, <1>5, <1>6

\* An iteration splits the nodes of a list without losing or repeating one.
LEMMA IterationLen ==
    ASSUME NEW S, NEW list \in Seq(S), IsInjective(list), NEW verdict, NEW room
    PROVE  /\ Len(list) = Len(Visited(list, verdict, room)) + Len(Unvisited(list, verdict, room))
           /\ Len(Visited(list, verdict, room)) =
                Len(Evicted(list, verdict, room)) + Len(Continued(list, verdict, room))
<1> DEFINE visited == Visited(list, verdict, room)
           unvisited == Unvisited(list, verdict, room)
           evicted == Evicted(list, verdict, room)
           continued == Continued(list, verdict, room)
<1>1. /\ unvisited \in Seq(S) /\ visited \in Seq(S) /\ evicted \in Seq(S) /\ continued \in Seq(S)
      /\ ToSet(visited) = ToSet(evicted) \cup ToSet(continued)
      /\ ToSet(list) = ToSet(visited) \cup ToSet(unvisited)
    BY IterationProperties
<1>2. /\ IsInjective(unvisited) /\ IsInjective(visited)
      /\ IsInjective(evicted) /\ IsInjective(continued)
      /\ ToSet(unvisited) \cap ToSet(visited) = {}
      /\ ToSet(evicted) \cap ToSet(continued) = {}
    BY IterationInjective
<1> HIDE DEF visited, unvisited, evicted, continued
<1>3. ToSet(visited) \cap ToSet(unvisited) = {}
    BY <1>2
<1>4. Len(list) = Len(visited) + Len(unvisited)
    BY <1>1, <1>2, <1>3, SplitLen
<1>5. Len(visited) = Len(evicted) + Len(continued)
    BY <1>1, <1>2, SplitLen
<1> QED
    BY <1>4, <1>5 DEF visited, unvisited, evicted, continued

=============================================================================
