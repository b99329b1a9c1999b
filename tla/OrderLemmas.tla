----------------------------- MODULE OrderLemmas -----------------------------
(***************************************************************************)
(* Lemmas about numbers that the other proofs cite: least and greatest ones, *)
(* the numbers of a set in ascending order, and sums.                      *)
(***************************************************************************)
EXTENDS Ascending, FiniteSetsExt, FiniteSetTheorems, SequenceTheorems, WellFoundedInduction, TLAPS

(* Numbers have a least one; this is what inductions over the numbers are, here:   *)
(* the least number for which a statement fails has one before it.               *)
LEMMA LeastNumber ==
    ASSUME NEW T, T \subseteq Nat, T # {}
    PROVE  \E n \in T : \A m \in T : n <= m
<1>1. \E n \in T : \A m \in T : ~ (<<m, n>> \in OpToRel(<, Nat))
  BY NatLessThanWellFounded, WFMin, Zenon
<1>2. \A m, n \in Nat : <<m, n>> \in OpToRel(<, Nat) <=> m < n
  BY Zenon DEF OpToRel
<1>3. PICK n \in T : \A m \in T : ~ (<<m, n>> \in OpToRel(<, Nat))
  BY <1>1, Zenon
<1>4. \A m \in T : ~ (m < n)
  BY <1>2, <1>3, Zenon
<1> QED
  BY <1>4

LEMMA FiniteIsBounded ==
    ASSUME NEW S \in SUBSET Nat, IsFiniteSet(S)
    PROVE  \E b \in Nat : \A n \in S : n <= b
<1> DEFINE Bounded(U) == \E b \in Nat : \A n \in U : n <= b
           unboundedSizes == {k \in Nat : \E U \in SUBSET S : k = Cardinality(U) /\ ~ Bounded(U)}
<1>1. SUFFICES ASSUME ~ Bounded(S)
               PROVE  FALSE
  OBVIOUS
<1>2. Cardinality(S) \in unboundedSizes
  BY <1>1, FS_CardinalityType
<1> HIDE DEF Bounded
<1>3. PICK k \in unboundedSizes : \A m \in unboundedSizes : k <= m
  BY <1>2, LeastNumber
<1>4. PICK U \in SUBSET S : k = Cardinality(U) /\ ~ Bounded(U)
  OBVIOUS
<1>5. PICK x \in U : TRUE
  BY <1>4 DEF Bounded
<1>6. IsFiniteSet(U)
  BY FS_Subset
<1>7. IsFiniteSet(U \ {x}) /\ Cardinality(U \ {x}) = k - 1 /\ Cardinality(U \ {x}) \in Nat
  <2>1. IsFiniteSet(U \ {x})
        /\ Cardinality(U \ {x}) = IF x \in U THEN Cardinality(U) - 1 ELSE Cardinality(U)
    BY <1>6, FS_RemoveElement, Zenon
  <2> QED
    BY <1>4, <1>5, <2>1, FS_CardinalityType
<1>8. Bounded(U \ {x})
  BY <1>3, <1>7
<1>9. PICK b \in Nat : \A n \in U \ {x} : n <= b
  BY <1>8 DEF Bounded
<1>10. x \in Nat /\ U \subseteq Nat
  OBVIOUS
<1>11. IF x <= b THEN \A n \in U : n <= b ELSE \A n \in U : n <= x
  BY <1>9, <1>10
<1> QED
  BY <1>4, <1>10, <1>11 DEF Bounded

(* How many numbers of S are n or less.                                     *)
AtMost(S, n) == {m \in S : m <= n}

LEMMA AtMostCounts ==
    ASSUME NEW S \in SUBSET Nat, IsFiniteSet(S)
    PROVE  /\ \A n \in Nat : /\ IsFiniteSet(AtMost(S, n))
                             /\ Cardinality(AtMost(S, n)) \in 0..Cardinality(S)
           /\ \A n \in Nat, k \in S : n < k => Cardinality(AtMost(S, n)) < Cardinality(AtMost(S, k))
<1>1. ASSUME NEW n \in Nat
      PROVE  /\ IsFiniteSet(AtMost(S, n))
             /\ Cardinality(AtMost(S, n)) \in 0..Cardinality(S)
  BY FS_Subset, FS_CardinalityType, AtMost(S, n) \subseteq S DEF AtMost
<1>2. ASSUME NEW n \in Nat, NEW k \in S, n < k
      PROVE  Cardinality(AtMost(S, n)) < Cardinality(AtMost(S, k))
  <2>0. k \in Nat /\ \A m \in S : m \in Nat
    OBVIOUS
  <2>1. AtMost(S, n) \union {k} \in SUBSET AtMost(S, k) /\ k \notin AtMost(S, n)
    <3>1. \A m \in S : m <= n => m <= k
      BY <1>2, <2>0
    <3>2. k <= k /\ ~ (k <= n)
      BY <1>2, <2>0
    <3> QED
      BY <3>1, <3>2, Zenon DEF AtMost
  <2>2. Cardinality(AtMost(S, n) \union {k}) =
          IF k \in AtMost(S, n) THEN Cardinality(AtMost(S, n)) ELSE Cardinality(AtMost(S, n)) + 1
    BY <1>1, FS_AddElement, Zenon
  <2>3. IsFiniteSet(AtMost(S, k)) /\ k \in Nat
    BY <1>1
  <2>4. Cardinality(AtMost(S, n) \union {k}) <= Cardinality(AtMost(S, k))
    BY <2>1, <2>3, FS_Subset, Zenon
  <2> QED
    BY <1>1, <2>1, <2>2, <2>3, <2>4
<1> QED
  BY <1>1, <1>2

(* Every count up to that of S is that of a number of S.                     *)
LEMMA CountsReached ==
    ASSUME NEW S \in SUBSET Nat, IsFiniteSet(S), NEW i \in 1..Cardinality(S)
    PROVE  \E n \in S : Cardinality(AtMost(S, n)) = i
<1> DEFINE T == {n \in Nat : Cardinality(AtMost(S, n)) >= i}
<1>1. T # {}
  <2>1. PICK b \in Nat : \A m \in S : m <= b
    BY FiniteIsBounded
  <2>2. AtMost(S, b) = S
    BY <2>1 DEF AtMost
  <2> QED
    BY <2>2
<1>2. PICK n \in T : \A m \in T : n <= m
  BY <1>1, LeastNumber
<1>3. IsFiniteSet(AtMost(S, n)) /\ Cardinality(AtMost(S, n)) \in Nat /\ Cardinality(AtMost(S, n)) >= i /\ n \in Nat
  BY AtMostCounts
<1>4. CASE n = 0
  <2>1. AtMost(S, n) = {} \/ (n \in S /\ AtMost(S, n) = {n})
    <3>1. \A m \in S : m <= n <=> m = n
      BY <1>4
    <3>2. \A m : m \in AtMost(S, n) <=> m \in S /\ m = n
      BY <3>1, Zenon DEF AtMost
    <3> QED
      BY <3>2, Zenon
  <2>2. Cardinality({}) = 0 /\ Cardinality({n}) = 1
    BY FS_EmptySet, FS_Singleton, Zenon
  <2>3. n \in S /\ Cardinality(AtMost(S, n)) = 1
    BY <1>3, <2>1, <2>2
  <2> QED
    BY <1>3, <2>3
<1>5. CASE n # 0
  <2>1. n - 1 \in Nat /\ n - 1 \notin T
    BY <1>2, <1>3, <1>5
  <2>2. IsFiniteSet(AtMost(S, n - 1)) /\ Cardinality(AtMost(S, n - 1)) \in Nat /\ Cardinality(AtMost(S, n - 1)) < i
    BY <2>1, AtMostCounts
  <2>3. IF n \in S THEN AtMost(S, n) = AtMost(S, n - 1) \union {n} ELSE AtMost(S, n) = AtMost(S, n - 1)
    <3>1. \A m \in S : m <= n <=> (m <= n - 1 \/ m = n)
      BY <1>3
    <3>2. /\ \A m : m \in AtMost(S, n) <=> m \in S /\ m <= n
          /\ \A m : m \in AtMost(S, n - 1) <=> m \in S /\ m <= n - 1
      BY Zenon DEF AtMost
    <3>3. \A m : m \in AtMost(S, n) <=> m \in AtMost(S, n - 1) \/ (m \in S /\ m = n)
      BY <3>1, <3>2, Zenon
    <3>4. CASE n \in S
      BY <3>3, <3>4, Zenon
    <3>5. CASE n \notin S
      BY <3>3, <3>5
    <3> QED
      BY <3>4, <3>5
  <2>4. n \in S
    BY <1>3, <2>2, <2>3
  <2>5. Cardinality(AtMost(S, n - 1) \union {n}) =
          IF n \in AtMost(S, n - 1) THEN Cardinality(AtMost(S, n - 1)) ELSE Cardinality(AtMost(S, n - 1)) + 1
    BY <2>2, FS_AddElement, Zenon
  <2>6. Cardinality(AtMost(S, n)) = i
    <3> DEFINE c == Cardinality(AtMost(S, n - 1))
               d == Cardinality(AtMost(S, n))
    <3>1. c \in Nat /\ c < i /\ d \in Nat /\ d >= i /\ (d = c \/ d = c + 1)
      BY <1>3, <2>2, <2>3, <2>4, <2>5
    <3> HIDE DEF c, d
    <3> QED
      BY <3>1 DEF d
  <2> QED
    BY <2>4, <2>6
<1> QED
  BY <1>4, <1>5

(* InOrder names each number of S once, and a smaller one earlier.            *)
LEMMA InOrderIsAscending ==
    ASSUME NEW S \in SUBSET Nat, IsFiniteSet(S)
    PROVE  /\ InOrder(S) \in [1..Cardinality(S) -> S]
           /\ \A n \in S : \E i \in 1..Cardinality(S) : InOrder(S)[i] = n
           /\ \A i, j \in 1..Cardinality(S) : i < j => InOrder(S)[i] < InOrder(S)[j]
<1>1. Cardinality(S) \in Nat
  BY FS_CardinalityType
<1>2. ASSUME NEW i \in 1..Cardinality(S)
      PROVE  InOrder(S)[i] \in S /\ Cardinality(AtMost(S, InOrder(S)[i])) = i
  <2>1. InOrder(S)[i] = CHOOSE n \in S : Cardinality(AtMost(S, n)) = i
    BY DEF InOrder, AtMost
  <2> QED
    BY <2>1, CountsReached
<1>3. InOrder(S) \in [1..Cardinality(S) -> S]
  BY <1>2 DEF InOrder
<1>4. ASSUME NEW n \in S
      PROVE  \E i \in 1..Cardinality(S) : InOrder(S)[i] = n
  <2> DEFINE i == Cardinality(AtMost(S, n))
  <2>1. AtMost(S, n) # {} /\ n \in Nat
    BY DEF AtMost
  <2>2. i \in 1..Cardinality(S)
    <3>1. IsFiniteSet(AtMost(S, n)) /\ i \in 0..Cardinality(S)
      BY <2>1, AtMostCounts
    <3>2. i # 0
      BY <2>1, <3>1, FS_EmptySet
    <3> QED
      BY <1>1, <3>1, <3>2
  <2>3. InOrder(S)[i] \in S /\ Cardinality(AtMost(S, InOrder(S)[i])) = i
    BY <1>2, <2>2
  <2>4. \A m, k \in S : m < k => Cardinality(AtMost(S, m)) < Cardinality(AtMost(S, k))
    BY AtMostCounts
  <2>5. ~ (n < InOrder(S)[i]) /\ ~ (InOrder(S)[i] < n)
    <3>1. i \in Nat /\ ~ (i < i)
      BY <2>2
    <3> QED
      BY <2>3, <2>4, <3>1
  <2>6. InOrder(S)[i] \in Nat
    BY <2>3
  <2> QED
    BY <2>1, <2>2, <2>5, <2>6
<1>5. ASSUME NEW i \in 1..Cardinality(S), NEW j \in 1..Cardinality(S), i < j
      PROVE  InOrder(S)[i] < InOrder(S)[j]
  <2>1. InOrder(S)[i] \in Nat /\ InOrder(S)[j] \in Nat
    BY <1>2
  <2>2. ~ (InOrder(S)[j] < InOrder(S)[i]) /\ InOrder(S)[j] # InOrder(S)[i]
    BY <1>2, <1>5, <2>1, AtMostCounts
  <2> QED
    BY <2>1, <2>2
<1> QED
  BY <1>3, <1>4, <1>5

(* A number of S stands at the place that its rank is.                            *)
LEMMA PlaceIsRank ==
    ASSUME NEW S \in SUBSET Nat, IsFiniteSet(S), NEW n \in S
    PROVE  /\ Cardinality(AtMost(S, n)) \in 1..Cardinality(S)
           /\ InOrder(S)[Cardinality(AtMost(S, n))] = n
<1> DEFINE i == Cardinality(AtMost(S, n))
<1>1. Cardinality(S) \in Nat /\ n \in Nat
  BY FS_CardinalityType
<1>2. IsFiniteSet(AtMost(S, n)) /\ i \in 0..Cardinality(S)
  BY <1>1, AtMostCounts
<1>3. n \in AtMost(S, n)
  BY <1>1 DEF AtMost
<1>4. i # 0
  BY <1>2, <1>3, FS_EmptySet
<1>5. i \in 1..Cardinality(S)
  BY <1>1, <1>2, <1>4
<1>6. PICK j \in 1..Cardinality(S) : InOrder(S)[j] = n
  BY InOrderIsAscending
<1>7. InOrder(S)[i] = CHOOSE m \in S : Cardinality(AtMost(S, m)) = i
  BY <1>5 DEF InOrder, AtMost
<1>8. InOrder(S)[i] \in S /\ Cardinality(AtMost(S, InOrder(S)[i])) = i
  BY <1>7
<1> DEFINE m == InOrder(S)[i]
<1>9. m \in Nat /\ ~ (m < n) /\ ~ (n < m)
  <2> HIDE DEF m
  <2>1. m \in S /\ Cardinality(AtMost(S, m)) = Cardinality(AtMost(S, n)) /\ Cardinality(AtMost(S, n)) \in Nat
    BY <1>2, <1>8 DEF m
  <2>2. m < n => Cardinality(AtMost(S, m)) < Cardinality(AtMost(S, n))
    BY <2>1, AtMostCounts
  <2>3. n < m => Cardinality(AtMost(S, n)) < Cardinality(AtMost(S, m))
    BY <1>1, <2>1, AtMostCounts
  <2> QED
    BY <2>1, <2>2, <2>3
<1>10. m = n
  <2> HIDE DEF m
  <2> QED
    BY <1>1, <1>9
<1> QED
  BY <1>5, <1>10

LEMMA InOrderIsSeq ==
    ASSUME NEW S \in SUBSET Nat, IsFiniteSet(S)
    PROVE  InOrder(S) \in Seq(S) /\ Len(InOrder(S)) = Cardinality(S) /\ Cardinality(S) \in Nat
<1> DEFINE c == Cardinality(S)
           s == InOrder(S)
<1>1. c \in Nat /\ s \in [1..c -> S]
  BY FS_CardinalityType, InOrderIsAscending
<1> HIDE DEF c, s
<1>2. s \in Seq(S) /\ Len(s) = c
  BY <1>1
<1> QED
  BY <1>1, <1>2 DEF c, s

LEMMA DisjointCount ==
    ASSUME NEW A, IsFiniteSet(A), NEW B, IsFiniteSet(B), \A a \in A : a \notin B
    PROVE  Cardinality(A \union B) = Cardinality(A) + Cardinality(B) /\ IsFiniteSet(A \union B)
<1>1. A \intersect B = {}
  OBVIOUS
<1>2. Cardinality(A \intersect B) = 0
  BY <1>1, FS_EmptySet, Zenon
<1>3. /\ IsFiniteSet(A \union B)
      /\ Cardinality(A \union B) = Cardinality(A) + Cardinality(B) - Cardinality(A \intersect B)
  BY FS_Union, Zenon
<1>4. Cardinality(A) \in Nat /\ Cardinality(B) \in Nat
  BY FS_CardinalityType
<1> QED
  BY <1>2, <1>3, <1>4

LEMMA JoinedIsThem ==
    ASSUME NEW S, NEW s \in Seq(S), NEW t \in Seq(S), NEW u \in Seq(S), Len(u) = Len(s) + Len(t),
           \A i \in 1..Len(s) : u[i] = s[i], \A i \in 1..Len(t) : u[Len(s) + i] = t[i]
    PROVE  u = s \o t
<1> DEFINE p == Len(s)
           q == Len(t)
<1>1. p \in Nat /\ q \in Nat /\ s \o t \in Seq(S) /\ Len(s \o t) = p + q
  OBVIOUS
<1>2. ASSUME NEW i \in 1..(p + q)
      PROVE  u[i] = (s \o t)[i]
  <2>1. CASE i <= p
    BY <1>1, <2>1
  <2>2. CASE i > p
    <3>1. i - p \in 1..q /\ p + (i - p) = i
      BY <1>1, <2>2
    <3>2. u[p + (i - p)] = t[i - p]
      BY <3>1
    <3>3. (s \o t)[i] = t[i - p]
      BY <1>1, <2>2
    <3> QED
      BY <3>1, <3>2, <3>3
  <2> QED
    BY <1>1, <2>1, <2>2
<1> QED
  BY <1>1, <1>2

(* Numbers that all come after those of A are put behind them.                    *)
LEMMA InOrderJoins ==
    ASSUME NEW A \in SUBSET Nat, IsFiniteSet(A), NEW B \in SUBSET Nat, IsFiniteSet(B),
           \A a \in A, b \in B : a < b
    PROVE  InOrder(A \union B) = InOrder(A) \o InOrder(B)
<1> DEFINE S == A \union B
           p == Cardinality(A)
           q == Cardinality(B)
<1>1. p \in Nat /\ q \in Nat
  BY FS_CardinalityType
<1>2. \A n \in A : n \notin B
  <2> SUFFICES ASSUME NEW n \in A, n \in B
               PROVE  FALSE
    OBVIOUS
  <2>1. n < n /\ n \in Nat
    OBVIOUS
  <2> QED
    BY <2>1
<1>3. S \in SUBSET Nat /\ IsFiniteSet(S) /\ Cardinality(S) = p + q
  BY <1>2, DisjointCount
<1>3a. InOrder(A) \in [1..p -> A] /\ InOrder(B) \in [1..q -> B]
  BY InOrderIsAscending
<1>4. ASSUME NEW i \in 1..p
      PROVE  InOrder(S)[i] = InOrder(A)[i]
  <2>1. PICK n \in A : n = InOrder(A)[i]
    BY <1>3a
  <2>2. Cardinality(AtMost(A, n)) \in 1..p /\ InOrder(A)[Cardinality(AtMost(A, n))] = n
    BY PlaceIsRank
  <2>3. Cardinality(AtMost(A, n)) = i
    <3> DEFINE j == Cardinality(AtMost(A, n))
    <3>1. j \in 1..p /\ InOrder(A)[j] = n /\ n \in Nat /\ ~ (n < n)
      BY <2>2
    <3> HIDE DEF j
    <3>2. ~ (i < j) /\ ~ (j < i)
      BY <2>1, <3>1, InOrderIsAscending
    <3>3. j = i
      BY <1>1, <3>1, <3>2
    <3> QED
      BY <3>3 DEF j
  <2>4. AtMost(S, n) = AtMost(A, n)
    <3>1. \A b \in B : n < b /\ b \in Nat /\ n \in Nat
      OBVIOUS
    <3>2. \A b \in B : ~ (b <= n)
      BY <3>1
    <3> QED
      BY <3>2, Zenon DEF AtMost
  <2>5. Cardinality(AtMost(S, n)) = i
    BY <2>3, <2>4
  <2>6. n \in S
    OBVIOUS
  <2> HIDE DEF S
  <2>7. InOrder(S)[Cardinality(AtMost(S, n))] = n
    BY <1>3, <2>6, PlaceIsRank
  <2> QED
    BY <2>1, <2>5, <2>7
<1>5. ASSUME NEW i \in 1..q
      PROVE  InOrder(S)[p + i] = InOrder(B)[i]
  <2>1. PICK n \in B : n = InOrder(B)[i]
    BY <1>3a
  <2>2. Cardinality(AtMost(B, n)) \in 1..q /\ InOrder(B)[Cardinality(AtMost(B, n))] = n
    BY PlaceIsRank
  <2>3. Cardinality(AtMost(B, n)) = i
    <3> DEFINE j == Cardinality(AtMost(B, n))
    <3>1. j \in 1..q /\ InOrder(B)[j] = n /\ n \in Nat /\ ~ (n < n)
      BY <2>2
    <3> HIDE DEF j
    <3>2. ~ (i < j) /\ ~ (j < i)
      BY <2>1, <3>1, InOrderIsAscending
    <3>3. j = i
      BY <1>1, <3>1, <3>2
    <3> QED
      BY <3>3 DEF j
  <2>4. AtMost(S, n) = A \union AtMost(B, n) /\ A \intersect AtMost(B, n) = {}
    <3>1. \A a \in A : a < n /\ a \in Nat /\ n \in Nat /\ \A b \in B : a < b /\ b \in Nat
      OBVIOUS
    <3>2. \A a \in A : a <= n /\ a \notin B
      <4> SUFFICES ASSUME NEW a \in A
                   PROVE  a <= n /\ a \notin B
        OBVIOUS
      <4>1. a \in B => a < a
        BY <3>1
      <4> QED
        BY <3>1, <4>1
    <3> QED
      BY <3>2, Zenon DEF AtMost
  <2>5. IsFiniteSet(AtMost(B, n)) /\ n \in Nat
    BY AtMostCounts
  <2>6. Cardinality(A \union AtMost(B, n)) = p + i
    <3>1. \A a \in A : a \notin AtMost(B, n)
      BY <2>4
    <3> QED
      BY <2>3, <2>5, <3>1, DisjointCount
  <2>7. Cardinality(AtMost(S, n)) = p + i /\ n \in S
    BY <2>4, <2>6
  <2> HIDE DEF S
  <2>8. InOrder(S)[Cardinality(AtMost(S, n))] = n
    BY <1>3, <2>7, PlaceIsRank
  <2> QED
    BY <2>1, <2>7, <2>8
<1> HIDE DEF S
<1>6. /\ InOrder(A) \in Seq(A) /\ InOrder(B) \in Seq(B) /\ InOrder(S) \in Seq(S)
      /\ Len(InOrder(A)) = p /\ Len(InOrder(B)) = q /\ Len(InOrder(S)) = p + q
  BY <1>3, InOrderIsSeq
<1>7. InOrder(A) \in Seq(S) /\ InOrder(B) \in Seq(S)
  BY <1>6 DEF S
<1> HIDE DEF p, q
<1>8. InOrder(S) = InOrder(A) \o InOrder(B)
  BY <1>4, <1>5, <1>6, <1>7, JoinedIsThem
<1> QED
  BY <1>8 DEF S

(* A few numbers have a greatest one.                                            *)
LEMMA GreatestNumber ==
    ASSUME NEW k \in Nat, NEW S, S \subseteq 0..k, S # {}
    PROVE  Max(S) \in S /\ \A m \in S : Max(S) >= m
<1> DEFINE T == {k - n : n \in S}
<1>1. T \subseteq Nat /\ T # {}
  <2>1. \A n \in S : n \in 0..k /\ k - n \in Nat
    OBVIOUS
  <2> QED
    BY <2>1
<1>2. PICK t \in T : \A u \in T : t <= u
  BY <1>1, LeastNumber
<1>3. PICK n \in S : t = k - n
  OBVIOUS
<1>4. \A m \in S : n >= m
  <2> SUFFICES ASSUME NEW m \in S
               PROVE  n >= m
    OBVIOUS
  <2>1. k - n <= k - m
    BY <1>2, <1>3
  <2> QED
    BY <2>1
<1> HIDE DEF T
<1> QED
  BY <1>4 DEF Max

(* The greatest of the numbers up to n is n. *)
LEMMA MaxUpto ==
    ASSUME NEW n \in Nat \ {0}
    PROVE  Max(1..n) = n
<1>1. n \in 1..n /\ 1..n \subseteq 0..n /\ 1..n # {}
  OBVIOUS
<1>2. Max(1..n) \in 1..n /\ \A m \in 1..n : Max(1..n) >= m
  BY <1>1, GreatestNumber
<1>3. Max(1..n) >= n /\ Max(1..n) \in 1..n
  BY <1>1, <1>2
<1> QED
  BY <1>3

(* Sums: parts of any widths have ends, one after the other.                      *)
Summed(g, w, k) == [n \in 0..k |-> IF n = 0 THEN 0 ELSE g[n - 1] + w[n]]

LEMMA SumsExist ==
    ASSUME NEW w, NEW k \in Nat
    PROVE  \E g : g = Summed(g, w, k)
<1> DEFINE None == {n \in Nat : ~ \E g : g = Summed(g, w, n)}
<1>1. SUFFICES ASSUME None # {}
               PROVE  FALSE
  OBVIOUS
<1>2. PICK n \in None : \A m \in None : n <= m
  BY <1>1, LeastNumber
<1>3. n \in Nat /\ ~ \E g : g = Summed(g, w, n)
  OBVIOUS
<1>4. n # 0
  <2> SUFFICES \E g : g = Summed(g, w, 0)
    BY <1>3
  <2> WITNESS [m \in 0..0 |-> 0]
  <2> QED
    BY DEF Summed
<1>5. n - 1 \in Nat /\ n - 1 \notin None
  BY <1>2, <1>3, <1>4
<1>6. PICK g : g = Summed(g, w, n - 1)
  BY <1>5
<1> HIDE DEF None
<1> DEFINE h == [m \in 0..n |-> IF m = 0 THEN 0 ELSE g[m - 1] + w[m]]
<1>7. ASSUME NEW m \in 0..n, m # 0
      PROVE  h[m - 1] = g[m - 1]
  <2>1. m - 1 \in 0..(n - 1) /\ m - 1 \in 0..n
    BY <1>3, <1>7
  <2> HIDE DEF h
  <2> QED
    BY <1>6, <2>1 DEF h, Summed
<1>8. h = Summed(h, w, n)
  BY <1>7 DEF Summed
<1> QED
  BY <1>3, <1>8

LEMMA EndsAre ==
    ASSUME NEW w \in Seq(Nat)
    PROVE  /\ EndsOf(w) \in [0..Len(w) -> Nat] /\ EndsOf(w)[0] = 0
           /\ \A n \in 1..Len(w) : EndsOf(w)[n] = EndsOf(w)[n - 1] + w[n]
<1> DEFINE k == Len(w)
           e == EndsOf(w)
<1>1. k \in Nat /\ \A n \in 1..k : w[n] \in Nat
  OBVIOUS
<1>2. e = CHOOSE g : g = Summed(g, w, k)
  BY DEF EndsOf, Summed
<1> HIDE DEF k, e
<1>3. e = Summed(e, w, k)
  BY <1>1, <1>2, SumsExist
<1>4. DOMAIN e = 0..k /\ e = [n \in 0..k |-> e[n]] /\ e[0] = 0
  BY <1>1, <1>3 DEF Summed
<1>5. \A n \in 1..k : e[n] = e[n - 1] + w[n]
  BY <1>1, <1>3 DEF Summed
<1> DEFINE Wrong == {n \in 0..k : e[n] \notin Nat}
<1>6. Wrong = {}
  <2> SUFFICES ASSUME Wrong # {}
               PROVE  FALSE
    OBVIOUS
  <2>1. PICK n \in Wrong : \A m \in Wrong : n <= m
    <3>1. Wrong \subseteq Nat
      BY <1>1
    <3> QED
      BY <3>1, LeastNumber
  <2>2. n \in 1..k /\ n - 1 \in 0..k /\ n - 1 \notin Wrong
    BY <1>1, <1>4, <2>1
  <2>3. e[n - 1] \in Nat /\ e[n] = e[n - 1] + w[n] /\ w[n] \in Nat
    BY <1>1, <1>5, <2>2
  <2>4. e[n] \in Nat
    BY <2>3
  <2> QED
    BY <2>4
<1>7. e \in [0..k -> Nat]
  BY <1>4, <1>6
<1> QED
  BY <1>4, <1>5, <1>7 DEF k, e

(* A part ends no earlier than its width after the end of any part before it.     *)
LEMMA EndsAscend ==
    ASSUME NEW w \in Seq(Nat), NEW i \in 0..Len(w), NEW j \in 0..Len(w), i < j
    PROVE  EndsOf(w)[i] + w[j] <= EndsOf(w)[j]
<1> DEFINE k == Len(w)
           e == EndsOf(w)
<1>1. k \in Nat /\ \A n \in 1..k : w[n] \in Nat
  OBVIOUS
<1>2. (\A n \in 0..k : e[n] \in Nat) /\ \A n \in 1..k : e[n] = e[n - 1] + w[n]
  BY EndsAre
<1>3. i \in 0..k /\ j \in 0..k
  OBVIOUS
<1> HIDE DEF k, e
<1> DEFINE Wrong == {n \in i..k : ~ (e[i] <= e[n])}
<1>4. Wrong = {}
  <2> SUFFICES ASSUME Wrong # {}
               PROVE  FALSE
    OBVIOUS
  <2>1. PICK n \in Wrong : \A m \in Wrong : n <= m
    <3>1. Wrong \subseteq Nat
      BY <1>3
    <3> QED
      BY <3>1, LeastNumber
  <2>2. n # i /\ n \in i..k
    BY <1>2, <1>3
  <2>3. n - 1 \in i..k /\ n - 1 \notin Wrong /\ n \in 1..k
    BY <1>1, <1>3, <2>1, <2>2
  <2>4. e[i] <= e[n - 1] /\ e[n] = e[n - 1] + w[n] /\ e[i] \in Nat /\ e[n - 1] \in Nat /\ w[n] \in Nat
    BY <1>1, <1>2, <1>3, <2>3
  <2> QED
    BY <2>2, <2>4
<1>5. j - 1 \in i..k /\ j \in 1..k
  BY <1>1, <1>3
<1>6. e[i] <= e[j - 1] /\ e[j] = e[j - 1] + w[j]
  BY <1>2, <1>4, <1>5
<1>7. e[i] \in Nat /\ e[j - 1] \in Nat /\ w[j] \in Nat
  BY <1>1, <1>2, <1>3, <1>5
<1>8. e[i] + w[j] <= e[j]
  BY <1>6, <1>7
<1> QED
  BY <1>8 DEF e

(* What follows does not move the ends of the parts before it.                    *)
LEMMA EndsStay ==
    ASSUME NEW w \in Seq(Nat), NEW x \in Nat
    PROVE  \A n \in 0..Len(w) : EndsOf(Append(w, x))[n] = EndsOf(w)[n]
<1> DEFINE k == Len(w)
           v == Append(w, x)
           e == EndsOf(w)
           f == EndsOf(v)
<1>1. k \in Nat /\ v \in Seq(Nat) /\ Len(v) = k + 1 /\ \A n \in 1..k : v[n] = w[n]
  OBVIOUS
<1>2. e[0] = 0 /\ \A n \in 1..k : e[n] = e[n - 1] + w[n]
  BY EndsAre
<1>3. f[0] = 0 /\ \A n \in 1..(k + 1) : f[n] = f[n - 1] + v[n]
  BY <1>1, EndsAre
<1> HIDE DEF k, v, e, f
<1> DEFINE Wrong == {n \in 0..k : f[n] # e[n]}
<1>4. Wrong = {}
  <2> SUFFICES ASSUME Wrong # {}
               PROVE  FALSE
    OBVIOUS
  <2>1. PICK n \in Wrong : \A m \in Wrong : n <= m
    <3>1. Wrong \subseteq Nat
      BY <1>1
    <3> QED
      BY <3>1, LeastNumber
  <2>2. n \in 1..k /\ n - 1 \in 0..k /\ n - 1 \notin Wrong
    BY <1>1, <1>2, <1>3, <2>1
  <2>3. f[n] = f[n - 1] + v[n] /\ e[n] = e[n - 1] + w[n] /\ v[n] = w[n] /\ f[n - 1] = e[n - 1]
    BY <1>1, <1>2, <1>3, <2>2
  <2> QED
    BY <2>2, <2>3
<1> QED
  BY <1>4 DEF k, v, e, f

=============================================================================
