------------------------------ MODULE OrderLemmas ------------------------------
(***************************************************************************)
(* Least and greatest elements of sets of numbers, which the operators of  *)
(* the models choose, and the ranks of the elements of a finite set.       *)
(***************************************************************************)
EXTENDS Integers, FiniteSets, FiniteSetTheorems, FunctionTheorems, WellFoundedInduction, TLAPS

LEMMA LeastElement ==
    ASSUME NEW S \in SUBSET Nat, S # {}
    PROVE  \E x \in S : \A y \in S : x <= y
<1>1. IsWellFoundedOn(OpToRel(<, Nat), Nat)
  BY NatLessThanWellFounded
<1>2. PICK x \in S : \A y \in S : ~(<<y, x>> \in OpToRel(<, Nat))
  BY <1>1, WFMin
<1>3. \A y \in S : ~(y < x)
  BY <1>2 DEF OpToRel
<1> QED
  BY <1>3

LEMMA GreatestElement ==
    ASSUME NEW n \in Nat, NEW S \in SUBSET (0..n), S # {}
    PROVE  \E x \in S : \A y \in S : y <= x
<1> DEFINE T == {n - x : x \in S}
<1>1. \A x \in S : x \in Int /\ n - x \in Nat
  OBVIOUS
<1>2. T \in SUBSET Nat
  BY <1>1
<1>3. T # {}
  <2>1. PICK x \in S : TRUE
    OBVIOUS
  <2>2. n - x \in T
    BY <2>1
  <2> QED
    BY <2>2
<1>4. \A x \in S : n - x \in T
  OBVIOUS
<1>5. \A t \in T : \E x \in S : t = n - x
  OBVIOUS
<1> HIDE DEF T
<1>6. PICK t \in T : \A u \in T : t <= u
  BY <1>2, <1>3, LeastElement
<1>7. PICK x \in S : t = n - x
  BY <1>5
<1>8. \A y \in S : y <= x
  BY <1>1, <1>4, <1>6, <1>7
<1> QED
  BY <1>8

LEMMA ChosenLeast ==
    ASSUME NEW S \in SUBSET Nat, S # {}
    PROVE  LET m == CHOOSE x \in S : \A y \in S : x <= y
           IN  m \in S /\ \A y \in S : m <= y
BY LeastElement

LEMMA ChosenGreatest ==
    ASSUME NEW n \in Nat, NEW S \in SUBSET (0..n), S # {}
    PROVE  LET m == CHOOSE x \in S : \A y \in S : y <= x
           IN  m \in S /\ \A y \in S : y <= m
BY GreatestElement

-----------------------------------------------------------------------------
(* Ranks.  The elements of a finite set, each with a number of its own, are *)
(* enumerated by how many of them have no greater number.                  *)

Rank(S, r) == Cardinality({q \in S : q.id <= r.id})
InRankOrder(S) == [i \in 1..Cardinality(S) |-> CHOOSE r \in S : Rank(S, r) = i]

LEMMA RankGrows ==
    ASSUME NEW S, IsFiniteSet(S), \A r \in S : r.id \in Nat,
           NEW a \in S, NEW b \in S, a.id < b.id
    PROVE  Rank(S, a) < Rank(S, b)
<1> DEFINE A == {q \in S : q.id <= a.id}
           B == {q \in S : q.id <= b.id}
<1>1. IsFiniteSet(B) /\ Cardinality(B) \in Nat
  <2>1. B \in SUBSET S
    OBVIOUS
  <2>2. IsFiniteSet(B)
    BY <2>1, FS_Subset
  <2> QED
    BY <2>2, FS_CardinalityType
<1>2. A \in SUBSET B
  <2>1. \A q \in A : q \in S /\ q.id \in Nat /\ q.id <= a.id
    OBVIOUS
  <2>2. a.id \in Nat /\ b.id \in Nat
    OBVIOUS
  <2>3. \A q \in A : q.id <= b.id
    BY <2>1, <2>2
  <2> QED
    BY <2>1, <2>3
<1>3. A # B
  <2>1. b \in B
    OBVIOUS
  <2>2. b \notin A
    OBVIOUS
  <2> QED
    BY <2>1, <2>2
<1> HIDE DEF A, B
<1>4. IsFiniteSet(A) /\ Cardinality(A) <= Cardinality(B) /\ Cardinality(A) # Cardinality(B)
  BY <1>1, <1>2, <1>3, FS_Subset
<1>5. Cardinality(A) \in Nat
  BY <1>4, FS_CardinalityType
<1>6. Cardinality(A) < Cardinality(B)
  BY <1>1, <1>4, <1>5
<1> QED
  BY <1>6 DEF A, B, Rank

LEMMA RankRange ==
    ASSUME NEW S, IsFiniteSet(S), NEW r \in S, r.id \in Nat
    PROVE  Rank(S, r) \in 1..Cardinality(S)
<1> DEFINE A == {q \in S : q.id <= r.id}
<1>1. A \in SUBSET S /\ r \in A
  OBVIOUS
<1> HIDE DEF A
<1>2. Cardinality(S) \in Nat
  BY FS_CardinalityType
<1>3. IsFiniteSet(A) /\ Cardinality(A) <= Cardinality(S)
  BY <1>1, FS_Subset
<1>4. Cardinality(A) \in Nat
  BY <1>3, FS_CardinalityType
<1>5. Cardinality(A) # 0
  BY <1>1, <1>3, FS_EmptySet
<1>6. Cardinality(A) \in 1..Cardinality(S)
  BY <1>2, <1>3, <1>4, <1>5
<1> QED
  BY <1>6 DEF A, Rank

LEMMA RanksEnumerate ==
    ASSUME NEW S, IsFiniteSet(S), \A r \in S : r.id \in Nat,
           \A r, q \in S : r.id = q.id => r = q
    PROVE  /\ Cardinality(S) \in Nat
           /\ \A i \in 1..Cardinality(S) :
                /\ InRankOrder(S)[i] \in S
                /\ Rank(S, InRankOrder(S)[i]) = i
           /\ \A r \in S : \E i \in 1..Cardinality(S) : InRankOrder(S)[i] = r
           /\ \A i, j \in 1..Cardinality(S) : i < j => InRankOrder(S)[i].id < InRankOrder(S)[j].id
<1> DEFINE n == Cardinality(S)
           f == [r \in S |-> Rank(S, r)]
<1>1. n \in Nat
  BY FS_CardinalityType
<1>2. \A r \in S : Rank(S, r) \in 1..n
  BY RankRange
<1>3. \A r, q \in S : Rank(S, r) = Rank(S, q) => r = q
  <2> SUFFICES ASSUME NEW r \in S, NEW q \in S, r # q
               PROVE  Rank(S, r) # Rank(S, q)
    OBVIOUS
  <2>0. Rank(S, r) \in Nat /\ Rank(S, q) \in Nat
    BY <1>1, <1>2
  <2>1. CASE r.id < q.id
    <3>1. Rank(S, r) < Rank(S, q)
      BY <2>1, RankGrows
    <3> QED
      BY <2>0, <3>1
  <2>2. CASE q.id < r.id
    <3>1. Rank(S, q) < Rank(S, r)
      BY <2>2, RankGrows
    <3> QED
      BY <2>0, <3>1
  <2>3. r.id \in Nat /\ q.id \in Nat /\ r.id # q.id
    OBVIOUS
  <2> QED
    BY <2>1, <2>2, <2>3
<1>4. f \in [S -> 1..n]
  BY <1>2
<1>5. \A a, b \in S : f[a] = f[b] => a = b
  BY <1>3
<1> HIDE DEF f
<1>6. f \in Injection(S, 1..n)
  BY <1>4, <1>5, Fun_IsInj
<1>7. IsFiniteSet(1..n) /\ Cardinality(1..n) = n
  <2>1. 1 \in Int /\ n \in Int
    BY <1>1
  <2>2. IsFiniteSet(1..n) /\ Cardinality(1..n) = IF 1 > n THEN 0 ELSE n - 1 + 1
    BY <2>1, FS_Interval
  <2> QED
    BY <1>1, <2>2
<1>8. f \in Surjection(S, 1..n)
  BY <1>6, <1>7, FS_Injection
<1>9. \A i \in 1..n : \E r \in S : f[r] = i
  BY <1>8, Fun_SurjectionProperties
<1>10. \A i \in 1..n : InRankOrder(S)[i] \in S /\ Rank(S, InRankOrder(S)[i]) = i
  <2> SUFFICES ASSUME NEW i \in 1..n
               PROVE  InRankOrder(S)[i] \in S /\ Rank(S, InRankOrder(S)[i]) = i
    OBVIOUS
  <2>1. \E r \in S : Rank(S, r) = i
    BY <1>9 DEF f
  <2>2. InRankOrder(S)[i] = CHOOSE r \in S : Rank(S, r) = i
    BY DEF InRankOrder
  <2> QED
    BY <2>1, <2>2
<1>11. \A r \in S : \E i \in 1..n : InRankOrder(S)[i] = r
  BY <1>2, <1>3, <1>10
<1>12. \A i, j \in 1..n : i < j => InRankOrder(S)[i].id < InRankOrder(S)[j].id
  <2> SUFFICES ASSUME NEW i \in 1..n, NEW j \in 1..n, i < j
               PROVE  InRankOrder(S)[i].id < InRankOrder(S)[j].id
    OBVIOUS
  <2> DEFINE a == InRankOrder(S)[i]
             b == InRankOrder(S)[j]
  <2>1. a \in S /\ b \in S /\ Rank(S, a) = i /\ Rank(S, b) = j
    BY <1>10
  <2> HIDE DEF a, b
  <2>2. a.id \in Nat /\ b.id \in Nat
    BY <2>1
  <2>3. a.id # b.id
    BY <2>1
  <2>4. ~(b.id < a.id)
    <3> SUFFICES ASSUME b.id < a.id PROVE FALSE
      OBVIOUS
    <3>1. Rank(S, b) < Rank(S, a)
      BY <2>1, RankGrows
    <3> QED
      BY <2>1, <3>1
  <2>5. a.id < b.id
    BY <2>2, <2>3, <2>4
  <2> QED
    BY <2>5 DEF a, b
<1> QED
  BY <1>1, <1>10, <1>11, <1>12
=============================================================================
