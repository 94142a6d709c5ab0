--------------------------- MODULE NaturalsLemmas ---------------------------
(***************************************************************************)
(* The well-ordering of the natural numbers, and what the proofs of the    *)
(* other modules need of it: induction over a set of numbers, the greatest *)
(* member of a finite set, the enumeration of one in increasing order.     *)
(***************************************************************************)
EXTENDS Integers, FiniteSets, FiniteSetTheorems, WellFoundedInduction, TLAPS

\* Every set of numbers that is not empty has a least member.
LEMMA Least ==
  ASSUME NEW T, T \subseteq Nat, T # {}
  PROVE  \E x \in T : \A y \in T : x <= y
<1> DEFINE R == OpToRel(<, Nat)
<1>1. IsWellFoundedOn(R, Nat)
  BY Zenon, NatLessThanWellFounded
<1>2. R = {ss \in Nat \X Nat : ss[1] < ss[2]}
  BY Zenon DEF OpToRel
<1> HIDE DEF R
<1>3. PICK x \in T : \A y \in T : <<y, x>> \notin R
  BY Zenon, <1>1, WFMin
<1>4. \A a, b \in Nat : a < b => <<a, b>> \in R
  BY <1>2
<1>5. ASSUME NEW y \in T PROVE x <= y
  <2>1. x \in Nat /\ y \in Nat
    OBVIOUS
  <2>2. ~(y < x)
    BY Zenon, <1>3, <1>4, <2>1
  <2> QED
    BY <2>1, <2>2
<1> QED
  BY <1>5

\* Induction, as a property of the set of the numbers for which a fact holds.
LEMMA SetInduction ==
  ASSUME NEW N, 0 \in N, \A n \in N \cap Nat : n + 1 \in N
  PROVE  Nat \subseteq N
<1> SUFFICES ASSUME Nat \ N # {} PROVE FALSE
  OBVIOUS
<1>1. PICK x \in Nat \ N : \A y \in Nat \ N : x <= y
  BY Least
<1>2. x # 0 /\ x - 1 \in Nat
  OBVIOUS
<1>3. x - 1 \in N
  BY <1>1, <1>2
<1>4. (x - 1) + 1 = x
  BY <1>2
<1> QED
  BY <1>2, <1>3, <1>4

\* Every finite set of numbers that is not empty has a greatest member.
LEMMA Greatest ==
  ASSUME NEW T, T \subseteq Nat, IsFiniteSet(T), T # {}
  PROVE  \E x \in T : \A y \in T : y <= x
<1> DEFINE N == {n \in Nat : \A S \in SUBSET Nat :
                               IsFiniteSet(S) /\ Cardinality(S) = n /\ S # {} =>
                                 \E x \in S : \A y \in S : y <= x}
<1>1. 0 \in N
  BY FS_EmptySet
<1>2. ASSUME NEW n \in N \cap Nat PROVE n + 1 \in N
  <2> SUFFICES ASSUME NEW S \in SUBSET Nat, IsFiniteSet(S), Cardinality(S) = n + 1, S # {}
               PROVE  \E x \in S : \A y \in S : y <= x
    OBVIOUS
  <2>1. PICK z \in S : TRUE
    OBVIOUS
  <2> DEFINE R == S \ {z}
  <2>2. R \in SUBSET Nat /\ IsFiniteSet(R) /\ Cardinality(R) = n
    <3>1. IsFiniteSet(R) /\ Cardinality(R) = Cardinality(S) - 1
      BY <2>1, FS_RemoveElement
    <3> QED
      BY <3>1
  <2>3. CASE R = {}
    BY <2>3
  <2>4. CASE R # {}
    <3>1. PICK x \in R : \A y \in R : y <= x
      BY <2>2, <2>4
    <3>2. x \in Nat /\ z \in Nat /\ x \in S /\ \A y \in S : y = z \/ y \in R
      OBVIOUS
    <3>3. CASE z <= x
      BY <3>1, <3>2, <3>3
    <3>4. CASE x <= z
      <4>1. ASSUME NEW y \in S PROVE y <= z
        <5>1. y \in Nat /\ (y = z \/ y <= x)
          BY <3>1, <3>2
        <5> QED
          BY <3>2, <3>4, <5>1
      <4> QED
        BY <4>1
    <3> QED
      BY <3>2, <3>3, <3>4
  <2> QED
    BY <2>3, <2>4
<1> HIDE DEF N
<1>3. Cardinality(T) \in N
  <2>1. Nat \subseteq N
    BY <1>1, <1>2, SetInduction
  <2> QED
    BY <2>1, FS_CardinalityType
<1> QED
  BY <1>3 DEF N

\* s lists S in increasing order.
Enumerates(s, S, n) ==
  s \in [1 .. n -> S] /\ \A i, j \in 1 .. n : i < j => s[i] < s[j]

LEMMA Prepend ==
  ASSUME NEW n \in Nat, NEW S, S \subseteq Nat, NEW x \in S, \A y \in S : x <= y,
         NEW s, Enumerates(s, S \ {x}, n)
  PROVE  \E r : Enumerates(r, S, n + 1)
<1>0. x \in Nat /\ \A y \in S : y \in Nat
  OBVIOUS
<1> DEFINE r == [i \in 1 .. n + 1 |-> IF i = 1 THEN x ELSE s[i - 1]]
<1>1. r[1] = x /\ \A i \in 2 .. n + 1 : r[i] = s[i - 1] /\ s[i - 1] \in S \ {x}
  BY DEF Enumerates
<1>2. r \in [1 .. n + 1 -> S]
  BY DEF Enumerates
<1> HIDE DEF r
<1>3. ASSUME NEW i \in 1 .. n + 1, NEW j \in 1 .. n + 1, i < j PROVE r[i] < r[j]
  <2>1. CASE i = 1
    <3>1. j \in 2 .. n + 1
      BY <1>3, <2>1
    <3>2. r[i] = x /\ r[j] \in S \ {x}
      BY <1>1, <2>1, <3>1
    <3>3. r[j] \in Nat /\ x \in Nat /\ x <= r[j] /\ x # r[j]
      BY <1>0, <3>2
    <3> QED
      BY <3>2, <3>3
  <2>2. CASE i # 1
    <3>1. i - 1 \in 1 .. n /\ j - 1 \in 1 .. n /\ i - 1 < j - 1
      BY <1>3, <2>2
    <3>2. r[i] = s[i - 1] /\ r[j] = s[j - 1]
      BY <1>1, <1>3, <2>2
    <3> QED
      BY <3>1, <3>2 DEF Enumerates
  <2> QED
    BY <2>1, <2>2
<1> QED
  BY <1>2, <1>3 DEF Enumerates

LEMMA CanEnumerate ==
  ASSUME NEW S, S \subseteq Nat, IsFiniteSet(S)
  PROVE  \E s : Enumerates(s, S, Cardinality(S))
<1> DEFINE N == {n \in Nat : \A T \in SUBSET Nat : IsFiniteSet(T) /\ Cardinality(T) = n =>
                               \E s : Enumerates(s, T, n)}
<1>1. 0 \in N
  <2> SUFFICES ASSUME NEW T \in SUBSET Nat, IsFiniteSet(T), Cardinality(T) = 0
               PROVE  \E s : Enumerates(s, T, 0)
    OBVIOUS
  <2>1. Enumerates([i \in 1 .. 0 |-> 0], T, 0)
    BY DEF Enumerates
  <2> QED
    BY <2>1
<1>2. ASSUME NEW n \in N \cap Nat PROVE n + 1 \in N
  <2> SUFFICES ASSUME NEW T \in SUBSET Nat, IsFiniteSet(T), Cardinality(T) = n + 1
               PROVE  \E s : Enumerates(s, T, n + 1)
    OBVIOUS
  <2>1. T # {}
    BY FS_EmptySet
  <2>2. PICK x \in T : \A y \in T : x <= y
    BY <2>1, Least
  <2>3. IsFiniteSet(T \ {x}) /\ Cardinality(T \ {x}) = n
    <3>1. IsFiniteSet(T \ {x}) /\ Cardinality(T \ {x}) = Cardinality(T) - 1
      BY <2>2, FS_RemoveElement
    <3> QED
      BY <3>1
  <2>4. PICK s : Enumerates(s, T \ {x}, n)
    BY <2>3
  <2> QED
    BY <2>2, <2>4, Prepend
<1> HIDE DEF N
<1>3. Nat \subseteq N
  BY <1>1, <1>2, SetInduction
<1>4. Cardinality(S) \in N
  BY <1>3, FS_CardinalityType
<1> QED
  BY <1>4 DEF N
=============================================================================
