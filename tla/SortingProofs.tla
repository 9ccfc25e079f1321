--------------------------- MODULE SortingProofs ---------------------------
(***************************************************************************)
(* What the operators of Sorting return, for every finite set of numbers.  *)
(***************************************************************************)
EXTENDS Sorting, FiniteSetTheorems, FunctionTheorems, TLAPS

(* A set of numbers that is not empty has a lowest one ...                 *)
LEMMA LowestRight ==
  ASSUME NEW S \in SUBSET Nat, S # {}
  PROVE  Lowest(S) \in S /\ \A j \in S : Lowest(S) <= j
<1> DEFINE Less == OpToRel(<, Nat)
<1>1. \E i \in S : \A j \in S : ~(<<j, i>> \in Less)
  BY NatLessThanWellFounded, WFMin
<1>2. \A i, j \in Nat : <<j, i>> \in Less <=> j < i
  BY Zenon DEF OpToRel
<1> HIDE DEF Less
<1>3. PICK i \in S : \A j \in S : ~(<<j, i>> \in Less)
  BY <1>1
<1>4. \A j \in S : i <= j
  <2> TAKE j \in S
  <2>1. i \in Nat /\ j \in Nat
    OBVIOUS
  <2>2. ~(j < i)
    BY <1>2, <1>3, <2>1
  <2> QED BY <2>1, <2>2
<1> QED BY <1>4 DEF Lowest

(* ... and, if it is bounded, a highest one.                               *)
LEMMA HighestRight ==
  ASSUME NEW S \in SUBSET Nat, S # {}, NEW b \in Nat, \A j \in S : j <= b
  PROVE  Highest(S) \in S /\ \A j \in S : Highest(S) >= j
<1> DEFINE T == {i \in Nat : b - i \in S}
<1>1. T \in SUBSET Nat /\ T # {}
  <2>1. PICK j \in S : TRUE
    OBVIOUS
  <2>2. j \in Nat /\ b - j \in Nat /\ b - (b - j) = j
    BY <2>1
  <2> QED BY <2>2
<1>2. PICK i \in T : \A k \in T : i <= k
  BY <1>1, LowestRight
<1>3. \A j \in S : b - j \in T /\ j \in Nat
  OBVIOUS
<1>4. b - i \in S /\ \A j \in S : b - i >= j
  BY <1>2, <1>3
<1> QED BY <1>4 DEF Highest

-----------------------------------------------------------------------------
(* Places number the elements of a set.                                     *)
LEMMA PlaceType ==
  ASSUME NEW S \in SUBSET Nat, IsFiniteSet(S), NEW i \in S
  PROVE  Place(S, i) \in 1..Cardinality(S)
<1> DEFINE upTo == {j \in S : j <= i}
<1>1. upTo \in SUBSET S /\ i \in upTo
  OBVIOUS
<1>2. IsFiniteSet(upTo) /\ Cardinality(upTo) <= Cardinality(S)
  BY <1>1, FS_Subset
<1>3. Cardinality(upTo) \in Nat /\ Cardinality(upTo) # 0 /\ Cardinality(S) \in Nat
  BY <1>1, <1>2, FS_CardinalityType, FS_EmptySet
<1> QED BY <1>2, <1>3 DEF Place

LEMMA PlaceGrows ==
  ASSUME NEW S \in SUBSET Nat, IsFiniteSet(S), NEW i \in S, NEW k \in S, i < k
  PROVE  Place(S, i) < Place(S, k)
<1> DEFINE low == {j \in S : j <= i}
           high == {j \in S : j <= k}
<1>1. high \in SUBSET S /\ low \in SUBSET high /\ k \in high /\ k \notin low
  <2>1. i \in Nat /\ k \in Nat /\ \A j \in S : j \in Nat
    OBVIOUS
  <2>2. k <= k /\ ~(k <= i) /\ \A j \in S : j <= i => j <= k
    BY <2>1
  <2>3. low \in SUBSET high
    BY <2>2
  <2> QED BY <2>2, <2>3
<1>2. IsFiniteSet(high) /\ IsFiniteSet(low)
  BY <1>1, FS_Subset
<1>3. Cardinality(low) <= Cardinality(high) /\ Cardinality(low) # Cardinality(high)
  BY <1>1, <1>2, FS_Subset
<1>4. Cardinality(low) \in Nat /\ Cardinality(high) \in Nat
  BY <1>2, FS_CardinalityType
<1> QED BY <1>3, <1>4 DEF Place

(* There is one element at each place.                                      *)
LEMMA PlaceOnto ==
  ASSUME NEW S \in SUBSET Nat, IsFiniteSet(S), NEW n \in 1..Cardinality(S)
  PROVE  \E i \in S : Place(S, i) = n
<1> DEFINE c == Cardinality(S)
           f == [i \in S |-> Place(S, i)]
<1>1. c \in Nat
  BY FS_CardinalityType
<1>2. f \in [S -> 1..c]
  BY PlaceType
<1>3. \A i, k \in S : f[i] = f[k] => i = k
  <2> SUFFICES ASSUME NEW i \in S, NEW k \in S, Place(S, i) = Place(S, k)
               PROVE  i = k
    OBVIOUS
  <2>1. Place(S, i) \in Nat /\ Place(S, k) \in Nat
    BY PlaceType, <1>1
  <2>2. ~(i < k) /\ ~(k < i)
    BY <2>1, PlaceGrows
  <2> QED BY <2>2
<1> HIDE DEF f
<1>4. f \in Injection(S, 1..c)
  BY <1>2, <1>3, Fun_IsInj
<1>5. IsFiniteSet(1..c) /\ Cardinality(1..c) = c
  BY <1>1, FS_Interval
<1>6. f \in Surjection(S, 1..c)
  BY <1>4, <1>5, FS_Injection
<1>7. \A k \in 1..c : \E i \in S : f[i] = k
  <2> HIDE DEF c
  <2> QED BY <1>6, Fun_SurjectionProperties
<1> QED BY <1>7 DEF f

(* Sorted lists every element once and in increasing order.                *)
LEMMA SortedRight ==
  ASSUME NEW S \in SUBSET Nat, IsFiniteSet(S)
  PROVE  /\ Cardinality(S) \in Nat
         /\ Sorted(S) \in [1..Cardinality(S) -> S]
         /\ \A n \in 1..Cardinality(S) : Place(S, Sorted(S)[n]) = n
         /\ \A m, n \in 1..Cardinality(S) : m < n => Sorted(S)[m] < Sorted(S)[n]
         /\ \A i \in S : Place(S, i) \in 1..Cardinality(S) /\ Sorted(S)[Place(S, i)] = i
<1> DEFINE c == Cardinality(S)
           s == Sorted(S)
<1>1. c \in Nat
  BY FS_CardinalityType
<1>2. \A n \in 1..c : s[n] \in S /\ Place(S, s[n]) = n
  BY PlaceOnto DEF Sorted
<1>3. s \in [1..c -> S]
  BY <1>2 DEF Sorted
<1> HIDE DEF s, c
<1>4. \A i, k \in S : Place(S, i) < Place(S, k) => i < k
  <2> SUFFICES ASSUME NEW i \in S, NEW k \in S, Place(S, i) < Place(S, k)
               PROVE  i < k
    OBVIOUS
  <2>1. Place(S, i) \in Nat /\ Place(S, k) \in Nat
    BY PlaceType, <1>1 DEF c
  <2>2. i # k /\ ~(k < i)
    BY <2>1, PlaceGrows
  <2> QED BY <2>2
<1>5. \A m, n \in 1..c : m < n => s[m] < s[n]
  <2> SUFFICES ASSUME NEW m \in 1..c, NEW n \in 1..c, m < n
               PROVE  s[m] < s[n]
    OBVIOUS
  <2> DEFINE i == s[m]
             k == s[n]
  <2>1. i \in S /\ k \in S /\ Place(S, i) < Place(S, k)
    BY <1>2
  <2> HIDE DEF i, k
  <2>2. i < k
    BY <1>4, <2>1
  <2> QED BY <2>2 DEF i, k
<1>6. \A i \in S : Place(S, i) \in 1..c
  BY PlaceType DEF c
<1>7. \A i \in S : s[Place(S, i)] = i
  <2> SUFFICES ASSUME NEW i \in S
               PROVE  s[Place(S, i)] = i
    OBVIOUS
  <2>1. Place(S, i) \in 1..c /\ Place(S, i) \in Nat
    BY <1>1, <1>6
  <2> DEFINE k == s[Place(S, i)]
  <2>2. k \in S /\ Place(S, k) = Place(S, i)
    BY <1>2, <2>1
  <2> HIDE DEF k
  <2>3. ~(k < i) /\ ~(i < k)
    BY <2>1, <2>2, PlaceGrows
  <2>4. k \in Nat /\ i \in Nat
    BY <2>2
  <2>5. k = i
    BY <2>3, <2>4
  <2> QED BY <2>5 DEF k
<1> QED BY <1>1, <1>2, <1>3, <1>5, <1>6, <1>7 DEF c, s

(* Kept has the elements at the places in I and no other, in their order.  *)
LEMMA KeptRight ==
  ASSUME NEW T, NEW s \in Seq(T), NEW I \in SUBSET DOMAIN s
  PROVE  /\ IsFiniteSet(I) /\ Cardinality(I) \in Nat
         /\ Kept(s, I) \in Seq(T)
         /\ DOMAIN Kept(s, I) = 1..Cardinality(I)
         /\ Sorted(I) \in [1..Cardinality(I) -> I]
         /\ \A n \in 1..Cardinality(I) : Kept(s, I)[n] = s[Sorted(I)[n]]
         /\ \A m, n \in 1..Cardinality(I) : m < n => Sorted(I)[m] < Sorted(I)[n]
<1>1. DOMAIN s = 1..Len(s) /\ Len(s) \in Nat
  OBVIOUS
<1>2. IsFiniteSet(I) /\ I \in SUBSET Nat
  <2>1. IsFiniteSet(1..Len(s)) /\ I \in SUBSET (1..Len(s))
    BY <1>1, FS_Interval
  <2> QED BY <2>1, FS_Subset
<1>3. /\ Cardinality(I) \in Nat
      /\ Sorted(I) \in [1..Cardinality(I) -> I]
      /\ \A m, n \in 1..Cardinality(I) : m < n => Sorted(I)[m] < Sorted(I)[n]
  BY <1>2, SortedRight
<1>4. \A n \in 1..Cardinality(I) : s[Sorted(I)[n]] \in T
  BY <1>3
<1>5. Kept(s, I) \in Seq(T)
  BY <1>3, <1>4 DEF Kept
<1> QED BY <1>2, <1>3, <1>5 DEF Kept
=============================================================================
