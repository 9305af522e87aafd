---------------------------- MODULE LayoutProofs ----------------------------
(***************************************************************************)
(* Lemmas about module Layout: what its operators on lists and trees give, *)
(* for every list and every tree.  Splitting a Pane and collapsing the     *)
(* Splits of those that are gone take trees to trees, with the Surfaces    *)
(* meant and no other, and tree order is an order.                         *)
(***************************************************************************)
EXTENDS Layout, Integers, FiniteSets, FiniteSetsExt, SequenceTheorems, FiniteSetTheorems, TLAPS

(* Order and position                                                      *)

(* The pairs R put the members of S in an order *)
Orders(R, S) ==
  /\ \A x \in S : <<x, x>> \notin R
  /\ \A x, y \in S : x # y => <<x, y>> \in R \/ <<y, x>> \in R
  /\ \A x, y, z \in S : <<x, y>> \in R /\ <<y, z>> \in R => <<x, z>> \in R

(* How many members of S come before x                                     *)
Rank(S, R, x) == Cardinality({y \in S : <<y, x>> \in R})

(* Every number up to the size of S is the place of exactly one member     *)
Numbers(R, S) ==
  /\ Cardinality(S) \in Nat
  /\ \A x \in S : Rank(S, R, x) \in 0..Cardinality(S) - 1
  /\ \A x, y \in S : <<x, y>> \in R => Rank(S, R, x) < Rank(S, R, y)
  /\ \A x, y \in S : Rank(S, R, x) = Rank(S, R, y) => x = y
  /\ \A k \in 1..Cardinality(S) : \E x \in S : Rank(S, R, x) = k - 1

(* An order of a finite set does that                                      *)
LEMMA Ranked ==
  ASSUME NEW S, IsFiniteSet(S), NEW R, Orders(R, S)
  PROVE  Numbers(R, S)
<1> DEFINE below(x) == {y \in S : <<y, x>> \in R}
           n == Cardinality(S)
<1>1. n \in Nat
  BY FS_CardinalityType
<1>2. ASSUME NEW x \in S PROVE IsFiniteSet(below(x)) /\ Rank(S, R, x) \in 0..n - 1
  <2>1. below(x) \in SUBSET S /\ x \in S /\ x \notin below(x)
    BY DEF Orders
  <2>2. IsFiniteSet(below(x)) /\ Cardinality(below(x)) <= n /\ Cardinality(below(x)) # n
    BY <2>1, FS_Subset
  <2>3. Cardinality(below(x)) \in Nat
    BY <2>2, FS_CardinalityType
  <2> QED
    BY <1>1, <2>2, <2>3 DEF Rank
<1>3. ASSUME NEW x \in S, NEW y \in S, <<x, y>> \in R PROVE Rank(S, R, x) < Rank(S, R, y)
  <2>1. below(x) \in SUBSET below(y) /\ x \in below(y) /\ x \notin below(x)
    BY <1>3 DEF Orders
  <2>2. Cardinality(below(x)) <= Cardinality(below(y)) /\ Cardinality(below(x)) # Cardinality(below(y))
    BY <1>2, <2>1, FS_Subset
  <2>3. Cardinality(below(x)) \in 0..n - 1 /\ Cardinality(below(y)) \in 0..n - 1
    BY <1>2 DEF Rank
  <2> QED
    BY <1>1, <2>2, <2>3 DEF Rank
<1> HIDE DEF n, below
<1>4. ASSUME NEW x \in S, NEW y \in S, Rank(S, R, x) = Rank(S, R, y) PROVE x = y
  <2>1. Rank(S, R, x) \in Int /\ Rank(S, R, y) \in Int
    BY <1>1, <1>2
  <2>2. ~(Rank(S, R, x) < Rank(S, R, y)) /\ ~(Rank(S, R, y) < Rank(S, R, x))
    BY <1>4, <2>1
  <2> QED
    BY <1>3, <2>2 DEF Orders
<1>5. IsFiniteSet(0..n - 1) /\ Cardinality(0..n - 1) = n
  <2>1. 0 \in Int /\ n - 1 \in Int
    BY <1>1
  <2>2. IsFiniteSet(0..n - 1) /\ Cardinality(0..n - 1) = IF 0 > n - 1 THEN 0 ELSE (n - 1) - 0 + 1
    BY <2>1, FS_Interval
  <2> QED
    BY <1>1, <2>2
<1> DEFINE rank == [x \in S |-> Rank(S, R, x)]
<1>6. rank \in Surjection(S, 0..n - 1)
  <2>1. rank \in [S -> 0..n - 1]
    BY <1>2
  <2>2. rank \in Injection(S, 0..n - 1)
    BY <1>4, <2>1 DEF Injection, IsInjective
  <2> HIDE DEF rank
  <2>3. Cardinality(S) = Cardinality(0..n - 1)
    BY <1>5 DEF n
  <2> QED
    BY <1>5, <2>2, <2>3, FS_Injection
<1>7. ASSUME NEW k \in 1..n PROVE \E x \in S : Rank(S, R, x) = k - 1
  <2>1. k - 1 \in 0..n - 1
    BY <1>1
  <2>2. \E x \in S : rank[x] = k - 1
    <3> HIDE DEF rank
    <3> QED
      BY <1>6, <2>1 DEF Surjection
  <2> QED
    BY <2>2
<1> QED
  BY <1>1, <1>2, <1>3, <1>4, <1>7 DEF n, Numbers

(* How many numbers of S are smaller than i                                *)
Place(S, i) == Cardinality({j \in S : j < i})

(* Every place of a finite set of numbers is taken by one of them.          *)
LEMMA OrderedPlaces ==
  ASSUME NEW S \in SUBSET Nat, IsFiniteSet(S)
  PROVE  /\ Cardinality(S) \in Nat
         /\ \A i \in S : Place(S, i) \in 0..Cardinality(S) - 1
         /\ \A i, j \in S : i < j => Place(S, i) < Place(S, j)
         /\ \A i, j \in S : Place(S, i) = Place(S, j) => i = j
         /\ \A k \in 1..Cardinality(S) : Ordered(S)[k] \in S /\ Place(S, Ordered(S)[k]) = k - 1
<1> DEFINE R == {x \in S \X S : x[1] < x[2]}
           n == Cardinality(S)
<1>1. \A x \in S : Place(S, x) = Rank(S, R, x)
  <2> SUFFICES ASSUME NEW x \in S PROVE {j \in S : j < x} = {y \in S : <<y, x>> \in R}
    BY DEF Rank, Place
  <2> QED
    OBVIOUS
<1>2. Orders(R, S) /\ \A x, y \in S : x < y => <<x, y>> \in R
  BY DEF Orders
<1> HIDE DEF R
<1>3. Numbers(R, S)
  BY <1>2, Ranked
<1>4. n \in Nat /\ \A x \in S : Place(S, x) \in 0..n - 1
  BY <1>1, <1>3 DEF Numbers
<1>5. ASSUME NEW x \in S, NEW y \in S, x < y PROVE Place(S, x) < Place(S, y)
  <2>1. Rank(S, R, x) < Rank(S, R, y)
    BY <1>2, <1>3, <1>5 DEF Numbers
  <2> QED
    BY <1>1, <2>1
<1>6. \A x, y \in S : Place(S, x) = Place(S, y) => x = y
  BY <1>1, <1>3 DEF Numbers
<1>7. \A k \in 1..n : \E x \in S : Place(S, x) = k - 1
  BY <1>1, <1>3 DEF Numbers
<1>8. ASSUME NEW k \in 1..n PROVE Ordered(S)[k] \in S /\ Place(S, Ordered(S)[k]) = k - 1
  <2>1. Ordered(S)[k] = CHOOSE i \in S : Place(S, i) = k - 1
    BY DEF Ordered, Place
  <2>2. \E x \in S : Place(S, x) = k - 1
    BY <1>4, <1>5, <1>6, <1>7
  <2> QED
    BY <2>1, <2>2
<1> QED
  BY <1>4, <1>5, <1>6, <1>8

(* Ordered lists the numbers of a finite set, each of them once            *)
LEMMA OrderedLists ==
  ASSUME NEW S \in SUBSET Nat, IsFiniteSet(S)
  PROVE  /\ Cardinality(S) \in Nat
         /\ \A k \in 1..Cardinality(S) : Ordered(S)[k] \in S
         /\ \A k, m \in 1..Cardinality(S) : k < m => Ordered(S)[k] < Ordered(S)[m]
         /\ \A i \in S : \E k \in 1..Cardinality(S) : Ordered(S)[k] = i
<1> DEFINE n == Cardinality(S)
<1>1. /\ n \in Nat
      /\ \A i \in S : Place(S, i) \in 0..n - 1
      /\ \A i, j \in S : i < j => Place(S, i) < Place(S, j)
      /\ \A i, j \in S : Place(S, i) = Place(S, j) => i = j
      /\ \A k \in 1..n : Ordered(S)[k] \in S /\ Place(S, Ordered(S)[k]) = k - 1
  BY OrderedPlaces
<1> HIDE DEF n
<1>2. ASSUME NEW k \in 1..n, NEW m \in 1..n, k < m PROVE Ordered(S)[k] < Ordered(S)[m]
  <2> DEFINE x == Ordered(S)[k]  y == Ordered(S)[m]
  <2>1. x \in S /\ y \in S /\ Place(S, x) = k - 1 /\ Place(S, y) = m - 1
    BY <1>1
  <2> HIDE DEF x, y
  <2>2. x \in Nat /\ y \in Nat
    BY <2>1
  <2>3. ~(y < x)
    <3> SUFFICES ASSUME y < x PROVE FALSE
      OBVIOUS
    <3>1. Place(S, y) < Place(S, x)
      BY <1>1, <2>1
    <3> QED
      BY <1>1, <1>2, <2>1, <3>1
  <2>4. x # y
    BY <1>1, <1>2, <2>1
  <2>5. x < y
    BY <2>2, <2>3, <2>4
  <2> QED
    BY <2>5 DEF x, y
<1>3. ASSUME NEW i \in S PROVE \E k \in 1..n : Ordered(S)[k] = i
  <2>1. Place(S, i) + 1 \in 1..n
    BY <1>1
  <2>2. Ordered(S)[Place(S, i) + 1] \in S /\ Place(S, Ordered(S)[Place(S, i) + 1]) = Place(S, i)
    BY <1>1, <2>1
  <2>3. Ordered(S)[Place(S, i) + 1] = i
    BY <1>1, <2>2
  <2> QED
    BY <2>1, <2>3
<1> QED
  BY <1>1, <1>2, <1>3 DEF n

(* Two sets that are the same up to a number of both are listed the same   *)
(* way up to there                                                         *)
LEMMA OrderedAgree ==
  ASSUME NEW A \in SUBSET Nat, IsFiniteSet(A), NEW B \in SUBSET Nat, IsFiniteSet(B),
         NEW d \in A \cap B, \A j \in Nat : j < d => (j \in A <=> j \in B)
  PROVE  \E m \in 1..Cardinality(A) \cap 1..Cardinality(B) :
           /\ Ordered(A)[m] = d /\ Ordered(B)[m] = d
           /\ \A k \in 1..m - 1 : /\ Ordered(A)[k] = Ordered(B)[k]
                                  /\ Ordered(A)[k] \in A /\ Ordered(A)[k] < d
<1> DEFINE m == Place(A, d) + 1
<1>1. /\ Cardinality(A) \in Nat
      /\ \A i \in A : Place(A, i) \in 0..Cardinality(A) - 1
      /\ \A i, j \in A : i < j => Place(A, i) < Place(A, j)
      /\ \A i, j \in A : Place(A, i) = Place(A, j) => i = j
      /\ \A k \in 1..Cardinality(A) : Ordered(A)[k] \in A /\ Place(A, Ordered(A)[k]) = k - 1
  BY OrderedPlaces
<1>2. /\ Cardinality(B) \in Nat
      /\ \A i \in B : Place(B, i) \in 0..Cardinality(B) - 1
      /\ \A i, j \in B : Place(B, i) = Place(B, j) => i = j
      /\ \A k \in 1..Cardinality(B) : Ordered(B)[k] \in B /\ Place(B, Ordered(B)[k]) = k - 1
  BY OrderedPlaces
<1>3. ASSUME NEW i \in Nat, i <= d PROVE Place(A, i) = Place(B, i)
  <2>1. {j \in A : j < i} = {j \in B : j < i}
    <3>1. \A j \in Nat : j < i => j < d
      BY <1>3
    <3> QED
      BY <3>1
  <2> QED
    BY <2>1 DEF Place
<1>4. m \in 1..Cardinality(A) /\ m \in 1..Cardinality(B) /\ m - 1 = Place(A, d) /\ m - 1 = Place(B, d)
  BY <1>1, <1>2, <1>3
<1> HIDE DEF m
<1>5. Ordered(A)[m] = d
  BY <1>1, <1>4
<1>6. Ordered(B)[m] = d
  BY <1>2, <1>4
<1>7. ASSUME NEW k \in 1..m - 1
      PROVE  Ordered(A)[k] = Ordered(B)[k] /\ Ordered(A)[k] \in A /\ Ordered(A)[k] < d
  <2> DEFINE i == Ordered(A)[k]
  <2>1. k \in 1..Cardinality(A) /\ k \in 1..Cardinality(B) /\ k < m
    BY <1>1, <1>2, <1>4
  <2>2. i \in A /\ Place(A, i) = k - 1
    BY <1>1, <2>1
  <2>3. i < d
    BY <1>5, <1>4, <2>1, OrderedLists
  <2>4. i \in B /\ Place(B, i) = k - 1
    <3> HIDE DEF i
    <3> QED
      BY <1>3, <2>2, <2>3
  <2>5. Ordered(B)[k] = i
    <3>1. Ordered(B)[k] \in B /\ Place(B, Ordered(B)[k]) = k - 1
      BY <1>2, <2>1
    <3> HIDE DEF i
    <3> QED
      BY <1>2, <2>4, <3>1
  <2> QED
    BY <2>2, <2>3, <2>5
<1> QED
  BY <1>4, <1>5, <1>6, <1>7

(* What is smaller than a member of a set, in order, is what the set begins  *)
(* with                                                                    *)
LEMMA OrderedBelow ==
  ASSUME NEW B \in SUBSET Nat, IsFiniteSet(B), NEW d \in B
  PROVE  LET A == {j \in B : j < d}
         IN /\ Cardinality(A) + 1 \in 1..Cardinality(B) /\ Ordered(B)[Cardinality(A) + 1] = d
            /\ \A k \in 1..Cardinality(A) : Ordered(A)[k] = Ordered(B)[k]
<1> DEFINE A == {j \in B : j < d}  n == Cardinality(A)
<1>1. A \in SUBSET Nat /\ IsFiniteSet(A)
  BY FS_Subset
<1>2. /\ n \in Nat
      /\ \A k \in 1..n : Ordered(A)[k] \in A /\ Place(A, Ordered(A)[k]) = k - 1
  BY <1>1, OrderedPlaces
<1>3. /\ Cardinality(B) \in Nat
      /\ \A i \in B : Place(B, i) \in 0..Cardinality(B) - 1
      /\ \A i, j \in B : Place(B, i) = Place(B, j) => i = j
      /\ \A k \in 1..Cardinality(B) : Ordered(B)[k] \in B /\ Place(B, Ordered(B)[k]) = k - 1
  BY OrderedPlaces
<1>4. Place(B, d) = n
  BY DEF Place
<1>5. \A i \in A : Place(A, i) = Place(B, i)
  <2> SUFFICES ASSUME NEW i \in A PROVE {j \in A : j < i} = {j \in B : j < i}
    BY DEF Place
  <2>1. i \in Nat /\ i < d
    OBVIOUS
  <2>2. \A j \in B : j < i => j < d
    BY <2>1
  <2>3. \A j \in B : j \in A <=> j < d
    OBVIOUS
  <2>4. A \subseteq B
    OBVIOUS
  <2> HIDE DEF A
  <2> QED
    BY <2>2, <2>3, <2>4
<1>6. \A i \in A : i \in B
  OBVIOUS
<1> HIDE DEF n, A
<1>7. n + 1 \in 1..Cardinality(B)
  BY <1>2, <1>3, <1>4
<1>8. Ordered(B)[n + 1] = d
  <2>1. Ordered(B)[n + 1] \in B /\ Place(B, Ordered(B)[n + 1]) = (n + 1) - 1
    BY <1>3, <1>7
  <2>2. (n + 1) - 1 = n
    BY <1>2
  <2> QED
    BY <1>3, <1>4, <2>1, <2>2
<1>9. \A k \in 1..n : Ordered(A)[k] = Ordered(B)[k]
  <2> SUFFICES ASSUME NEW k \in 1..n PROVE Ordered(A)[k] = Ordered(B)[k]
    OBVIOUS
  <2>1. Ordered(A)[k] \in B /\ Place(B, Ordered(A)[k]) = k - 1
    BY <1>2, <1>5, <1>6
  <2>2. k \in 1..Cardinality(B)
    BY <1>2, <1>3, <1>7
  <2>3. Ordered(B)[k] \in B /\ Place(B, Ordered(B)[k]) = k - 1
    BY <1>3, <2>2
  <2> QED
    BY <1>3, <2>1, <2>3
<1> QED
  BY <1>7, <1>8, <1>9 DEF A, n

(* The numbers up to n are in order                                        *)
LEMMA OrderedInterval ==
  ASSUME NEW n \in Nat, NEW k \in 1..n
  PROVE  Cardinality(1..n) = n /\ Ordered(1..n)[k] = k
<1>1. IsFiniteSet(1..n) /\ Cardinality(1..n) = n
  BY FS_Interval
<1>2. Ordered(1..n)[k] \in 1..n /\ Place(1..n, Ordered(1..n)[k]) = k - 1
  <2>1. 1..n \in SUBSET Nat
    OBVIOUS
  <2> QED
    BY <1>1, <2>1, OrderedPlaces
<1>3. ASSUME NEW i \in 1..n PROVE Place(1..n, i) = i - 1
  <2>1. {j \in 1..n : j < i} = 1..i - 1
    OBVIOUS
  <2>2. Cardinality(1..i - 1) = i - 1
    BY FS_Interval
  <2> QED
    BY <2>1, <2>2 DEF Place
<1> QED
  BY <1>1, <1>2, <1>3

(* Picking everything changes nothing                                      *)
LEMMA PickedWhole ==
  ASSUME NEW n \in Nat, NEW s, DOMAIN s = 1..n, s = [k \in 1..n |-> s[k]]
  PROVE  Picked(s, DOMAIN s) = s
<1>1. Cardinality(1..n) = n
  BY FS_Interval
<1>2. \A k \in 1..n : s[Ordered(1..n)[k]] = s[k]
  BY OrderedInterval
<1>3. Picked(s, DOMAIN s) = [k \in 1..n |-> s[Ordered(1..n)[k]]]
  BY <1>1 DEF Picked
<1>4. [k \in 1..n |-> s[Ordered(1..n)[k]]] = [k \in 1..n |-> s[k]]
  BY <1>2
<1> QED
  BY <1>3, <1>4

(* The largest number of a finite set                                      *)
LEMMA MaxOfFinite ==
  ASSUME NEW S \in SUBSET Nat, IsFiniteSet(S), S # {}
  PROVE  Max(S) \in S /\ \A i \in S : i <= Max(S)
<1> DEFINE n == Cardinality(S)  top == Ordered(S)[n]
<1>1. n \in Nat /\ n # 0
  BY OrderedLists, FS_EmptySet
<1>2. top \in S
  BY <1>1, OrderedLists
<1>3. ASSUME NEW i \in S PROVE i <= top
  <2>1. PICK k \in 1..n : Ordered(S)[k] = i
    BY OrderedLists
  <2>2. k < n => i < top
    BY <1>1, <2>1, OrderedLists
  <2>3. k = n => i = top
    BY <2>1
  <2>4. k < n \/ k = n
    BY <1>1
  <2> HIDE DEF top, n
  <2> QED
    BY <1>2, <2>2, <2>3, <2>4
<1>4. \E x \in S : \A y \in S : x >= y
  <2>1. \A y \in S : top >= y
    <3> HIDE DEF top
    <3> QED
      BY <1>2, <1>3
  <2> QED
    BY <1>2, <2>1
<1>5. Max(S) \in S /\ \A y \in S : Max(S) >= y
  BY <1>4 DEF Max
<1> QED
  BY <1>5

(* Picked keeps the members of a sequence at some of its positions, in     *)
(* their order                                                             *)
LEMMA PickedKeeps ==
  ASSUME NEW S, NEW s \in Seq(S), NEW at \in SUBSET DOMAIN s
  PROVE  /\ Cardinality(at) \in Nat
         /\ Picked(s, at) \in Seq(S) /\ Len(Picked(s, at)) = Cardinality(at)
         /\ \A k \in 1..Cardinality(at) : Picked(s, at)[k] = s[Ordered(at)[k]]
         /\ \A k \in 1..Cardinality(at) : Ordered(at)[k] \in at
         /\ \A k, m \in 1..Cardinality(at) : k < m => Ordered(at)[k] < Ordered(at)[m]
         /\ \A i \in at : \E k \in 1..Cardinality(at) : Ordered(at)[k] = i
<1>1. Len(s) \in Nat /\ DOMAIN s = 1..Len(s) /\ s \in [1..Len(s) -> S]
  BY LenProperties
<1>2. IsFiniteSet(1..Len(s))
  BY <1>1, FS_Interval
<1>3. IsFiniteSet(at) /\ at \in SUBSET Nat
  BY <1>1, <1>2, FS_Subset
<1>4. /\ Cardinality(at) \in Nat
      /\ \A k \in 1..Cardinality(at) : Ordered(at)[k] \in at
      /\ \A k, m \in 1..Cardinality(at) : k < m => Ordered(at)[k] < Ordered(at)[m]
      /\ \A i \in at : \E k \in 1..Cardinality(at) : Ordered(at)[k] = i
  BY <1>3, OrderedLists
<1> DEFINE n == Cardinality(at)  e(k) == s[Ordered(at)[k]]
<1>5. \A k \in 1..n : e(k) \in S
  BY <1>1, <1>4
<1>6. Picked(s, at) = [k \in 1..n |-> e(k)]
  BY DEF Picked
<1> HIDE DEF n, e
<1>7. Picked(s, at) \in Seq(S) /\ Len(Picked(s, at)) = n /\ \A k \in 1..n : Picked(s, at)[k] = e(k)
  <2>1. n \in Nat
    BY <1>4 DEF n
  <2> QED
    BY <1>5, <1>6, <2>1
<1> QED
  BY <1>4, <1>7 DEF n, e

(* A sequence without one of its members                                   *)
LEMMA RemoveAtKeeps ==
  ASSUME NEW S, NEW s \in Seq(S), NEW k \in DOMAIN s
  PROVE  /\ RemoveAt(s, k) \in Seq(S) /\ Len(RemoveAt(s, k)) = Len(s) - 1
         /\ \A m \in 1..Len(s) - 1 : RemoveAt(s, k)[m] = s[IF m < k THEN m ELSE m + 1]
<1> DEFINE a == SubSeq(s, 1, k - 1)  b == SubSeq(s, k + 1, Len(s))
<1>1. Len(s) \in Nat /\ k \in 1..Len(s) /\ \A i \in 1..Len(s) : s[i] \in S
  BY LenProperties
<1>2. a \in Seq(S) /\ Len(a) = k - 1 /\ \A i \in 1..k - 1 : a[i] = s[i]
  BY <1>1, SubSeqProperties
<1>3. b \in Seq(S) /\ Len(b) = Len(s) - k /\ \A i \in 1..Len(s) - k : b[i] = s[k + i]
  BY <1>1, SubSeqProperties
<1>4. RemoveAt(s, k) = a \o b
  BY DEF RemoveAt
<1> HIDE DEF a, b
<1>5. /\ a \o b \in Seq(S) /\ Len(a \o b) = Len(s) - 1
      /\ \A i \in 1..Len(s) - 1 : (a \o b)[i] = IF i < k THEN a[i] ELSE b[i - k + 1]
  <2>1. /\ a \o b \in Seq(S) /\ Len(a \o b) = Len(a) + Len(b)
        /\ \A i \in 1..Len(a) + Len(b) : (a \o b)[i] = IF i <= Len(a) THEN a[i] ELSE b[i - Len(a)]
    BY <1>2, <1>3, ConcatProperties
  <2>2. Len(a) + Len(b) = Len(s) - 1
    BY <1>1, <1>2, <1>3
  <2>3. \A i \in 1..Len(s) - 1 : (i <= Len(a) <=> i < k) /\ i - Len(a) = i - k + 1
    BY <1>1, <1>2
  <2> QED
    BY <2>1, <2>2, <2>3
<1>6. ASSUME NEW m \in 1..Len(s) - 1 PROVE (a \o b)[m] = s[IF m < k THEN m ELSE m + 1]
  <2>1. CASE m < k
    BY <1>1, <1>2, <1>5, <2>1
  <2>2. CASE ~(m < k)
    <3>1. m - k + 1 \in 1..Len(s) - k /\ k + (m - k + 1) = m + 1
      BY <1>1, <2>2
    <3>2. b[m - k + 1] = s[m + 1]
      BY <1>3, <3>1
    <3> QED
      BY <1>5, <2>2, <3>2
  <2> QED
    BY <2>1, <2>2
<1> QED
  BY <1>4, <1>5, <1>6

(* A sequence with one member more                                         *)
LEMMA InsertAtKeeps ==
  ASSUME NEW S, NEW s \in Seq(S), NEW k \in 1..Len(s) + 1, NEW e \in S
  PROVE  /\ InsertAt(s, k, e) \in Seq(S) /\ Len(InsertAt(s, k, e)) = Len(s) + 1
         /\ \A m \in 1..Len(s) + 1 :
              InsertAt(s, k, e)[m] = IF m = k THEN e ELSE s[IF m < k THEN m ELSE m - 1]
<1> DEFINE a == SubSeq(s, 1, k - 1)  b == SubSeq(s, k, Len(s))  c == a \o <<e>>
<1>1. Len(s) \in Nat /\ \A i \in 1..Len(s) : s[i] \in S
  BY LenProperties
<1>2. a \in Seq(S) /\ Len(a) = k - 1 /\ \A i \in 1..k - 1 : a[i] = s[i]
  BY <1>1, SubSeqProperties
<1>3. b \in Seq(S) /\ Len(b) = Len(s) - k + 1 /\ \A i \in 1..Len(s) - k + 1 : b[i] = s[k + i - 1]
  BY <1>1, SubSeqProperties
<1>4. InsertAt(s, k, e) = c \o b
  BY DEF InsertAt
<1>5. <<e>> \in Seq(S) /\ Len(<<e>>) = 1 /\ <<e>>[1] = e
  OBVIOUS
<1> HIDE DEF a, b
<1>6. /\ c \in Seq(S) /\ Len(c) = k
      /\ \A i \in 1..k : c[i] = IF i = k THEN e ELSE a[i]
  <2>1. /\ c \in Seq(S) /\ Len(c) = Len(a) + 1
        /\ \A i \in 1..Len(a) + 1 : c[i] = IF i <= Len(a) THEN a[i] ELSE <<e>>[i - Len(a)]
    BY <1>2, <1>5, ConcatProperties
  <2> HIDE DEF c
  <2>2. c[k] = e
    <3>1. c[k] = <<e>>[k - Len(a)] /\ k - Len(a) = 1
      BY <1>1, <1>2, <2>1
    <3> QED
      BY <1>5, <3>1
  <2> QED
    BY <1>1, <1>2, <2>1, <2>2
<1> HIDE DEF c
<1>7. /\ c \o b \in Seq(S) /\ Len(c \o b) = Len(s) + 1
      /\ \A i \in 1..Len(s) + 1 : (c \o b)[i] = IF i <= k THEN c[i] ELSE b[i - k]
  BY <1>1, <1>3, <1>6, ConcatProperties
<1>8. ASSUME NEW m \in 1..Len(s) + 1
      PROVE  (c \o b)[m] = IF m = k THEN e ELSE s[IF m < k THEN m ELSE m - 1]
  <2>1. CASE m = k
    BY <1>1, <1>6, <1>7, <2>1
  <2>2. CASE m < k
    BY <1>1, <1>2, <1>6, <1>7, <2>2
  <2>3. CASE m > k
    <3>1. m - k \in 1..Len(s) - k + 1 /\ k + (m - k) - 1 = m - 1
      BY <1>1, <2>3
    <3>2. b[m - k] = s[m - 1]
      BY <1>3, <3>1
    <3> QED
      BY <1>1, <1>7, <2>3, <3>2
  <2>4. m = k \/ m < k \/ m > k
    BY <1>1
  <2> QED
    BY <2>1, <2>2, <2>3, <2>4
<1> QED
  BY <1>4, <1>7, <1>8

-----------------------------------------------------------------------------
(* Layouts                                                                 *)

Paths == Seq({0, 1})
Maps  == UNION {[D -> Nat] : D \in SUBSET Paths}

(* Two paths part at i: the same turns up to there, and another one then   *)
Part(p, q, i) ==
  /\ i \in DOMAIN p \cap DOMAIN q /\ p[i] # q[i]
  /\ \A j \in 1..i - 1 : p[j] = q[j]

(* q goes on from p to its side x                                          *)
Side(p, x, q) ==
  /\ Len(p) + 1 \in DOMAIN q /\ q[Len(p) + 1] = x
  /\ \A j \in 1..Len(p) : q[j] = p[j]

(* Every turn on the way to a Pane of D is taken the other way to another   *)
(* one, and each Split of R has a Pane on both sides                       *)
TwoSided(D, R) ==
  /\ \A p \in D : \A i \in DOMAIN p : \E q \in D : Part(p, q, i)
  /\ \A p \in R : \A x \in {0, 1} : \E q \in D : Side(p, x, q)

(* The Layout of a Tab: at least one Pane, no Pane under another one, no    *)
(* Surface in two Panes, and no Split with one side                        *)
Trees == {l \in [pane : Maps, ratio : Maps] :
            /\ DOMAIN l.pane # {} /\ IsFiniteSet(DOMAIN l.pane)
            /\ \A p, q \in DOMAIN l.pane : p # q => l.pane[p] # l.pane[q] /\ \E i \in Nat : Part(p, q, i)
            /\ TwoSided(DOMAIN l.pane, DOMAIN l.ratio)}

(* What a map of paths is made of,                                          *)
LEMMA MapsAre ==
  ASSUME NEW f \in Maps
  PROVE  DOMAIN f \in SUBSET Paths /\ f \in [DOMAIN f -> Nat]
BY DEF Maps

(* and what makes one.                                                      *)
LEMMA MapsMade ==
  ASSUME NEW D \in SUBSET Paths, NEW f \in [D -> Nat]
  PROVE  f \in Maps
BY DEF Maps

(* A path is a list of turns.                                               *)
LEMMA PathIs ==
  ASSUME NEW p \in Paths
  PROVE  Len(p) \in Nat /\ DOMAIN p = 1..Len(p) /\ \A i \in DOMAIN p : p[i] \in {0, 1}
BY LenProperties DEF Paths

(* What a tree is made of,                                                  *)
LEMMA TreeIs ==
  ASSUME NEW l \in Trees
  PROVE  /\ l = [pane |-> l.pane, ratio |-> l.ratio] /\ l.pane \in Maps /\ l.ratio \in Maps
         /\ DOMAIN l.pane \in SUBSET Paths /\ DOMAIN l.pane # {} /\ IsFiniteSet(DOMAIN l.pane)
         /\ \A p \in DOMAIN l.pane : l.pane[p] \in Nat /\ l.pane[p] \in Leaves(l)
         /\ \A u \in Leaves(l) : \E p \in DOMAIN l.pane : l.pane[p] = u
         /\ \A p, q \in DOMAIN l.pane : p # q => l.pane[p] # l.pane[q] /\ \E i \in Nat : Part(p, q, i)
         /\ Leaves(l) # {} /\ Leaves(l) \in SUBSET Nat
<1>1. /\ l = [pane |-> l.pane, ratio |-> l.ratio] /\ l.pane \in Maps /\ l.ratio \in Maps
      /\ DOMAIN l.pane # {} /\ IsFiniteSet(DOMAIN l.pane)
      /\ \A p, q \in DOMAIN l.pane : p # q => l.pane[p] # l.pane[q] /\ \E i \in Nat : Part(p, q, i)
  BY DEF Trees
<1>2. DOMAIN l.pane \in SUBSET Paths /\ l.pane \in [DOMAIN l.pane -> Nat]
  BY <1>1, MapsAre
<1>3. Leaves(l) = {l.pane[p] : p \in DOMAIN l.pane}
  BY DEF Leaves, Range
<1> HIDE DEF Maps
<1> QED
  BY <1>1, <1>2, <1>3

(* that it has two sides everywhere,                                       *)
LEMMA TreeSides ==
  ASSUME NEW l \in Trees
  PROVE  TwoSided(DOMAIN l.pane, DOMAIN l.ratio) /\ DOMAIN l.ratio \in SUBSET Paths
<1>1. l.ratio \in Maps /\ TwoSided(DOMAIN l.pane, DOMAIN l.ratio)
  BY DEF Trees
<1> QED
  BY <1>1, MapsAre

(* and what makes one.                                                      *)
LEMMA TreeMade ==
  ASSUME NEW f \in Maps, NEW r \in Maps, DOMAIN f # {}, IsFiniteSet(DOMAIN f),
         \A p, q \in DOMAIN f : p # q => f[p] # f[q] /\ \E i \in Nat : Part(p, q, i),
         TwoSided(DOMAIN f, DOMAIN r)
  PROVE  [pane |-> f, ratio |-> r] \in Trees
BY DEF Trees

(* Paths part from each other at the same place.                            *)
LEMMA PartsBack ==
  ASSUME NEW p, NEW q, NEW i \in Nat, Part(p, q, i)
  PROVE  Part(q, p, i)
BY DEF Part

(* A Tab of one Pane (Layout::leaf)                                        *)
LEMMA LeafIsTree ==
  ASSUME NEW u \in Nat
  PROVE  Leaf(u) \in Trees /\ Leaves(Leaf(u)) = {u}
<1> DEFINE f == [p \in {<<>>} |-> u]
<1>1. <<>> \in Paths
  BY EmptySeq DEF Paths
<1>2. f \in Maps
  <2>1. f \in [{<<>>} -> Nat]
    OBVIOUS
  <2> HIDE DEF f
  <2> QED
    BY <1>1, <2>1, MapsMade
<1>3. <<>> \in Maps
  <2>1. <<>> \in [{} -> Nat]
    OBVIOUS
  <2> QED
    BY <2>1, MapsMade
<1>4. [pane |-> f, ratio |-> <<>>] \in Trees
  <2>1. DOMAIN f = {<<>>}
    OBVIOUS
  <2>2. IsFiniteSet(DOMAIN f)
    BY <2>1, FS_Singleton
  <2>3. \A p, q \in DOMAIN f : p = q
    BY <2>1
  <2>4. TwoSided(DOMAIN f, DOMAIN <<>>)
    <3>1. DOMAIN <<>> = {}
      OBVIOUS
    <3> HIDE DEF f
    <3> QED
      BY <2>1, <3>1 DEF TwoSided
  <2> HIDE DEF f
  <2> QED
    BY <1>2, <1>3, <2>1, <2>2, <2>3, <2>4, TreeMade
<1>5. Leaves(Leaf(u)) = {u}
  BY DEF Leaves, Range, Leaf
<1> QED
  BY <1>4, <1>5 DEF Leaf

(* set_ratio                                                               *)
LEMMA SetRatioIsTree ==
  ASSUME NEW l \in Trees, NEW p \in DOMAIN l.ratio, NEW r \in Nat
  PROVE  SetRatio(l, p, r) \in Trees /\ Leaves(SetRatio(l, p, r)) = Leaves(l)
<1> DEFINE f == [l.ratio EXCEPT ![p] = Clamped(r)]
<1>1. /\ l = [pane |-> l.pane, ratio |-> l.ratio] /\ l.pane \in Maps /\ l.ratio \in Maps
      /\ DOMAIN l.pane # {} /\ IsFiniteSet(DOMAIN l.pane)
      /\ \A a, b \in DOMAIN l.pane : a # b => l.pane[a] # l.pane[b] /\ \E i \in Nat : Part(a, b, i)
  BY TreeIs
<1>2. f \in Maps
  <2>1. DOMAIN l.ratio \in SUBSET Paths /\ l.ratio \in [DOMAIN l.ratio -> Nat]
    BY <1>1, MapsAre
  <2>2. Clamped(r) \in Nat
    BY DEF Clamped
  <2>3. f \in [DOMAIN l.ratio -> Nat]
    BY <2>1, <2>2
  <2> HIDE DEF f
  <2> QED
    BY <2>1, <2>3, MapsMade
<1>3. SetRatio(l, p, r) = [pane |-> l.pane, ratio |-> f]
  BY <1>1 DEF SetRatio
<1> HIDE DEF f
<1>4. [pane |-> l.pane, ratio |-> f] \in Trees
  <2>1. TwoSided(DOMAIN l.pane, DOMAIN f)
    BY TreeSides DEF f
  <2> QED
    BY <1>1, <1>2, <2>1, TreeMade
<1> QED
  BY <1>3, <1>4 DEF Leaves

(* A path with one more turn.                                               *)
LEMMA Appended ==
  ASSUME NEW p \in Paths, NEW x \in {0, 1}
  PROVE  /\ Append(p, x) \in Paths /\ Len(Append(p, x)) = Len(p) + 1
         /\ Append(p, x)[Len(p) + 1] = x
         /\ \A i \in DOMAIN p : i \in DOMAIN Append(p, x) /\ Append(p, x)[i] = p[i]
BY PathIs DEF Paths

(* Paths that agree up to a turn part there from the same ones.             *)
LEMMA SameTurns ==
  ASSUME NEW p \in Paths, NEW q \in Paths, NEW j \in DOMAIN p, j \in DOMAIN q,
         \A k \in 1..j : p[k] = q[k]
  PROVE  \A z : Part(p, z, j) <=> Part(q, z, j)
<1>1. DOMAIN p = 1..Len(p) /\ Len(p) \in Nat
  BY PathIs
<1>2. p[j] = q[j] /\ \A k \in 1..j - 1 : p[k] = q[k]
  BY <1>1
<1> SUFFICES ASSUME NEW z PROVE Part(p, z, j) <=> Part(q, z, j)
  OBVIOUS
<1>3. (\A k \in 1..j - 1 : p[k] = z[k]) <=> (\A k \in 1..j - 1 : q[k] = z[k])
  BY <1>2
<1> QED
  BY <1>2, <1>3 DEF Part

(* What parts from a path, or goes on from it, still does when it is longer *)
LEMMA Longer ==
  ASSUME NEW p \in Paths, NEW q \in Paths, NEW e,
         \A j \in DOMAIN q : j \in DOMAIN e /\ e[j] = q[j]
  PROVE  /\ \A i \in DOMAIN p : Part(p, q, i) => Part(p, e, i)
         /\ \A x : Side(p, x, q) => Side(p, x, e)
<1>1. /\ Len(p) \in Nat /\ DOMAIN p = 1..Len(p)
      /\ Len(q) \in Nat /\ DOMAIN q = 1..Len(q)
  BY PathIs
<1>2. ASSUME NEW i \in DOMAIN p, Part(p, q, i) PROVE Part(p, e, i)
  <2>1. i \in DOMAIN q /\ \A j \in 1..i - 1 : j \in DOMAIN q
    BY <1>1, <1>2 DEF Part
  <2> QED
    BY <1>2, <2>1 DEF Part
<1>3. ASSUME NEW x, Side(p, x, q) PROVE Side(p, x, e)
  <2>1. Len(p) + 1 \in DOMAIN q /\ \A j \in 1..Len(p) : j \in DOMAIN q
    BY <1>1, <1>3 DEF Side
  <2> QED
    BY <1>3, <2>1 DEF Side
<1> QED
  BY <1>2, <1>3

(* The two sides of a path                                                 *)
LEMMA SidesPart ==
  ASSUME NEW p \in Paths, NEW a \in Paths, NEW b \in Paths, NEW x, NEW y, x # y,
         Side(p, x, a), Side(p, y, b)
  PROVE  Len(p) + 1 \in Nat /\ Part(a, b, Len(p) + 1)
<1>1. Len(p) \in Nat
  BY PathIs
<1>2. \A j \in 1..(Len(p) + 1) - 1 : j \in 1..Len(p)
  BY <1>1
<1> QED
  BY <1>1, <1>2 DEF Side, Part

(* A tree with a Pane split has two sides everywhere                       *)
LEMMA SplitTwoSided ==
  ASSUME NEW D \in SUBSET Paths, NEW R \in SUBSET Paths, TwoSided(D, R), NEW at \in D,
         \A p, q \in D : p # q => \E i \in Nat : Part(p, q, i)
  PROVE  TwoSided((D \ {at}) \cup {Append(at, 0), Append(at, 1)}, R \cup {at})
<1> DEFINE E == (D \ {at}) \cup {Append(at, 0), Append(at, 1)}
           on(z) == IF z = at THEN Append(at, 0) ELSE z
<1>1. at \in Paths /\ Len(at) \in Nat /\ DOMAIN at = 1..Len(at)
  BY PathIs
<1>2. ASSUME NEW x \in {0, 1}
      PROVE  /\ Append(at, x) \in E /\ Append(at, x) \in Paths /\ Side(at, x, Append(at, x))
             /\ DOMAIN Append(at, x) = 1..Len(at) + 1
             /\ \A j \in DOMAIN at : j \in DOMAIN Append(at, x) /\ Append(at, x)[j] = at[j]
  <2>1. /\ Append(at, x) \in Paths /\ Len(Append(at, x)) = Len(at) + 1
        /\ Append(at, x)[Len(at) + 1] = x
        /\ \A j \in DOMAIN at : j \in DOMAIN Append(at, x) /\ Append(at, x)[j] = at[j]
    BY <1>1, Appended
  <2>2. DOMAIN Append(at, x) = 1..Len(at) + 1
    BY <2>1, PathIs
  <2>3. Side(at, x, Append(at, x))
    BY <1>1, <2>1, <2>2 DEF Side
  <2> QED
    BY <2>1, <2>2, <2>3
<1>3. ASSUME NEW z \in D
      PROVE  on(z) \in E /\ \A j \in DOMAIN z : j \in DOMAIN on(z) /\ on(z)[j] = z[j]
  BY <1>2
<1>4. \A z \in D : z # at => z \in E
  OBVIOUS
<1>5. \A p \in E : (p \in D /\ p # at) \/ p = Append(at, 0) \/ p = Append(at, 1)
  OBVIOUS
<1> HIDE DEF E, on
<1>6. ASSUME NEW p \in Paths, NEW i \in DOMAIN p, NEW q \in D, Part(p, q, i)
      PROVE  \E e \in E : Part(p, e, i)
  <2>1. Part(p, on(q), i)
    BY <1>3, <1>6, Longer
  <2> QED
    BY <1>3, <2>1
<1>7. ASSUME NEW x \in {0, 1}, NEW i \in DOMAIN Append(at, x)
      PROVE  \E e \in E : Part(Append(at, x), e, i)
  <2>1. CASE i \in DOMAIN at
    <3>1. PICK q \in D : Part(at, q, i)
      BY <2>1 DEF TwoSided
    <3>2. \A k \in 1..i : k \in DOMAIN at
      BY <1>1, <2>1
    <3>3. Part(Append(at, x), q, i)
      BY <1>1, <1>2, <2>1, <3>1, <3>2, SameTurns
    <3> QED
      BY <1>2, <1>6, <3>3
  <2>2. CASE i \notin DOMAIN at
    <3>1. i = Len(at) + 1
      BY <1>1, <1>2, <2>2
    <3>2. PICK y \in {0, 1} : y # x
      OBVIOUS
    <3>3. Side(at, x, Append(at, x)) /\ Side(at, y, Append(at, y)) /\ Append(at, y) \in E
          /\ Append(at, x) \in Paths /\ Append(at, y) \in Paths
      BY <1>2
    <3>4. Part(Append(at, x), Append(at, y), i)
      BY <1>1, <3>1, <3>2, <3>3, SidesPart
    <3> QED
      BY <3>3, <3>4
  <2> QED
    BY <2>1, <2>2
<1>8. \A p \in E : \A i \in DOMAIN p : \E e \in E : Part(p, e, i)
  <2> SUFFICES ASSUME NEW p \in E, NEW i \in DOMAIN p PROVE \E e \in E : Part(p, e, i)
    OBVIOUS
  <2>1. CASE p \in D
    <3>1. PICK q \in D : Part(p, q, i)
      BY <2>1 DEF TwoSided
    <3> QED
      BY <1>6, <2>1, <3>1
  <2>2. CASE p = Append(at, 0) \/ p = Append(at, 1)
    BY <1>7, <2>2
  <2> QED
    BY <1>5, <2>1, <2>2
<1>9. ASSUME NEW p \in R \cup {at}, NEW x \in {0, 1} PROVE \E e \in E : Side(p, x, e)
  <2>1. CASE p = at
    BY <1>2, <2>1
  <2>2. CASE p \in R
    <3>1. PICK q \in D : Side(p, x, q)
      BY <2>2 DEF TwoSided
    <3>2. Side(p, x, on(q))
      BY <1>3, <2>2, <3>1, Longer
    <3> QED
      BY <1>3, <3>2
  <2> QED
    BY <2>1, <2>2
<1> QED
  BY <1>8, <1>9 DEF TwoSided, E

(* split_leaf: the Layout is a tree with the new Surface besides the others *)
THEOREM SplitIsTree ==
  ASSUME NEW l \in Trees, NEW u \in Leaves(l), NEW new \in Nat \ Leaves(l)
  PROVE  SplitLeaf(l, u, new) \in Trees /\ Leaves(SplitLeaf(l, u, new)) = Leaves(l) \cup {new}
<1> DEFINE D    == DOMAIN l.pane
           at   == CHOOSE p \in D : l.pane[p] = u
           a0   == Append(at, 0)
           a1   == Append(at, 1)
           E    == (D \ {at}) \cup {a0, a1}
           f    == [p \in E |-> IF p = a0 THEN u ELSE IF p = a1 THEN new ELSE l.pane[p]]
           r    == [p \in DOMAIN l.ratio \cup {at} |-> IF p = at THEN Half ELSE l.ratio[p]]
<1>1. /\ l.ratio \in Maps /\ D \in SUBSET Paths /\ IsFiniteSet(D)
      /\ \A p \in D : l.pane[p] \in Nat /\ l.pane[p] \in Leaves(l)
      /\ \A v \in Leaves(l) : \E p \in D : l.pane[p] = v
      /\ \A p, q \in D : p # q => l.pane[p] # l.pane[q] /\ \E i \in Nat : Part(p, q, i)
  BY TreeIs
<1>2. at \in D /\ l.pane[at] = u
  BY <1>1
<1>3. SplitLeaf(l, u, new) = [pane |-> f, ratio |-> r]
  BY DEF SplitLeaf
<1> HIDE DEF at
<1>4. at \in Paths
  BY <1>1, <1>2
<1>5. /\ a0 \in Paths /\ a1 \in Paths /\ a0 # a1
      /\ Part(a0, a1, Len(at) + 1) /\ Len(at) + 1 \in Nat
  <2>1. /\ a0 \in Paths /\ Len(a0) = Len(at) + 1 /\ a0[Len(at) + 1] = 0
        /\ \A i \in DOMAIN at : a0[i] = at[i]
    BY <1>4, Appended
  <2>2. /\ a1 \in Paths /\ Len(a1) = Len(at) + 1 /\ a1[Len(at) + 1] = 1
        /\ \A i \in DOMAIN at : a1[i] = at[i]
    BY <1>4, Appended
  <2>3. /\ Len(at) \in Nat /\ DOMAIN at = 1..Len(at)
        /\ DOMAIN a0 = 1..Len(at) + 1 /\ DOMAIN a1 = 1..Len(at) + 1
    BY <1>4, <2>1, <2>2, PathIs
  <2> HIDE DEF a0, a1
  <2> QED
    BY <2>1, <2>2, <2>3 DEF Part
<1>6. ASSUME NEW p \in D \ {at}, NEW x \in {0, 1}
      PROVE  \E i \in Nat : Part(p, Append(at, x), i) /\ Part(Append(at, x), p, i)
  <2>1. PICK i \in Nat : Part(p, at, i)
    BY <1>1, <1>2
  <2>2. \A j \in DOMAIN at : j \in DOMAIN Append(at, x) /\ Append(at, x)[j] = at[j]
    BY <1>4, Appended
  <2>3. i \in DOMAIN at /\ \A j \in 1..i - 1 : j \in DOMAIN at
    BY <1>4, <2>1, PathIs DEF Part
  <2>4. Part(p, Append(at, x), i)
    BY <2>1, <2>2, <2>3 DEF Part
  <2> QED
    BY <2>4, PartsBack
<1>7. a0 \notin D \ {at} /\ a1 \notin D \ {at}
  <2>1. \A p \in Paths, i \in Nat : ~Part(p, p, i)
    BY DEF Part
  <2> QED
    BY <1>5, <1>6, <2>1
<1> HIDE DEF a0, a1
<1>8. /\ f[a0] = u /\ f[a1] = new /\ \A p \in D \ {at} : f[p] = l.pane[p]
  BY <1>5, <1>7
<1>9. f \in Maps
  <2>1. u \in Nat /\ new \in Nat
    BY TreeIs
  <2>2. f \in [E -> Nat]
    BY <1>1, <2>1
  <2>3. E \in SUBSET Paths
    BY <1>1, <1>5
  <2> HIDE DEF f, E
  <2> QED
    BY <2>2, <2>3, MapsMade
<1>10. r \in Maps
  <2>1. DOMAIN l.ratio \in SUBSET Paths /\ l.ratio \in [DOMAIN l.ratio -> Nat]
    BY <1>1, MapsAre
  <2>2. r \in [DOMAIN l.ratio \cup {at} -> Nat]
    BY <2>1 DEF Half
  <2>3. DOMAIN l.ratio \cup {at} \in SUBSET Paths
    BY <1>4, <2>1
  <2> HIDE DEF r
  <2> QED
    BY <2>2, <2>3, MapsMade
<1>11. DOMAIN f = E /\ E # {} /\ IsFiniteSet(E)
  <2>1. IsFiniteSet(D \ {at})
    BY <1>1, FS_RemoveElement
  <2>2. IsFiniteSet((D \ {at}) \cup {a0})
    BY <2>1, FS_AddElement
  <2>3. IsFiniteSet(((D \ {at}) \cup {a0}) \cup {a1})
    BY <2>2, FS_AddElement
  <2>4. E = ((D \ {at}) \cup {a0}) \cup {a1}
    OBVIOUS
  <2> QED
    BY <2>3, <2>4
<1> HIDE DEF f
<1>12. ASSUME NEW p \in E, NEW q \in E, p # q
       PROVE  f[p] # f[q] /\ \E i \in Nat : Part(p, q, i)
  <2>1. \A v \in D \ {at} : l.pane[v] # u /\ l.pane[v] # new
    BY <1>1, <1>2
  <2>2. u # new
    OBVIOUS
  <2>3. f[p] # f[q]
    BY <1>1, <1>8, <1>12, <2>1, <2>2
  <2>4. CASE p \in D \ {at} /\ q \in D \ {at}
    BY <2>3, <1>1, <1>12, <2>4
  <2>5. CASE p \in D \ {at} /\ q \in {a0, a1}
    BY <2>3, <1>6, <2>5 DEF a0, a1
  <2>6. CASE p \in {a0, a1} /\ q \in D \ {at}
    BY <2>3, <1>6, <2>6 DEF a0, a1
  <2>7. CASE p \in {a0, a1} /\ q \in {a0, a1}
    BY <2>3, <1>5, <1>12, <2>7, PartsBack
  <2> QED
    BY <2>4, <2>5, <2>6, <2>7
<1>13. [pane |-> f, ratio |-> r] \in Trees
  <2>1. TwoSided(E, DOMAIN l.ratio \cup {at})
    <3>1. \A p, q \in D : p # q => \E i \in Nat : Part(p, q, i)
      BY <1>1
    <3>2. TwoSided(D, DOMAIN l.ratio) /\ DOMAIN l.ratio \in SUBSET Paths
      BY TreeSides
    <3> HIDE DEF D
    <3> QED
      BY <1>1, <1>2, <3>1, <3>2, SplitTwoSided DEF a0, a1
  <2>2. DOMAIN r = DOMAIN l.ratio \cup {at}
    OBVIOUS
  <2> HIDE DEF r, E
  <2> QED
    BY <1>9, <1>10, <1>11, <1>12, <2>1, <2>2, TreeMade
<1>14. {f[p] : p \in E} = Leaves(l) \cup {new}
  <2>1. \A p \in E : f[p] \in Leaves(l) \cup {new}
    BY <1>1, <1>8
  <2>2. \A v \in Leaves(l) : \E p \in E : f[p] = v
    <3> SUFFICES ASSUME NEW v \in Leaves(l) PROVE \E p \in E : f[p] = v
      OBVIOUS
    <3>1. PICK p \in D : l.pane[p] = v
      BY <1>1
    <3>2. CASE p = at
      BY <1>2, <1>8, <3>1, <3>2
    <3>3. CASE p # at
      BY <1>8, <3>1, <3>3
    <3> QED
      BY <3>2, <3>3
  <2>3. a1 \in E /\ f[a1] = new
    BY <1>8
  <2> HIDE DEF E
  <2> QED
    BY <2>1, <2>2, <2>3
<1>15. Leaves(SplitLeaf(l, u, new)) = {f[p] : p \in E}
  BY <1>3, <1>11 DEF Leaves, Range
<1> QED
  BY <1>3, <1>13, <1>14, <1>15

(* A path leads to all that start with its turns.                           *)
LEMMA PrefixOfPath ==
  ASSUME NEW p \in Paths, NEW q \in Paths
  PROVE  IsPrefix(p, q) <=> Len(p) <= Len(q) /\ \A i \in 1..Len(p) : p[i] = q[i]
<1>1. Len(p) \in Nat /\ Len(q) \in Nat /\ p \in Seq({0, 1}) /\ q \in Seq({0, 1})
  BY PathIs DEF Paths
<1>2. \A i \in 1..Len(p) : p[i] \in {0, 1}
  BY <1>1, ElementOfSeq
<1>3. \A i \in 1..Len(q) : q[i] \in {0, 1}
  BY <1>1, ElementOfSeq
<1> DEFINE a == SubSeq(p, 1, Len(p))  b == SubSeq(q, 1, Len(p))
<1> SUFFICES ASSUME Len(p) <= Len(q) PROVE a = b <=> \A i \in 1..Len(p) : p[i] = q[i]
  BY DEF IsPrefix
<1>4. a \in Paths /\ Len(a) = Len(p) /\ \A i \in 1..Len(p) : a[i] = p[i]
  BY <1>1, <1>2, SubSeqProperties DEF Paths
<1>5. b \in Paths /\ Len(b) = Len(p) /\ \A i \in 1..Len(p) : b[i] = q[i]
  BY <1>1, <1>3, SubSeqProperties DEF Paths
<1> HIDE DEF a, b
<1>6. ASSUME a = b PROVE \A i \in 1..Len(p) : p[i] = q[i]
  BY <1>4, <1>5, <1>6
<1>7. ASSUME \A i \in 1..Len(p) : p[i] = q[i] PROVE a = b
  <2>1. \A i \in 1..Len(a) : a[i] = b[i]
    BY <1>4, <1>5, <1>7
  <2> QED
    BY <1>4, <1>5, <2>1, SeqEqual DEF Paths
<1> QED
  BY <1>6, <1>7

(* A path with one more turn leads where the path goes on to that side.     *)
LEMMA SideIs ==
  ASSUME NEW p \in Paths, NEW x \in {0, 1}, NEW q \in Paths
  PROVE  IsPrefix(Append(p, x), q) <=> Side(p, x, q)
<1> DEFINE a == Append(p, x)
<1>1. /\ Len(p) \in Nat /\ DOMAIN p = 1..Len(p) /\ Len(q) \in Nat /\ DOMAIN q = 1..Len(q)
  BY PathIs
<1>2. a \in Paths /\ Len(a) = Len(p) + 1 /\ a[Len(p) + 1] = x /\ \A j \in 1..Len(p) : a[j] = p[j]
  BY <1>1, Appended
<1> HIDE DEF a
<1>3. IsPrefix(a, q) <=> Len(p) + 1 <= Len(q) /\ \A j \in 1..Len(p) + 1 : a[j] = q[j]
  BY <1>2, PrefixOfPath
<1>4. Len(p) + 1 <= Len(q) <=> Len(p) + 1 \in DOMAIN q
  BY <1>1
<1>5. (\A j \in 1..Len(p) + 1 : a[j] = q[j]) <=> q[Len(p) + 1] = x /\ \A j \in 1..Len(p) : q[j] = p[j]
  <2>1. \A j \in 1..Len(p) + 1 : j = Len(p) + 1 \/ j \in 1..Len(p)
    BY <1>1
  <2>2. Len(p) + 1 \in 1..Len(p) + 1 /\ \A j \in 1..Len(p) : j \in 1..Len(p) + 1
    BY <1>1
  <2> QED
    BY <1>2, <2>1, <2>2
<1> QED
  BY <1>3, <1>4, <1>5 DEF Side, a

(* The path that parts from p at i leads to a Pane                         *)
LEMMA ForkIs ==
  ASSUME NEW p \in Paths, NEW i \in DOMAIN p, NEW q \in Paths
  PROVE  IsPrefix(Append(SubSeq(p, 1, i - 1), 1 - p[i]), q) <=> Part(p, q, i)
<1>1. /\ Len(p) \in Nat /\ DOMAIN p = 1..Len(p) /\ \A j \in 1..Len(p) : p[j] \in {0, 1}
      /\ Len(q) \in Nat /\ DOMAIN q = 1..Len(q) /\ \A j \in 1..Len(q) : q[j] \in {0, 1}
  BY PathIs
<1> DEFINE stem == SubSeq(p, 1, i - 1)  x == 1 - p[i]
<1>2. stem \in Paths /\ Len(stem) = i - 1 /\ \A j \in 1..i - 1 : stem[j] = p[j]
  BY <1>1, SubSeqProperties DEF Paths
<1>3. x \in {0, 1} /\ \A y \in {0, 1} : y = x <=> y # p[i]
  BY <1>1
<1> HIDE DEF stem, x
<1>4. Append(stem, x) \in Paths /\ Len(Append(stem, x)) = i
  BY <1>1, <1>2, <1>3, Appended
<1>5. Append(stem, x)[i] = x /\ \A j \in 1..i - 1 : Append(stem, x)[j] = p[j]
  <2>1. DOMAIN stem = 1..i - 1
    BY <1>2, PathIs
  <2> QED
    BY <1>1, <1>2, <1>3, <2>1, Appended
<1>6. IsPrefix(Append(stem, x), q) <=> i <= Len(q) /\ \A j \in 1..i : Append(stem, x)[j] = q[j]
  BY <1>4, PrefixOfPath
<1>7. (\A j \in 1..i : Append(stem, x)[j] = q[j]) <=> x = q[i] /\ \A j \in 1..i - 1 : p[j] = q[j]
  <2>1. \A j \in 1..i : j = i \/ j \in 1..i - 1
    BY <1>1
  <2>2. i \in 1..i /\ \A j \in 1..i - 1 : j \in 1..i
    BY <1>1
  <2> QED
    BY <1>5, <2>1, <2>2
<1>8. i <= Len(q) <=> i \in DOMAIN q
  BY <1>1
<1>9. i \in DOMAIN q => (x = q[i] <=> p[i] # q[i])
  BY <1>1, <1>3
<1> QED
  BY <1>6, <1>7, <1>8, <1>9 DEF Part, stem, x

(* without_leaf, persist_layout, reseed_layout: what is left of a Layout   *)
(* has exactly the Panes that are kept, and is no Layout when none is      *)
THEOREM CollapsedIsTree ==
  ASSUME NEW l \in Trees, NEW keep
  PROVE  /\ Leaves(l) \cap keep = {} => Collapsed(l, keep) = NoLayout
         /\ Leaves(l) \cap keep # {} =>
              /\ Collapsed(l, keep) \in Trees /\ Collapsed(l, keep) # NoLayout
              /\ Leaves(Collapsed(l, keep)) = Leaves(l) \cap keep
<1> DEFINE D       == DOMAIN l.pane
           kept    == {p \in D : l.pane[p] \in keep}
           Alive(q) == \E p \in kept : IsPrefix(q, p)
           Fork(p, i) == Alive(Append(SubSeq(p, 1, i - 1), 1 - p[i]))
           F(p)    == {i \in DOMAIN p : Fork(p, i)}
           Trim(p) == Picked(p, F(p))
           splits  == {p \in DOMAIN l.ratio : Alive(Append(p, 0)) /\ Alive(Append(p, 1))}
           T       == {Trim(p) : p \in kept}
           f       == [q \in T |-> l.pane[CHOOSE p \in kept : Trim(p) = q]]
           r       == [q \in {Trim(p) : p \in splits} |-> l.ratio[CHOOSE p \in splits : Trim(p) = q]]
<1>1. /\ l.ratio \in Maps /\ D \in SUBSET Paths /\ IsFiniteSet(D)
      /\ \A p \in D : l.pane[p] \in Nat /\ l.pane[p] \in Leaves(l)
      /\ \A v \in Leaves(l) : \E p \in D : l.pane[p] = v
      /\ \A p, q \in D : p # q => l.pane[p] # l.pane[q] /\ \E i \in Nat : Part(p, q, i)
  BY TreeIs
<1>2. Collapsed(l, keep) = [pane |-> f, ratio |-> r]
  BY Zenon DEF Collapsed
<1>3. kept \in SUBSET D /\ IsFiniteSet(kept) /\ kept \in SUBSET Paths
  <2>1. kept \in SUBSET D
    OBVIOUS
  <2> QED
    BY <1>1, <2>1, FS_Subset
<1>4. \A p \in kept : l.pane[p] \in keep
  OBVIOUS
<1>5. \A p \in D : l.pane[p] \in keep => p \in kept
  OBVIOUS
<1> HIDE DEF D, kept
<1>19. ASSUME NEW p \in splits
       PROVE  p \in Paths /\ \A x \in {0, 1} : \E q \in kept : Side(p, x, q)
  <2>1. p \in Paths
    BY TreeSides
  <2>2. \A q \in kept : /\ IsPrefix(Append(p, 0), q) <=> Side(p, 0, q)
                        /\ IsPrefix(Append(p, 1), q) <=> Side(p, 1, q)
    BY <1>3, <2>1, SideIs
  <2>3. (\E q \in kept : IsPrefix(Append(p, 0), q)) /\ (\E q \in kept : IsPrefix(Append(p, 1), q))
    OBVIOUS
  <2> HIDE DEF splits
  <2>4. PICK a \in kept : IsPrefix(Append(p, 0), a)
    BY <2>3
  <2>5. PICK b \in kept : IsPrefix(Append(p, 1), b)
    BY <2>3
  <2>6. Side(p, 0, a) /\ Side(p, 1, b)
    BY <2>2, <2>4, <2>5
  <2>7. ASSUME NEW x \in {0, 1} PROVE \E q \in kept : Side(p, x, q)
    <3>1. x = 0 \/ x = 1
      OBVIOUS
    <3> QED
      BY <2>6, <3>1
  <2> QED
    BY <2>1, <2>7
<1>6. ASSUME NEW p \in Paths
      PROVE  \A i \in DOMAIN p : i \in F(p) <=> \E q \in kept : Part(p, q, i)
  <2> SUFFICES ASSUME NEW i \in DOMAIN p
               PROVE  Fork(p, i) <=> \E q \in kept : Part(p, q, i)
    OBVIOUS
  <2>1. \A q \in kept : IsPrefix(Append(SubSeq(p, 1, i - 1), 1 - p[i]), q) <=> Part(p, q, i)
    BY <1>3, ForkIs
  <2> QED
    BY <2>1
<1>7. ASSUME NEW p \in Paths
      PROVE  F(p) \in SUBSET DOMAIN p /\ F(p) \in SUBSET Nat /\ IsFiniteSet(F(p))
  <2>1. F(p) \in SUBSET DOMAIN p
    OBVIOUS
  <2> HIDE DEF F
  <2>2. Len(p) \in Nat /\ DOMAIN p = 1..Len(p)
    BY PathIs
  <2>3. IsFiniteSet(1..Len(p))
    BY <2>2, FS_Interval
  <2> QED
    BY <2>1, <2>2, <2>3, FS_Subset
<1> HIDE DEF F
<1>8. ASSUME NEW p \in Paths
      PROVE  /\ Trim(p) \in Paths /\ DOMAIN Trim(p) = 1..Cardinality(F(p))
             /\ Len(Trim(p)) = Cardinality(F(p))
             /\ \A k \in 1..Cardinality(F(p)) : Trim(p)[k] = p[Ordered(F(p))[k]]
  <2>1. p \in Seq({0, 1}) /\ F(p) \in SUBSET DOMAIN p
    BY <1>7 DEF Paths
  <2>2. /\ Trim(p) \in Paths /\ Len(Trim(p)) = Cardinality(F(p))
        /\ \A k \in 1..Cardinality(F(p)) : Trim(p)[k] = p[Ordered(F(p))[k]]
    BY <2>1, PickedKeeps DEF Paths
  <2> QED
    BY <2>2, PathIs
<1> HIDE DEF Trim
<1>20. ASSUME NEW p \in kept, NEW q \in kept, NEW d \in Nat, Part(p, q, d)
       PROVE  \E m \in 1..Cardinality(F(p)) : Ordered(F(p))[m] = d /\ Part(Trim(p), Trim(q), m)
  <2>1. p \in Paths /\ q \in Paths
    BY <1>3
  <2>2. Part(p, q, d)
    BY <1>20
  <2>3. d \in F(p) /\ d \in F(q)
    <3>1. Part(q, p, d) /\ d \in DOMAIN p /\ d \in DOMAIN q
      BY <2>2, PartsBack DEF Part
    <3> QED
      BY <1>6, <2>1, <2>2, <3>1
  <2>4. ASSUME NEW j \in Nat, j < d PROVE j \in F(p) <=> j \in F(q)
    <3>1. CASE j = 0
      <4>1. 0 \notin DOMAIN p /\ 0 \notin DOMAIN q
        BY <2>1, PathIs
      <4> QED
        BY <1>7, <2>1, <3>1, <4>1
    <3>2. CASE j # 0
      <4>1. /\ d \in 1..Len(p) /\ d \in 1..Len(q) /\ DOMAIN p = 1..Len(p) /\ DOMAIN q = 1..Len(q)
            /\ Len(p) \in Nat /\ Len(q) \in Nat
        BY <2>1, <2>2, PathIs DEF Part
      <4>2. j \in DOMAIN p /\ j \in DOMAIN q /\ \A k \in 1..j : p[k] = q[k]
        BY <2>2, <2>4, <3>2, <4>1 DEF Part
      <4>3. \A z : Part(p, z, j) <=> Part(q, z, j)
        BY <2>1, <4>2, SameTurns
      <4> QED
        BY <1>6, <2>1, <4>2, <4>3
    <3> QED
      BY <3>1, <3>2
  <2>5. PICK m \in 1..Cardinality(F(p)) \cap 1..Cardinality(F(q)) :
              /\ Ordered(F(p))[m] = d /\ Ordered(F(q))[m] = d
              /\ \A k \in 1..m - 1 : /\ Ordered(F(p))[k] = Ordered(F(q))[k]
                                     /\ Ordered(F(p))[k] \in F(p) /\ Ordered(F(p))[k] < d
    BY <1>7, <2>1, <2>3, <2>4, OrderedAgree
  <2>6. Cardinality(F(p)) \in Nat /\ Cardinality(F(q)) \in Nat
    BY <1>7, <2>1, OrderedPlaces
  <2>7. m \in DOMAIN Trim(p) /\ m \in DOMAIN Trim(q) /\ Trim(p)[m] = p[d] /\ Trim(q)[m] = q[d]
    BY <1>8, <2>1, <2>5
  <2>8. p[d] # q[d]
    BY <2>2 DEF Part
  <2>9. ASSUME NEW k \in 1..m - 1 PROVE Trim(p)[k] = Trim(q)[k]
    <3> DEFINE i == Ordered(F(p))[k]
    <3>1. k \in 1..Cardinality(F(p)) /\ k \in 1..Cardinality(F(q))
      BY <2>5, <2>6
    <3>2. Trim(p)[k] = p[i] /\ Trim(q)[k] = q[i]
      BY <1>8, <2>1, <2>5, <3>1
    <3>3. i \in 1..d - 1
      <4>1. i \in DOMAIN p /\ i < d
        BY <1>7, <2>1, <2>5
      <4> HIDE DEF i
      <4> QED
        BY <2>1, <4>1, PathIs
    <3> HIDE DEF i
    <3> QED
      BY <2>2, <3>2, <3>3 DEF Part
  <2>10. Part(Trim(p), Trim(q), m)
    BY <2>6, <2>7, <2>8, <2>9 DEF Part
  <2> QED
    BY <2>5, <2>10
<1>9. ASSUME NEW p \in kept, NEW q \in kept, p # q
      PROVE  \E i \in Nat : Part(Trim(p), Trim(q), i)
  <2>1. PICK d \in Nat : Part(p, q, d)
    BY <1>1, <1>3, <1>9
  <2>2. PICK m \in 1..Cardinality(F(p)) : Part(Trim(p), Trim(q), m)
    BY <1>20, <2>1
  <2> QED
    BY <2>2
<1>10. \A p, q \in kept : Trim(p) = Trim(q) => p = q
  BY <1>9 DEF Part
<1>11. DOMAIN f = T /\ \A p \in kept : Trim(p) \in T /\ f[Trim(p)] = l.pane[p]
  <2> SUFFICES ASSUME NEW p \in kept PROVE f[Trim(p)] = l.pane[p]
    OBVIOUS
  <2>1. (CHOOSE a \in kept : Trim(a) = Trim(p)) = p
    BY <1>10
  <2> QED
    BY <2>1
<1>12. \A t \in T : \E p \in kept : t = Trim(p)
  OBVIOUS
<1>13. f \in Maps
  <2>1. T \in SUBSET Paths
    BY <1>3, <1>8
  <2>2. \A t \in T : f[t] \in Nat
    BY <1>1, <1>3, <1>11, <1>12
  <2>3. f = [t \in T |-> f[t]]
    OBVIOUS
  <2> HIDE DEF f, T
  <2>4. f \in [T -> Nat]
    BY <2>2, <2>3
  <2> QED
    BY <2>1, <2>4, MapsMade
<1>14. r \in Maps
  <2> DEFINE R == {Trim(p) : p \in splits}
  <2>1. DOMAIN l.ratio \in SUBSET Paths /\ l.ratio \in [DOMAIN l.ratio -> Nat]
    BY <1>1, MapsAre
  <2>2. splits \in SUBSET DOMAIN l.ratio
    OBVIOUS
  <2> HIDE DEF splits
  <2>3. R \in SUBSET Paths
    BY <1>8, <2>1, <2>2
  <2>4. \A q \in R : l.ratio[CHOOSE p \in splits : Trim(p) = q] \in Nat
    <3> SUFFICES ASSUME NEW q \in R PROVE l.ratio[CHOOSE p \in splits : Trim(p) = q] \in Nat
      OBVIOUS
    <3>1. (CHOOSE p \in splits : Trim(p) = q) \in splits
      OBVIOUS
    <3> QED
      BY <2>1, <2>2, <3>1
  <2>5. r \in [R -> Nat]
    BY <2>4
  <2> HIDE DEF r, R
  <2> QED
    BY <2>3, <2>5, MapsMade
<1>21. ASSUME NEW t \in T, NEW k \in DOMAIN t PROVE \E e \in T : Part(t, e, k)
  <2>1. PICK p \in kept : t = Trim(p)
    BY <1>12
  <2>2. p \in Paths
    BY <1>3
  <2>3. k \in 1..Cardinality(F(p))
    BY <1>8, <2>1, <2>2
  <2>4. /\ \A j \in 1..Cardinality(F(p)) : /\ Ordered(F(p))[j] \in F(p)
                                           /\ Place(F(p), Ordered(F(p))[j]) = j - 1
        /\ Cardinality(F(p)) \in Nat
    BY <1>7, <2>2, OrderedPlaces
  <2> DEFINE d == Ordered(F(p))[k]
  <2>5. d \in F(p) /\ d \in DOMAIN p /\ d \in Nat
    BY <1>7, <2>2, <2>3, <2>4
  <2>6. PICK q \in kept : Part(p, q, d)
    BY <1>6, <2>2, <2>5
  <2>7. PICK m \in 1..Cardinality(F(p)) : Ordered(F(p))[m] = d /\ Part(Trim(p), Trim(q), m)
    BY <1>20, <2>5, <2>6
  <2>8. m = k
    BY <2>3, <2>4, <2>7
  <2>9. Trim(q) \in T
    BY <1>11
  <2> QED
    BY <2>1, <2>7, <2>8, <2>9
<1>22. ASSUME NEW p \in Paths, NEW x, NEW q \in kept, Side(p, x, q),
              NEW y, y # x, NEW z \in kept, Side(p, y, z)
       PROVE  Side(Trim(p), x, Trim(q))
  <2> DEFINE d == Len(p) + 1
  <2>1. /\ q \in Paths /\ z \in Paths /\ Len(p) \in Nat /\ DOMAIN p = 1..Len(p)
        /\ Len(q) \in Nat /\ DOMAIN q = 1..Len(q)
    BY <1>3, PathIs
  <2>2. d \in DOMAIN q /\ q[d] = x /\ \A j \in 1..Len(p) : j \in DOMAIN q /\ q[j] = p[j]
    BY <1>22, <2>1 DEF Side
  <2>3. d \in F(q)
    <3>1. Part(q, z, d)
      BY <1>22, <2>1, SidesPart
    <3> QED
      BY <1>6, <2>1, <2>2, <3>1
  <2>4. ASSUME NEW j \in DOMAIN p PROVE j \in F(p) <=> j \in F(q)
    <3>1. j \in DOMAIN q /\ \A k \in 1..j : p[k] = q[k]
      BY <2>1, <2>2
    <3>2. \A e : Part(p, e, j) <=> Part(q, e, j)
      BY <2>1, <3>1, SameTurns
    <3> QED
      BY <1>6, <2>1, <3>1, <3>2
  <2>5. F(p) = {j \in F(q) : j < d}
    <3>1. \A j \in F(p) : j \in DOMAIN p /\ j < d
      BY <1>7, <2>1
    <3>2. \A j \in F(q) : j < d => j \in DOMAIN p
      BY <1>7, <2>1
    <3> HIDE DEF d
    <3> QED
      BY <2>4, <3>1, <3>2
  <2> DEFINE n == Cardinality(F(p))
  <2>6. /\ n + 1 \in 1..Cardinality(F(q)) /\ Ordered(F(q))[n + 1] = d
        /\ \A k \in 1..n : Ordered(F(p))[k] = Ordered(F(q))[k]
    BY <1>7, <2>1, <2>3, <2>5, OrderedBelow
  <2>7. n \in Nat /\ Cardinality(F(q)) \in Nat /\ \A k \in 1..n : Ordered(F(p))[k] \in F(p)
    BY <1>7, <2>1, OrderedPlaces
  <2>8. Len(Trim(p)) = n /\ n + 1 \in DOMAIN Trim(q)
    BY <1>8, <2>1, <2>6
  <2>9. Trim(q)[n + 1] = x
    BY <1>8, <2>1, <2>2, <2>6
  <2>10. ASSUME NEW k \in 1..n PROVE Trim(q)[k] = Trim(p)[k]
    <3> DEFINE i == Ordered(F(p))[k]
    <3>1. k \in 1..Cardinality(F(q))
      BY <2>6, <2>7
    <3>2. Trim(p)[k] = p[i] /\ Trim(q)[k] = q[i]
      BY <1>8, <2>1, <2>6, <3>1
    <3>3. i \in DOMAIN p
      BY <1>7, <2>7
    <3> HIDE DEF i
    <3> QED
      BY <2>1, <2>2, <3>2, <3>3
  <2> HIDE DEF n
  <2> QED
    BY <2>8, <2>9, <2>10 DEF Side
<1>23. ASSUME NEW t \in DOMAIN r, NEW x \in {0, 1} PROVE \E e \in T : Side(t, x, e)
  <2>1. PICK p \in splits : t = Trim(p)
    OBVIOUS
  <2> HIDE DEF splits
  <2>2. PICK y \in {0, 1} : y # x
    OBVIOUS
  <2>3. PICK q \in kept : Side(p, x, q)
    BY <1>19
  <2>4. PICK z \in kept : Side(p, y, z)
    BY <1>19
  <2>5. Side(Trim(p), x, Trim(q))
    BY <1>19, <1>22, <2>2, <2>3, <2>4
  <2> QED
    BY <1>11, <2>1, <2>5
<1>24. TwoSided(DOMAIN f, DOMAIN r)
  <2> HIDE DEF f, r, T
  <2> QED
    BY <1>11, <1>21, <1>23 DEF TwoSided
<1>15. \A u \in Leaves(l) \cap keep : \E p \in kept : l.pane[p] = u
  BY <1>1, <1>5
<1>16. ASSUME Leaves(l) \cap keep = {} PROVE [pane |-> f, ratio |-> r] = NoLayout
  <2>1. kept = {}
    BY <1>1, <1>3, <1>4, <1>16
  <2>2. f = <<>>
    BY <2>1
  <2>3. splits = {}
    BY <2>1
  <2>4. r = <<>>
    <3> HIDE DEF splits
    <3> QED
      BY <2>3
  <2> HIDE DEF f, r
  <2> QED
    BY <2>2, <2>4 DEF NoLayout
<1>17. ASSUME Leaves(l) \cap keep # {}
       PROVE  /\ [pane |-> f, ratio |-> r] \in Trees /\ [pane |-> f, ratio |-> r] # NoLayout
              /\ Leaves([pane |-> f, ratio |-> r]) = Leaves(l) \cap keep
  <2>1. T # {}
    BY <1>11, <1>15, <1>17
  <2>2. IsFiniteSet(T)
    <3> DEFINE g == [p \in kept |-> Trim(p)]
    <3>1. g \in Surjection(kept, T)
      BY DEF Surjection
    <3> HIDE DEF g, T
    <3> QED
      BY <1>3, <3>1, FS_Surjection
  <2>3. ASSUME NEW a \in T, NEW b \in T, a # b
        PROVE  f[a] # f[b] /\ \E i \in Nat : Part(a, b, i)
    <3>1. PICK p \in kept : a = Trim(p)
      BY <1>12
    <3>2. PICK q \in kept : b = Trim(q)
      BY <1>12
    <3>3. p # q
      BY <2>3, <3>1, <3>2
    <3>4. f[a] = l.pane[p] /\ f[b] = l.pane[q]
      BY <1>11, <3>1, <3>2
    <3>5. l.pane[p] # l.pane[q]
      BY <1>1, <1>3, <3>3
    <3> QED
      BY <1>9, <3>1, <3>2, <3>3, <3>4, <3>5
  <2>4. [pane |-> f, ratio |-> r] \in Trees
    <3> HIDE DEF f, r, T
    <3> QED
      BY <1>11, <1>13, <1>14, <1>24, <2>1, <2>2, <2>3, TreeMade
  <2>5. f # <<>>
    <3> HIDE DEF f, T
    <3> QED
      BY <1>11, <2>1
  <2>6. {f[t] : t \in T} = Leaves(l) \cap keep
    <3>1. \A t \in T : f[t] \in Leaves(l) \cap keep
      BY <1>1, <1>3, <1>4, <1>11, <1>12
    <3> HIDE DEF f, T
    <3>2. \A u \in Leaves(l) \cap keep : \E t \in T : f[t] = u
      BY <1>11, <1>15
    <3> QED
      BY <3>1, <3>2
  <2>7. Leaves([pane |-> f, ratio |-> r]) = {f[t] : t \in T}
    <3> HIDE DEF f, r, T
    <3> QED
      BY <1>11 DEF Leaves, Range
  <2> HIDE DEF f, r, T
  <2> QED
    BY <2>4, <2>5, <2>6, <2>7 DEF NoLayout
<1> QED
  BY <1>2, <1>16, <1>17, Zenon

(* A layout none of whose Panes is left out is written, and comes back, as  *)
(* it is: every turn to one of its Panes stays a turn, and every Split has   *)
(* two sides (persist_layout, reseed_layout)                                *)
LEMMA CollapsedWhole ==
  ASSUME NEW l \in Trees, NEW keep, Leaves(l) \subseteq keep
  PROVE  Collapsed(l, keep) = l
<1> DEFINE D       == DOMAIN l.pane
           R       == DOMAIN l.ratio
           kept    == {p \in D : l.pane[p] \in keep}
           Alive(q) == \E p \in kept : IsPrefix(q, p)
           Fork(p, i) == Alive(Append(SubSeq(p, 1, i - 1), 1 - p[i]))
           F(p)    == {i \in DOMAIN p : Fork(p, i)}
           Trim(p) == Picked(p, F(p))
           splits  == {p \in R : Alive(Append(p, 0)) /\ Alive(Append(p, 1))}
           f       == [q \in {Trim(p) : p \in kept} |-> l.pane[CHOOSE p \in kept : Trim(p) = q]]
           r       == [q \in {Trim(p) : p \in splits} |-> l.ratio[CHOOSE p \in splits : Trim(p) = q]]
<1>1. /\ l = [pane |-> l.pane, ratio |-> l.ratio] /\ l.pane \in Maps /\ l.ratio \in Maps
      /\ D \in SUBSET Paths /\ R \in SUBSET Paths
      /\ \A p \in D : l.pane[p] \in Leaves(l)
  BY TreeIs, TreeSides
<1>2. Collapsed(l, keep) = [pane |-> f, ratio |-> r]
  BY Zenon DEF Collapsed
<1>3. kept = D
  BY <1>1
<1>4. /\ l.pane = [p \in D |-> l.pane[p]]
      /\ l.ratio = [p \in R |-> l.ratio[p]]
  BY <1>1, MapsAre
<1>5. /\ \A p \in D : \A i \in DOMAIN p : \E q \in D : Part(p, q, i)
      /\ \A p \in R : \A x \in {0, 1} : \E q \in D : Side(p, x, q)
  BY TreeSides DEF TwoSided
<1> HIDE DEF D, R, kept
<1>6. ASSUME NEW p \in Paths, NEW i \in DOMAIN p, NEW q \in D, Part(p, q, i)
      PROVE  Fork(p, i)
  <2>1. q \in Paths /\ q \in kept
    BY <1>1, <1>3
  <2>2. IsPrefix(Append(SubSeq(p, 1, i - 1), 1 - p[i]), q)
    BY <1>6, <2>1, ForkIs
  <2> QED
    BY <2>1, <2>2
<1>7. ASSUME NEW p \in Paths, \A i \in DOMAIN p : \E q \in D : Part(p, q, i)
      PROVE  Trim(p) = p
  <2>1. F(p) = DOMAIN p
    <3>1. \A i \in DOMAIN p : Fork(p, i)
      BY <1>6, <1>7
    <3> QED
      BY <3>1
  <2> HIDE DEF F
  <2>2. Len(p) \in Nat /\ DOMAIN p = 1..Len(p)
    BY PathIs
  <2>3. p = [k \in 1..Len(p) |-> p[k]]
    BY <2>2 DEF Paths
  <2>4. Picked(p, DOMAIN p) = p
    BY <2>2, <2>3, PickedWhole
  <2> QED
    BY <2>1, <2>4
<1>8. ASSUME NEW p \in D PROVE Trim(p) = p
  <2>1. p \in Paths /\ \A i \in DOMAIN p : \E q \in D : Part(p, q, i)
    BY <1>1, <1>5
  <2> HIDE DEF Trim
  <2> QED
    BY <1>7, <2>1
<1>9. ASSUME NEW p \in R PROVE p \in splits /\ Trim(p) = p
  <2>1. p \in Paths
    BY <1>1
  <2>2. PICK a \in D : Side(p, 0, a)
    BY <1>5
  <2>3. PICK b \in D : Side(p, 1, b)
    BY <1>5
  <2>4. a \in Paths /\ b \in Paths /\ a \in kept /\ b \in kept
    BY <1>1, <1>3
  <2>5. IsPrefix(Append(p, 0), a) /\ IsPrefix(Append(p, 1), b)
    BY <2>1, <2>2, <2>3, <2>4, SideIs
  <2>6. p \in splits
    BY <2>4, <2>5
  <2>7. ASSUME NEW i \in DOMAIN p PROVE \E q \in D : Part(p, q, i)
    <3>1. /\ Len(p) \in Nat /\ DOMAIN p = 1..Len(p)
          /\ Len(a) \in Nat /\ DOMAIN a = 1..Len(a)
      BY <2>1, <2>4, PathIs
    <3>2. i \in DOMAIN a /\ \A k \in 1..i : p[k] = a[k]
      BY <2>2, <3>1 DEF Side
    <3>3. PICK q \in D : Part(a, q, i)
      BY <1>5, <3>2
    <3>4. Part(p, q, i) <=> Part(a, q, i)
      BY <2>1, <2>4, <3>2, SameTurns
    <3> QED
      BY <3>3, <3>4
  <2>8. Trim(p) = p
    <3> HIDE DEF Trim
    <3> QED
      BY <1>7, <2>1, <2>7
  <2> QED
    BY <2>6, <2>8
<1>10. \A p \in splits : p \in R
  OBVIOUS
<1> HIDE DEF splits, Trim
<1>11. f = l.pane
  <2>1. {Trim(p) : p \in kept} = D
    BY <1>3, <1>8
  <2>2. \A q \in D : (CHOOSE p \in kept : Trim(p) = q) = q
    BY <1>3, <1>8
  <2>3. DOMAIN f = D
    BY <2>1
  <2>4. ASSUME NEW q \in D PROVE f[q] = l.pane[q]
    <3>1. q \in {Trim(p) : p \in kept}
      BY <2>1
    <3> QED
      BY <2>2, <3>1
  <2>5. f = [q \in DOMAIN f |-> f[q]]
    OBVIOUS
  <2> HIDE DEF f
  <2> QED
    BY <1>4, <2>3, <2>4, <2>5
<1>12. r = l.ratio
  <2>1. {Trim(p) : p \in splits} = R
    BY <1>9, <1>10
  <2>2. \A q \in R : (CHOOSE p \in splits : Trim(p) = q) = q
    BY <1>9, <1>10
  <2>3. DOMAIN r = R
    BY <2>1
  <2>4. ASSUME NEW q \in R PROVE r[q] = l.ratio[q]
    <3>1. q \in {Trim(p) : p \in splits}
      BY <2>1
    <3> QED
      BY <2>2, <3>1
  <2>5. r = [q \in DOMAIN r |-> r[q]]
    OBVIOUS
  <2> HIDE DEF r
  <2> QED
    BY <1>4, <2>3, <2>4, <2>5
<1> HIDE DEF f, r
<1> QED
  BY <1>1, <1>2, <1>11, <1>12

(* reseed_layout: new Surfaces in the place of the old ones                *)
LEMMA RespawnedIsTree ==
  ASSUME NEW l \in Trees, NEW ids, \A u \in Leaves(l) : ids[u] \in Nat,
         \A u, v \in Leaves(l) : ids[u] = ids[v] => u = v
  PROVE  /\ Respawned(l, ids) \in Trees
         /\ Leaves(Respawned(l, ids)) = {ids[u] : u \in Leaves(l)}
<1> DEFINE D == DOMAIN l.pane
           f == [p \in D |-> ids[l.pane[p]]]
<1>1. /\ l = [pane |-> l.pane, ratio |-> l.ratio] /\ l.ratio \in Maps
      /\ D \in SUBSET Paths /\ D # {} /\ IsFiniteSet(D)
      /\ \A p \in D : l.pane[p] \in Nat /\ l.pane[p] \in Leaves(l)
      /\ \A u \in Leaves(l) : \E p \in D : l.pane[p] = u
      /\ \A p, q \in D : p # q => l.pane[p] # l.pane[q] /\ \E i \in Nat : Part(p, q, i)
  BY TreeIs
<1>10. TwoSided(D, DOMAIN l.ratio)
  BY TreeSides
<1>2. Respawned(l, ids) = [pane |-> f, ratio |-> l.ratio]
  BY <1>1 DEF Respawned
<1> HIDE DEF D
<1>3. DOMAIN f = D /\ \A p \in D : f[p] = ids[l.pane[p]]
  OBVIOUS
<1>4. f \in [D -> Nat]
  BY <1>1
<1> HIDE DEF f
<1>5. f \in Maps
  BY <1>1, <1>4, MapsMade
<1>6. ASSUME NEW p \in D, NEW q \in D, p # q PROVE f[p] # f[q] /\ \E i \in Nat : Part(p, q, i)
  BY <1>1, <1>3, <1>6
<1>7. [pane |-> f, ratio |-> l.ratio] \in Trees
  BY <1>1, <1>3, <1>5, <1>6, <1>10, TreeMade
<1>8. {f[p] : p \in D} = {ids[u] : u \in Leaves(l)}
  <2>1. \A p \in D : f[p] \in {ids[u] : u \in Leaves(l)}
    BY <1>1, <1>3
  <2>2. \A u \in Leaves(l) : \E p \in D : f[p] = ids[u]
    BY <1>1, <1>3
  <2> QED
    BY <2>1, <2>2
<1>9. Leaves([pane |-> f, ratio |-> l.ratio]) = {f[p] : p \in D}
  BY <1>3 DEF Leaves, Range
<1> QED
  BY <1>2, <1>7, <1>8, <1>9

-----------------------------------------------------------------------------
(* Tree order                                                              *)

(* A path is before another one when it turns to the first side where they  *)
(* part.                                                                    *)
LEMMA BeforeIs ==
  ASSUME NEW p \in Paths, NEW q \in Paths
  PROVE  Before(p, q) <=> \E i \in Nat : Part(p, q, i) /\ p[i] < q[i]
<1>1. /\ Len(p) \in Nat /\ DOMAIN p = 1..Len(p) /\ \A j \in 1..Len(p) : p[j] \in {0, 1}
      /\ Len(q) \in Nat /\ DOMAIN q = 1..Len(q) /\ \A j \in 1..Len(q) : q[j] \in {0, 1}
  BY PathIs
<1>2. ASSUME NEW i \in DOMAIN p \cap DOMAIN q
      PROVE  SubSeq(p, 1, i - 1) = SubSeq(q, 1, i - 1) <=> \A j \in 1..i - 1 : p[j] = q[j]
  <2> DEFINE a == SubSeq(p, 1, i - 1)  b == SubSeq(q, 1, i - 1)
  <2>1. a \in Paths /\ Len(a) = i - 1 /\ \A j \in 1..i - 1 : a[j] = p[j]
    BY <1>1, SubSeqProperties DEF Paths
  <2>2. b \in Paths /\ Len(b) = i - 1 /\ \A j \in 1..i - 1 : b[j] = q[j]
    BY <1>1, SubSeqProperties DEF Paths
  <2> HIDE DEF a, b
  <2>3. ASSUME a = b PROVE \A j \in 1..i - 1 : p[j] = q[j]
    BY <2>1, <2>2, <2>3
  <2>4. ASSUME \A j \in 1..i - 1 : p[j] = q[j] PROVE a = b
    <3>1. \A j \in 1..Len(a) : a[j] = b[j]
      BY <2>1, <2>2, <2>4
    <3> QED
      BY <2>1, <2>2, <3>1, SeqEqual DEF Paths
  <2> QED
    BY <2>3, <2>4 DEF a, b
<1>3. ASSUME NEW i \in DOMAIN p \cap DOMAIN q
      PROVE  i \in Nat /\ (p[i] < q[i] => p[i] # q[i])
  BY <1>1
<1>4. ASSUME Before(p, q) PROVE \E i \in Nat : Part(p, q, i) /\ p[i] < q[i]
  <2>1. PICK i \in DOMAIN p \cap DOMAIN q : SubSeq(p, 1, i - 1) = SubSeq(q, 1, i - 1) /\ p[i] < q[i]
    BY <1>4 DEF Before
  <2>2. Part(p, q, i)
    BY <1>2, <1>3, <2>1 DEF Part
  <2> QED
    BY <1>3, <2>1, <2>2
<1>5. ASSUME NEW i \in Nat, Part(p, q, i), p[i] < q[i] PROVE Before(p, q)
  <2>1. i \in DOMAIN p \cap DOMAIN q /\ \A j \in 1..i - 1 : p[j] = q[j]
    BY <1>5 DEF Part
  <2>2. SubSeq(p, 1, i - 1) = SubSeq(q, 1, i - 1)
    BY <1>2, <2>1
  <2> QED
    BY <1>5, <2>1, <2>2 DEF Before
<1> QED
  BY <1>4, <1>5

(* The Panes of a tree have an order                                       *)
LEMMA BeforeOrders ==
  ASSUME NEW p \in Paths, NEW q \in Paths
  PROVE  /\ ~Before(p, p)
         /\ (\E i \in Nat : Part(p, q, i)) => Before(p, q) \/ Before(q, p)
         /\ \A r \in Paths : Before(p, q) /\ Before(q, r) => Before(p, r)
<1>1. ~Before(p, p)
  BY BeforeIs DEF Part
<1>2. ASSUME NEW i \in Nat, Part(p, q, i) PROVE Before(p, q) \/ Before(q, p)
  <2>1. Part(q, p, i) /\ p[i] # q[i] /\ i \in DOMAIN p /\ i \in DOMAIN q
    BY <1>2, PartsBack DEF Part
  <2>2. p[i] \in {0, 1} /\ q[i] \in {0, 1}
    BY <2>1, PathIs
  <2>3. p[i] < q[i] \/ q[i] < p[i]
    BY <2>1, <2>2
  <2> QED
    BY <1>2, <2>1, <2>3, BeforeIs
<1>3. ASSUME NEW r \in Paths, Before(p, q), Before(q, r) PROVE Before(p, r)
  <2>1. PICK i \in Nat : Part(p, q, i) /\ p[i] < q[i]
    BY <1>3, BeforeIs
  <2>2. PICK j \in Nat : Part(q, r, j) /\ q[j] < r[j]
    BY <1>3, BeforeIs
  <2>3. /\ i \in DOMAIN p /\ i \in DOMAIN q /\ \A m \in 1..i - 1 : p[m] = q[m]
        /\ j \in DOMAIN q /\ j \in DOMAIN r /\ \A m \in 1..j - 1 : q[m] = r[m]
    BY <2>1, <2>2 DEF Part
  <2>4. /\ Len(p) \in Nat /\ DOMAIN p = 1..Len(p) /\ \A m \in 1..Len(p) : p[m] \in {0, 1}
        /\ Len(q) \in Nat /\ DOMAIN q = 1..Len(q) /\ \A m \in 1..Len(q) : q[m] \in {0, 1}
        /\ Len(r) \in Nat /\ DOMAIN r = 1..Len(r) /\ \A m \in 1..Len(r) : r[m] \in {0, 1}
    BY PathIs
  <2>5. CASE i < j
    <3>1. i \in 1..j - 1 /\ i \in DOMAIN r
      BY <2>3, <2>4, <2>5
    <3>2. p[i] < r[i] /\ p[i] # r[i]
      BY <2>1, <2>3, <2>4, <3>1
    <3>3. \A m \in 1..i - 1 : m \in 1..j - 1
      BY <2>5
    <3>4. Part(p, r, i)
      BY <2>3, <3>1, <3>2, <3>3 DEF Part
    <3> QED
      BY <3>2, <3>4, BeforeIs
  <2>6. CASE j < i
    <3>1. j \in 1..i - 1 /\ j \in DOMAIN p
      BY <2>3, <2>4, <2>6
    <3>2. p[j] < r[j] /\ p[j] # r[j]
      BY <2>2, <2>3, <2>4, <3>1
    <3>3. \A m \in 1..j - 1 : m \in 1..i - 1
      BY <2>6
    <3>4. Part(p, r, j)
      BY <2>3, <3>1, <3>2, <3>3 DEF Part
    <3> QED
      BY <3>2, <3>4, BeforeIs
  <2>7. CASE i = j
    <3>1. p[i] < r[i] /\ p[i] # r[i]
      BY <2>1, <2>2, <2>3, <2>4, <2>7
    <3>2. Part(p, r, i)
      BY <2>3, <2>7, <3>1 DEF Part
    <3> QED
      BY <3>1, <3>2, BeforeIs
  <2> QED
    BY <2>5, <2>6, <2>7
<1> QED
  BY <1>1, <1>2, <1>3
=============================================================================
