------------------------- MODULE VehicleRoutes_proofs --------------------------
(***************************************************************************)
(* Proofs about VehicleRoutes, for any positions a vehicle reports in the  *)
(* course of a day and any size of a request to Map Matching.              *)
(*                                                                         *)
(* What a recursive function computes is shown without induction on it: a  *)
(* function that fits its definition exists (StepwiseExists), and of the   *)
(* numbers where a claim fails there would be a least one (LeastExists).   *)
(***************************************************************************)
EXTENDS VehicleRoutes, FiniteSetTheorems, SequenceTheorems, TLAPS

\* A set of numbers has a least one.
LEMMA LeastExists ==
    ASSUME NEW M, M \subseteq Nat, M # {}
    PROVE  \E i \in M : \A j \in M : i <= j
<1>1. PICK i \in M : \A j \in M : <<j, i>> \notin OpToRel(<, Nat)
  BY NatLessThanWellFounded, WFMin
<1>2. \A j \in M : ~(j < i) BY <1>1 DEF OpToRel
<1> QED BY <1>2

-------------------------------------------------------------------------------
(* Elements picked out of a sequence *)

UpTo(K, i) == {x \in K : x <= i}

\* Numbers of a sequence are numbers.
LEMMA NumbersAreNumbers ==
    ASSUME NEW n \in Nat, NEW K \in SUBSET (1..n), NEW x \in K
    PROVE  x \in Nat /\ 1 <= x /\ x <= n
OBVIOUS

\* Numbers of a sequence are finitely many.
LEMMA NumbersAreFinite ==
    ASSUME NEW n \in Nat, NEW K \in SUBSET (1..n)
    PROVE  IsFiniteSet(K) /\ Cardinality(K) \in Nat /\ Cardinality(K) <= n
<1>1. IsFiniteSet(1..n) /\ Cardinality(1..n) = n BY FS_Interval
<1>2. IsFiniteSet(K) /\ Cardinality(K) <= Cardinality(1..n) BY <1>1, FS_Subset
<1> QED BY <1>1, <1>2, FS_CardinalityType

\* From one number to the next the count grows by one or stays.
LEMMA CountGrows ==
    ASSUME NEW n \in Nat, NEW K \in SUBSET (1..n), NEW i \in Nat
    PROVE  /\ Cardinality(UpTo(K, i)) \in Nat
           /\ Cardinality(UpTo(K, i + 1)) =
                IF i + 1 \in K THEN Cardinality(UpTo(K, i)) + 1 ELSE Cardinality(UpTo(K, i))
<1>0. \A x \in K : x \in Nat /\ 1 <= x /\ x <= n BY NumbersAreNumbers
<1>1. UpTo(K, i) \in SUBSET (1..n) BY DEF UpTo
<1>2. IsFiniteSet(UpTo(K, i)) /\ Cardinality(UpTo(K, i)) \in Nat BY <1>1, NumbersAreFinite
<1>3. CASE i + 1 \in K
  <2>1. \A x \in K : x <= i + 1 <=> x <= i \/ x = i + 1 BY <1>0
  <2>2. UpTo(K, i + 1) = UpTo(K, i) \cup {i + 1} BY <1>3, <2>1 DEF UpTo
  <2>3. i + 1 \notin UpTo(K, i) BY DEF UpTo
  <2> QED BY <1>2, <1>3, <2>2, <2>3, FS_AddElement
<1>4. CASE i + 1 \notin K
  <2>1. \A x \in K : x <= i + 1 <=> x <= i BY <1>0, <1>4
  <2>2. UpTo(K, i + 1) = UpTo(K, i) BY <2>1 DEF UpTo
  <2> QED BY <1>2, <1>4, <2>2
<1> QED BY <1>3, <1>4

\* A later element has a higher count.
LEMMA CountRises ==
    ASSUME NEW n \in Nat, NEW K \in SUBSET (1..n), NEW h \in Int, NEW i \in K, h < i
    PROVE  Cardinality(UpTo(K, h)) < Cardinality(UpTo(K, i))
<1>0. \A x \in K : x \in Nat BY NumbersAreNumbers
<1>1. UpTo(K, i) \in SUBSET (1..n) /\ i \in UpTo(K, i)
  <2>1. UpTo(K, i) \in SUBSET (1..n) BY DEF UpTo
  <2>2. i \in UpTo(K, i) BY <1>0 DEF UpTo
  <2> QED BY <2>1, <2>2
<1>2. IsFiniteSet(UpTo(K, i)) /\ Cardinality(UpTo(K, i)) \in Nat BY <1>1, NumbersAreFinite
<1>3. UpTo(K, h) \in SUBSET (UpTo(K, i) \ {i})
  <2>1. \A x \in K : x <= h => x <= i /\ x # i BY <1>0
  <2> QED BY <2>1 DEF UpTo
<1>4. /\ IsFiniteSet(UpTo(K, i) \ {i})
      /\ Cardinality(UpTo(K, i) \ {i}) = Cardinality(UpTo(K, i)) - 1
  BY <1>1, <1>2, FS_RemoveElement
<1>5. Cardinality(UpTo(K, h)) <= Cardinality(UpTo(K, i) \ {i}) BY <1>3, <1>4, FS_Subset
<1>6. Cardinality(UpTo(K, h)) \in Nat BY <1>3, <1>4, FS_Subset, FS_CardinalityType
<1> QED BY <1>2, <1>4, <1>5, <1>6

\* There is a j-th element, and the count up to it is j.
LEMMA NthIs ==
    ASSUME NEW n \in Nat, NEW K \in SUBSET (1..n), NEW j \in 1..Cardinality(K)
    PROVE  Nth(K, j) \in K /\ Cardinality(UpTo(K, Nth(K, j))) = j
<1> DEFINE M == {i \in Nat : Cardinality(UpTo(K, i)) >= j}
<1>0. \A x \in K : x \in Nat /\ 1 <= x /\ x <= n BY NumbersAreNumbers
<1>1. UpTo(K, n) = K /\ UpTo(K, 0) = {}
  <2>1. \A x \in K : x <= n /\ ~(x <= 0) BY <1>0
  <2>2. UpTo(K, n) = K BY <2>1 DEF UpTo
  <2>3. UpTo(K, 0) = {} BY <2>1 DEF UpTo
  <2> QED BY <2>2, <2>3
<1>2. Cardinality(K) \in Nat /\ Cardinality({}) = 0 BY NumbersAreFinite, FS_EmptySet
<1>3. n \in M /\ 0 \notin M BY <1>1, <1>2
<1>4. PICK i \in M : \A h \in M : i <= h
  <2>1. M \subseteq Nat /\ M # {} BY <1>3
  <2> HIDE DEF M
  <2> QED BY <2>1, LeastExists
<1>5. i \in Nat /\ i # 0 BY <1>3, <1>4
<1>6. i - 1 \in Nat /\ i - 1 \notin M BY <1>4, <1>5
<1>7. Cardinality(UpTo(K, i - 1)) \in Nat
      /\ Cardinality(UpTo(K, i)) = IF i \in K THEN Cardinality(UpTo(K, i - 1)) + 1
                                             ELSE Cardinality(UpTo(K, i - 1))
  <2> DEFINE h == i - 1
  <2>1. h + 1 = i /\ h \in Nat BY <1>5, <1>6
  <2> HIDE DEF h
  <2>2. /\ Cardinality(UpTo(K, h)) \in Nat
        /\ Cardinality(UpTo(K, h + 1)) =
             IF h + 1 \in K THEN Cardinality(UpTo(K, h)) + 1 ELSE Cardinality(UpTo(K, h))
    BY <2>1, CountGrows
  <2> QED BY <2>1, <2>2 DEF h
<1>8. i \in K /\ Cardinality(UpTo(K, i)) = j BY <1>2, <1>6, <1>7
<1>9. \E h \in K : Cardinality({x \in K : x <= h}) = j BY <1>8 DEF UpTo
<1> QED BY <1>9 DEF Nth, UpTo

\* Each element is the one of its count.
LEMMA NthOf ==
    ASSUME NEW n \in Nat, NEW K \in SUBSET (1..n), NEW i \in K
    PROVE  Cardinality(UpTo(K, i)) \in 1..Cardinality(K) /\ Nth(K, Cardinality(UpTo(K, i))) = i
<1> DEFINE j == Cardinality(UpTo(K, i))
<1>1. UpTo(K, i) \in SUBSET K /\ i \in UpTo(K, i) BY DEF UpTo
<1>2. IsFiniteSet(K) /\ Cardinality(K) \in Nat BY NumbersAreFinite
<1>3. j <= Cardinality(K) /\ j \in Nat /\ (j = 0 <=> UpTo(K, i) = {})
  BY <1>1, <1>2, FS_Subset, FS_CardinalityType, FS_EmptySet
<1>4. j \in 1..Cardinality(K) BY <1>1, <1>2, <1>3
<1>5. Nth(K, j) \in K /\ Cardinality(UpTo(K, Nth(K, j))) = j BY <1>4, NthIs
<1>6. i \in Nat /\ Nth(K, j) \in Nat BY <1>5, NumbersAreNumbers
<1>7. i \in Int /\ Nth(K, j) \in Int BY <1>6
<1>8. ~(Nth(K, j) < i)
  <2>1. Nth(K, j) < i => Cardinality(UpTo(K, Nth(K, j))) < Cardinality(UpTo(K, i))
    BY <1>7, CountRises
  <2> QED BY <1>3, <1>5, <2>1
<1>9. ~(i < Nth(K, j))
  <2>1. i < Nth(K, j) => Cardinality(UpTo(K, i)) < Cardinality(UpTo(K, Nth(K, j)))
    BY <1>5, <1>7, CountRises
  <2> QED BY <1>3, <1>5, <2>1
<1> QED BY <1>4, <1>6, <1>8, <1>9

\* The elements come in their order.
LEMMA NthInOrder ==
    ASSUME NEW n \in Nat, NEW K \in SUBSET (1..n),
           NEW j \in 1..Cardinality(K), NEW l \in 1..Cardinality(K), j < l
    PROVE  Nth(K, j) < Nth(K, l)
<1>1. /\ Nth(K, j) \in K /\ Cardinality(UpTo(K, Nth(K, j))) = j
      /\ Nth(K, l) \in K /\ Cardinality(UpTo(K, Nth(K, l))) = l
  BY NthIs
<1>2. ~(Nth(K, l) < Nth(K, j))
  <2>1. Nth(K, l) \in Int
    <3>1. Nth(K, l) \in Nat BY <1>1, NumbersAreNumbers
    <3> QED BY <3>1
  <2>2. Nth(K, l) < Nth(K, j)
          => Cardinality(UpTo(K, Nth(K, l))) < Cardinality(UpTo(K, Nth(K, j)))
    BY <1>1, <2>1, CountRises
  <2> QED BY <1>1, <2>2
<1>3. j # l => Nth(K, j) # Nth(K, l) BY <1>1
<1>4. Nth(K, j) \in Nat /\ Nth(K, l) \in Nat BY <1>1, NumbersAreNumbers
<1>5. j # l BY NumbersAreFinite
<1> QED BY <1>2, <1>3, <1>4, <1>5

\* What is picked has an element for each number.
LEMMA PickedType ==
    ASSUME NEW X, NEW s \in Seq(X), NEW K \in SUBSET DOMAIN s
    PROVE  /\ Picked(s, K) \in Seq(X) /\ Len(Picked(s, K)) = Cardinality(K)
           /\ Cardinality(K) \in Nat
           /\ \A j \in 1..Cardinality(K) : Nth(K, j) \in K /\ Picked(s, K)[j] = s[Nth(K, j)]
<1>1. Len(s) \in Nat /\ K \in SUBSET (1..Len(s)) BY LenProperties
<1>2. Cardinality(K) \in Nat BY <1>1, NumbersAreFinite
<1>3. \A j \in 1..Cardinality(K) : Nth(K, j) \in K BY <1>1, NthIs
<1>4. \A j \in 1..Cardinality(K) : s[Nth(K, j)] \in X BY <1>3, ElementOfSeq
<1> QED BY <1>2, <1>3, <1>4 DEF Picked

\* An element after all others goes to the end.
LEMMA PickedAppend ==
    ASSUME NEW X, NEW s \in Seq(X), NEW K \in SUBSET DOMAIN s, NEW i \in DOMAIN s,
           \A x \in K : x < i
    PROVE  Picked(s, K \cup {i}) = Append(Picked(s, K), s[i])
<1> DEFINE L == K \cup {i}
           m == Cardinality(K)
<1>1. Len(s) \in Nat /\ K \in SUBSET (1..Len(s)) /\ L \in SUBSET (1..Len(s)) BY LenProperties
<1>2. IsFiniteSet(K) /\ m \in Nat /\ i \notin K BY <1>1, NumbersAreFinite
<1>3. Cardinality(L) = m + 1 BY <1>2, FS_AddElement
<1>4. ASSUME NEW j \in 1..m PROVE Nth(L, j) = Nth(K, j)
  <2>1. Nth(K, j) \in K /\ Cardinality(UpTo(K, Nth(K, j))) = j BY <1>1, NthIs
  <2>2. UpTo(L, Nth(K, j)) = UpTo(K, Nth(K, j)) BY <1>1, <2>1 DEF UpTo
  <2>3. Nth(L, Cardinality(UpTo(L, Nth(K, j)))) = Nth(K, j)
    <3>1. Nth(K, j) \in L BY <2>1
    <3> HIDE DEF L
    <3> QED BY <1>1, <3>1, NthOf
  <2> QED BY <2>1, <2>2, <2>3
<1>5. Nth(L, m + 1) = i
  <2>1. UpTo(L, i) = L BY <1>1 DEF UpTo
  <2>2. i \in L OBVIOUS
  <2> HIDE DEF L
  <2> QED BY <1>1, <1>3, <2>1, <2>2, NthOf
<1>6. Picked(s, K) \in Seq(X) /\ Len(Picked(s, K)) = m BY PickedType
<1>7. Picked(s, L) = [j \in 1..(m + 1) |-> s[Nth(L, j)]] BY <1>3 DEF Picked
<1>8. Picked(s, K) = [j \in 1..m |-> s[Nth(K, j)]] BY DEF Picked
<1>9. s[i] \in X BY ElementOfSeq
<1> HIDE DEF L, m
<1>10. /\ Append(Picked(s, K), s[i]) \in Seq(X) /\ Len(Append(Picked(s, K), s[i])) = m + 1
       /\ \A j \in 1..m : Append(Picked(s, K), s[i])[j] = Picked(s, K)[j]
       /\ Append(Picked(s, K), s[i])[m + 1] = s[i]
  BY <1>2, <1>6, <1>9, AppendProperties
<1>11. Picked(s, L) \in Seq(X) /\ Len(Picked(s, L)) = m + 1
  <2>1. L \in SUBSET DOMAIN s BY DEF L
  <2> QED BY <1>3, <2>1, PickedType
<1>12. ASSUME NEW j \in 1..(m + 1) PROVE Picked(s, L)[j] = Append(Picked(s, K), s[i])[j]
  <2>1. CASE j = m + 1 BY <1>2, <1>5, <1>7, <1>10, <2>1
  <2>2. CASE j # m + 1
    <3>1. j \in 1..m BY <1>2, <2>2
    <3>2. Picked(s, L)[j] = s[Nth(L, j)] BY <1>7
    <3>3. Picked(s, K)[j] = s[Nth(K, j)] BY <1>8, <3>1
    <3>4. Append(Picked(s, K), s[i])[j] = Picked(s, K)[j] BY <1>10, <3>1
    <3> QED BY <1>4, <3>1, <3>2, <3>3, <3>4
  <2> QED BY <2>1, <2>2
<1>13. Picked(s, L) = Append(Picked(s, K), s[i]) BY <1>10, <1>11, <1>12, SeqEqual
<1> QED BY <1>13 DEF L

\* A sequence is all but its last element, and that.
LEMMA LastGoesToTheEnd ==
    ASSUME NEW X, NEW m \in Nat, NEW G \in [1..(m + 1) -> X]
    PROVE  G = Append([k \in 1..m |-> G[k]], G[m + 1])
<1> DEFINE front == [k \in 1..m |-> G[k]]
<1>1. m + 1 \in 1..(m + 1) /\ \A k \in 1..m : k \in 1..(m + 1) OBVIOUS
<1>2. front \in Seq(X) /\ Len(front) = m /\ G \in Seq(X) /\ Len(G) = m + 1 /\ G[m + 1] \in X BY <1>1
<1>3. \A k \in 1..m : front[k] = G[k] OBVIOUS
<1> HIDE DEF front
<1>4. /\ Append(front, G[m + 1]) \in Seq(X) /\ Len(Append(front, G[m + 1])) = m + 1
      /\ \A k \in 1..m : Append(front, G[m + 1])[k] = front[k]
      /\ Append(front, G[m + 1])[m + 1] = G[m + 1]
  BY <1>2, AppendProperties
<1>5. ASSUME NEW k \in 1..(m + 1) PROVE G[k] = Append(front, G[m + 1])[k]
  <2>1. CASE k = m + 1 BY <1>4, <2>1
  <2>2. CASE k # m + 1
    <3>1. k \in 1..m BY <2>2
    <3> QED BY <1>3, <1>4, <3>1
  <2> QED BY <2>1, <2>2
<1>6. G = Append(front, G[m + 1]) BY <1>2, <1>4, <1>5, SeqEqual
<1> QED BY <1>6 DEF front

\* All of them are the sequence.
LEMMA PickedAll ==
    ASSUME NEW X, NEW s \in Seq(X) PROVE Picked(s, DOMAIN s) = s
<1>1. Len(s) \in Nat /\ DOMAIN s = 1..Len(s) BY LenProperties
<1>2. Cardinality(1..Len(s)) = Len(s) BY <1>1, FS_Interval
<1>3. ASSUME NEW j \in 1..Len(s) PROVE Nth(1..Len(s), j) = j
  <2>1. UpTo(1..Len(s), j) = 1..j BY <1>1 DEF UpTo
  <2>2. Cardinality(1..j) = j BY FS_Interval
  <2>3. 1..Len(s) \in SUBSET (1..Len(s)) OBVIOUS
  <2> QED BY <1>1, <2>1, <2>2, <2>3, NthOf
<1> QED BY <1>1, <1>2, <1>3 DEF Picked

-------------------------------------------------------------------------------
(* Functions defined step by step *)

Stepwise(g, n, x0, F) == g[0] = x0 /\ \A i \in 1..n : g[i] = F[<<g[i - 1], i>>]

\* A function that is given at 0 and by F from one number to the next exists.
LEMMA StepwiseExists ==
    ASSUME NEW n \in Nat, NEW X, NEW x0 \in X, NEW F \in [X \X (1..n) -> X]
    PROVE  \E g \in [0..n -> X] : Stepwise(g, n, x0, F)
<1> USE DEF Stepwise
<1> DEFINE Fits(m, g) == Stepwise(g, m, x0, F)
           M == {m \in 0..n : ~\E g \in [0..m -> X] : Fits(m, g)}
<1>1. SUFFICES ASSUME M # {} PROVE FALSE
  <2>1. n \in 0..n OBVIOUS
  <2>2. M = {} => \E g \in [0..n -> X] : Fits(n, g) BY <2>1
  <2> QED BY <2>2
<1>2. PICK m \in M : \A j \in M : m <= j
  <2>1. M \subseteq Nat OBVIOUS
  <2> HIDE DEF M
  <2> QED BY <1>1, <2>1, LeastExists
<1>3. m # 0
  <2>1. [i \in 0..0 |-> x0] \in [0..0 -> X] /\ Fits(0, [i \in 0..0 |-> x0]) OBVIOUS
  <2> QED BY <2>1
<1>4. PICK g \in [0..(m - 1) -> X] : Fits(m - 1, g) BY <1>2, <1>3
<1> DEFINE h == [i \in 0..m |-> IF i = m THEN F[<<g[m - 1], m>>] ELSE g[i]]
<1>5. h \in [0..m -> X] BY <1>2, <1>3, <1>4
<1>6. Fits(m, h)
  <2>1. m \in Nat /\ m - 1 \in Nat BY <1>2, <1>3
  <2>2. h[0] = x0 BY <1>3, <1>4, <2>1
  <2>3. ASSUME NEW i \in 1..m PROVE h[i] = F[<<h[i - 1], i>>]
    <3>1. i - 1 \in 0..m /\ i - 1 # m /\ h[i - 1] = g[i - 1] BY <2>1
    <3>2. CASE i = m BY <3>1, <3>2
    <3>3. CASE i # m
      <4>1. i \in 1..(m - 1) BY <2>1, <3>3
      <4> QED BY <1>4, <3>1, <3>3, <4>1
    <3> QED BY <3>2, <3>3
  <2> QED BY <2>2, <2>3
<1> QED BY <1>2, <1>5, <1>6

-------------------------------------------------------------------------------
(* The days and their anchors *)

Point == [metres : Int, seconds : Nat]

\* The positions of a day, by time.
IsDay(ps) ==
    /\ ps \in Seq(Point) /\ ps # <<>>
    /\ \A i, j \in DOMAIN ps : i <= j => ps[i].seconds <= ps[j].seconds

\* The distance of two points.
LEMMA DistanceType ==
    ASSUME NEW p \in Point, NEW q \in Point
    PROVE  Distance(p, q) \in Nat /\ Distance(p, p) = 0
BY DEF Distance, Point

\* The anchors are what their definition says: each is that of the position
\* before, or the position itself.
LEMMA AnchorAtIs ==
    ASSUME NEW ps, IsDay(ps)
    PROVE  /\ AnchorAt(ps) \in [1..Len(ps) -> 1..Len(ps)] /\ AnchorAt(ps)[1] = 1
           /\ \A i \in 2..Len(ps) : AnchorAt(ps)[i] =
                IF Distance(ps[AnchorAt(ps)[i - 1]], ps[i]) > StopRadius THEN i ELSE AnchorAt(ps)[i - 1]
<1> DEFINE n == Len(ps)
           Rec(g) == g = [i \in DOMAIN ps |->
                            IF i = 1 THEN 1
                            ELSE LET before == g[i - 1]
                                 IN  IF Distance(ps[before], ps[i]) > StopRadius THEN i ELSE before]
           F == [z \in (1..n) \X (1..(n - 1)) |->
                   IF Distance(ps[z[1]], ps[z[2] + 1]) > StopRadius THEN z[2] + 1 ELSE z[1]]
<1>1. n \in Nat /\ n > 0 /\ DOMAIN ps = 1..n /\ n - 1 \in Nat /\ 1 \in 1..n
  BY LenProperties, EmptySeq DEF IsDay
<1>2. AnchorAt(ps) = CHOOSE g : Rec(g) BY Zenon DEF AnchorAt
<1>3. F \in [(1..n) \X (1..(n - 1)) -> 1..n]
  <2>1. ASSUME NEW z \in (1..n) \X (1..(n - 1)) PROVE z[1] \in 1..n /\ z[2] + 1 \in 1..n
    BY <1>1
  <2> QED BY <2>1
<1>4. PICK g \in [0..(n - 1) -> 1..n] : g[0] = 1 /\ \A i \in 1..(n - 1) : g[i] = F[<<g[i - 1], i>>]
  <2> HIDE DEF F, n
  <2>1. \E g \in [0..(n - 1) -> 1..n] : Stepwise(g, n - 1, 1, F) BY <1>1, <1>3, StepwiseExists
  <2> QED BY <2>1 DEF Stepwise
<1> DEFINE h == [i \in 1..n |-> g[i - 1]]
<1>5. ASSUME NEW i \in 1..n, i # 1
      PROVE  h[i] = IF Distance(ps[h[i - 1]], ps[i]) > StopRadius THEN i ELSE h[i - 1]
  <2>1. i - 1 \in 1..(n - 1) /\ i - 1 \in 1..n /\ (i - 1) + 1 = i /\ (i - 1) - 1 \in 0..(n - 1)
    BY <1>1, <1>5
  <2>2. g[i - 1] = F[<<g[(i - 1) - 1], i - 1>>] BY <1>4, <2>1
  <2>3. g[(i - 1) - 1] \in 1..n BY <1>4, <2>1
  <2>4. F[<<g[(i - 1) - 1], i - 1>>] =
           IF Distance(ps[g[(i - 1) - 1]], ps[(i - 1) + 1]) > StopRadius
             THEN (i - 1) + 1 ELSE g[(i - 1) - 1]
    BY <2>1, <2>3
  <2>5. h[i - 1] = g[(i - 1) - 1] /\ h[i] = g[i - 1] BY <2>1
  <2> QED BY <2>1, <2>2, <2>4, <2>5
<1>6. h[1] = 1 BY <1>1, <1>4
<1>7. h = [i \in 1..n |-> IF i = 1 THEN 1
                         ELSE IF Distance(ps[h[i - 1]], ps[i]) > StopRadius THEN i ELSE h[i - 1]]
  <2> HIDE DEF n
  <2> QED BY <1>5, <1>6
<1>8. Rec(h)
  <2> HIDE DEF h, n
  <2> QED BY <1>1, <1>7
<1>9. PICK A : A = AnchorAt(ps) /\ Rec(A)
  <2> HIDE DEF Rec
  <2> QED BY <1>2, <1>8
<1>10. A[1] = 1 /\ DOMAIN A = 1..n /\ \A i \in 2..n : A[i] =
          IF Distance(ps[A[i - 1]], ps[i]) > StopRadius THEN i ELSE A[i - 1]
  <2>1. A = [i \in 1..n |-> IF i = 1 THEN 1
                            ELSE IF Distance(ps[A[i - 1]], ps[i]) > StopRadius THEN i ELSE A[i - 1]]
    BY <1>1, <1>9
  <2>2. A[1] = 1 /\ DOMAIN A = 1..n
    <3> HIDE DEF n, Rec
    <3> QED BY <1>1, <2>1
  <2>3. ASSUME NEW i \in 2..n
        PROVE  A[i] = IF Distance(ps[A[i - 1]], ps[i]) > StopRadius THEN i ELSE A[i - 1]
    <3>1. i \in 1..n /\ i # 1 BY <1>1
    <3> HIDE DEF n, Rec
    <3> QED BY <2>1, <3>1
  <2> QED BY <2>2, <2>3
<1>11. \A i \in 1..n : A[i] \in 1..n
  <2> DEFINE Wrong == {i \in 1..n : A[i] \notin 1..n}
  <2>1. SUFFICES ASSUME Wrong # {} PROVE FALSE
    OBVIOUS
  <2>2. PICK i \in Wrong : \A j \in Wrong : i <= j
    <3>1. Wrong \subseteq Nat OBVIOUS
    <3> HIDE DEF Wrong
    <3> QED BY <2>1, <3>1, LeastExists
  <2>3. i \in 2..n /\ i - 1 \in 1..n BY <1>1, <1>10, <2>2
  <2>4. A[i - 1] \in 1..n BY <2>2, <2>3
  <2> QED BY <1>10, <2>2, <2>3, <2>4
<1>12. A = [i \in DOMAIN A |-> A[i]] BY <1>9
<1> QED BY <1>9, <1>10, <1>11, <1>12

\* An anchor is not after its position.
LEMMA AnchorIsBefore ==
    ASSUME NEW ps, IsDay(ps), NEW i \in 1..Len(ps) PROVE AnchorAt(ps)[i] \in 1..i
<1> DEFINE n == Len(ps)
           A == AnchorAt(ps)
           Wrong == {j \in 1..n : A[j] \notin 1..j}
<1>1. n \in Nat BY LenProperties DEF IsDay
<1>2. A \in [1..n -> 1..n] /\ A[1] = 1 /\ \A j \in 2..n : A[j] = j \/ A[j] = A[j - 1]
  BY AnchorAtIs
<1>3. SUFFICES ASSUME Wrong # {} PROVE FALSE
  OBVIOUS
<1> HIDE DEF A, n
<1>4. PICK k \in Wrong : \A j \in Wrong : k <= j
  <2>1. Wrong \subseteq Nat OBVIOUS
  <2> HIDE DEF Wrong
  <2> QED BY <1>3, <2>1, LeastExists
<1>5. k \in 2..n /\ k - 1 \in 1..n BY <1>1, <1>2, <1>4
<1>6. A[k - 1] \in 1..(k - 1) BY <1>4, <1>5
<1> QED BY <1>2, <1>4, <1>5, <1>6

-------------------------------------------------------------------------------
(* The trips, position by position *)

\* The trips as far as the positions up to i make them: the number of the one
\* under way, the positions of each, and whether the vehicle has stopped.
From(ps, k) == IF k = 1 THEN 1 ELSE Nth(StartsAfterStop(ps), k - 1)
Visited(ps, k, to) ==
    {x \in DOMAIN ps : x = From(ps, k) - 1}
      \cup {x \in Anchors(ps) : From(ps, k) <= x /\ x < to}
Started(ps, i) == Cardinality(UpTo(StartsAfterStop(ps), i))
TripsAfter(ps, i) ==
    [k \in 1..Started(ps, i) |-> Picked(ps, Visited(ps, k, Nth(StartsAfterStop(ps), k)))]
TripAfter(ps, i) == Picked(ps, Visited(ps, Started(ps, i) + 1, i + 1))
StoppedAt(ps, i) ==
    \/ \E j \in (AnchorAt(ps)[i] + 1)..i : ps[j].seconds - ps[j - 1].seconds >= StopDuration
    \/ ps[i].seconds - ps[AnchorAt(ps)[i]].seconds >= StopDuration

AfterPosition(ps, i) ==
    [trips |-> TripsAfter(ps, i), trip |-> TripAfter(ps, i), anchor |-> ps[AnchorAt(ps)[i]],
     lastNearAnchor |-> ps[i], last |-> ps[i], stopped |-> StoppedAt(ps, i)]

\* What a day has.
LEMMA DayHas ==
    ASSUME NEW ps, IsDay(ps)
    PROVE  /\ ps \in Seq(Point) /\ Len(ps) \in Nat /\ Len(ps) > 0 /\ DOMAIN ps = 1..Len(ps)
           /\ \A i \in 1..Len(ps) : ps[i] \in Point
           /\ Anchors(ps) \in SUBSET (1..Len(ps)) /\ 1 \in Anchors(ps)
           /\ StartsAfterStop(ps) \in SUBSET (1..Len(ps)) /\ 1 \notin StartsAfterStop(ps)
           /\ StartsAfterStop(ps) \subseteq Anchors(ps)
<1>1. ps \in Seq(Point) /\ Len(ps) \in Nat /\ Len(ps) > 0 /\ DOMAIN ps = 1..Len(ps)
  BY LenProperties, EmptySeq DEF IsDay
<1>2. \A i \in 1..Len(ps) : ps[i] \in Point BY <1>1, ElementOfSeq
<1>3. AnchorAt(ps)[1] = 1 BY AnchorAtIs
<1> QED BY <1>1, <1>2, <1>3 DEF Anchors, StartsAfterStop

\* The numbers a trip visits are numbers of positions.
LEMMA VisitedInDay ==
    ASSUME NEW ps, IsDay(ps), NEW k, NEW to PROVE Visited(ps, k, to) \in SUBSET DOMAIN ps
BY DayHas DEF Visited

\* Before the first position there is the first.
LEMMA AfterFirst ==
    ASSUME NEW ps, IsDay(ps)
    PROVE  AfterPosition(ps, 1) = [trips |-> <<>>, trip |-> <<ps[1]>>, anchor |-> ps[1],
                                   lastNearAnchor |-> ps[1], last |-> ps[1], stopped |-> FALSE]
<1> DEFINE S == StartsAfterStop(ps)
<1>1. UpTo(S, 1) = {}
  <2>1. \A x \in S : ~(x <= 1) BY DayHas
  <2> QED BY <2>1 DEF UpTo
<1>2. Started(ps, 1) = 0 BY <1>1, FS_EmptySet DEF Started
<1>3. TripsAfter(ps, 1) = <<>> BY <1>2 DEF TripsAfter
<1>4. Visited(ps, 1, 2) = {} \cup {1}
  <2>1. From(ps, 1) = 1 BY DEF From
  <2>2. \A x \in DOMAIN ps : x # 0 BY DayHas
  <2>3. \A x \in Anchors(ps) : 1 <= x /\ x < 2 <=> x = 1 BY DayHas
  <2>4. 1 \in Anchors(ps) BY DayHas
  <2> QED BY <2>1, <2>2, <2>3, <2>4 DEF Visited
<1>5. Picked(ps, {}) = <<>>
  <2>1. Cardinality({}) = 0 BY FS_EmptySet
  <2> QED BY <2>1 DEF Picked
<1>6. TripAfter(ps, 1) = <<ps[1]>>
  <2>1. 1 \in DOMAIN ps /\ ps \in Seq(Point) /\ {} \in SUBSET DOMAIN ps BY DayHas
  <2>2. Picked(ps, {} \cup {1}) = Append(Picked(ps, {}), ps[1]) BY <2>1, PickedAppend
  <2>3. Append(<<>>, ps[1]) = <<ps[1]>> OBVIOUS
  <2>4. TripAfter(ps, 1) = Picked(ps, Visited(ps, 1, 2)) BY <1>2 DEF TripAfter
  <2> QED BY <1>4, <1>5, <2>2, <2>3, <2>4
<1>7. AnchorAt(ps)[1] = 1 BY AnchorAtIs
<1>8. StoppedAt(ps, 1) = FALSE
  <2>1. ps[1].seconds \in Nat BY DayHas DEF Point
  <2>2. ~(ps[1].seconds - ps[1].seconds >= StopDuration) BY <2>1 DEF StopDuration
  <2>3. (1 + 1)..1 = {} OBVIOUS
  <2> QED BY <1>7, <2>2, <2>3 DEF StoppedAt
<1> QED BY <1>3, <1>6, <1>7, <1>8 DEF AfterPosition

\* The trip under way began at a position that is not later.
LEMMA FromIsBefore ==
    ASSUME NEW ps, IsDay(ps), NEW i \in 1..Len(ps)
    PROVE  Started(ps, i) \in Nat /\ From(ps, Started(ps, i) + 1) \in 1..i
<1> DEFINE S == StartsAfterStop(ps)
           m == Started(ps, i)
<1>1. Len(ps) \in Nat /\ S \in SUBSET (1..Len(ps)) BY DayHas
<1>2. m \in Nat /\ m <= Cardinality(S) /\ Cardinality(S) \in Nat
  <2>1. UpTo(S, i) \in SUBSET S BY DEF UpTo
  <2>2. IsFiniteSet(S) /\ Cardinality(S) \in Nat BY <1>1, NumbersAreFinite
  <2> QED BY <2>1, <2>2, FS_Subset, FS_CardinalityType DEF Started
<1>3. CASE m = 0 BY <1>3 DEF From
<1>4. CASE m # 0
  <2>1. m \in 1..Cardinality(S) BY <1>2, <1>4
  <2>2. Nth(S, m) \in S /\ Cardinality(UpTo(S, Nth(S, m))) = m BY <1>1, <2>1, NthIs
  <2>3. ~(i < Nth(S, m))
    <3> HIDE DEF S
    <3>1. i < Nth(S, m) => Cardinality(UpTo(S, i)) < Cardinality(UpTo(S, Nth(S, m)))
      <4>1. i \in Int OBVIOUS
      <4> QED BY <1>1, <2>2, <4>1, CountRises
    <3> QED BY <1>2, <2>2, <3>1 DEF Started, S
  <2>4. Nth(S, m) \in Nat /\ 1 <= Nth(S, m) BY <1>1, <2>2, NumbersAreNumbers
  <2>5. From(ps, m + 1) = Nth(S, m) BY <1>2, <1>4 DEF From
  <2> QED BY <1>2, <2>3, <2>4, <2>5
<1> QED BY <1>2, <1>3, <1>4

\* An anchor goes on with the trip, or begins one after the position before it.
LEMMA TripsGrow ==
    ASSUME NEW ps, IsDay(ps), NEW i \in 2..Len(ps), i \in Anchors(ps)
    PROVE  /\ TripsAfter(ps, i) = IF i \in StartsAfterStop(ps)
                                    THEN Append(TripsAfter(ps, i - 1), TripAfter(ps, i - 1))
                                    ELSE TripsAfter(ps, i - 1)
           /\ TripAfter(ps, i) =
                Append(IF i \in StartsAfterStop(ps) THEN <<ps[i - 1]>> ELSE TripAfter(ps, i - 1), ps[i])
<1> DEFINE S == StartsAfterStop(ps)
           m == Started(ps, i - 1)
<1>1. /\ i \in Nat /\ i \in 1..Len(ps) /\ i - 1 \in 1..Len(ps) /\ i - 1 \in Nat /\ (i - 1) + 1 = i
      /\ DOMAIN ps = 1..Len(ps) /\ Len(ps) \in Nat /\ S \in SUBSET (1..Len(ps))
      /\ ps \in Seq(Point) /\ Anchors(ps) \in SUBSET (1..Len(ps))
  BY DayHas
<1>2. m \in Nat /\ From(ps, m + 1) \in 1..(i - 1) BY <1>1, FromIsBefore
<1>3. Started(ps, i) = IF i \in S THEN m + 1 ELSE m
  <2> DEFINE h == i - 1
  <2>1. h \in Nat /\ h + 1 = i BY <1>1
  <2> HIDE DEF h, S
  <2>2. Cardinality(UpTo(S, h + 1)) =
             IF h + 1 \in S THEN Cardinality(UpTo(S, h)) + 1 ELSE Cardinality(UpTo(S, h))
    BY <1>1, <2>1, CountGrows
  <2> QED BY <2>1, <2>2 DEF Started, S, h
<1>4. CASE i \in S
  <2>1. Cardinality(UpTo(S, i)) = m + 1 BY <1>3, <1>4 DEF Started
  <2>2. Nth(S, m + 1) = i BY <1>1, <1>4, <2>1, NthOf
  <2> DEFINE G == [k \in 1..(m + 1) |-> Picked(ps, Visited(ps, k, Nth(S, k)))]
  <2>3. G \in [1..(m + 1) -> Seq(Point)]
    <3>1. \A k \in 1..(m + 1) : Picked(ps, Visited(ps, k, Nth(S, k))) \in Seq(Point)
      BY <1>1, VisitedInDay, PickedType
    <3> QED BY <3>1
  <2>4. TripsAfter(ps, i) = G BY <1>3, <1>4 DEF TripsAfter
  <2>5. TripsAfter(ps, i - 1) = [k \in 1..m |-> G[k]] BY <1>2 DEF TripsAfter
  <2>6. TripAfter(ps, i - 1) = G[m + 1] BY <1>1, <1>2, <2>2 DEF TripAfter
  <2>7. TripsAfter(ps, i) = Append(TripsAfter(ps, i - 1), TripAfter(ps, i - 1))
    <3> HIDE DEF G, m
    <3> QED BY <1>2, <2>3, <2>4, <2>5, <2>6, LastGoesToTheEnd
  <2>8. Visited(ps, (m + 1) + 1, i + 1) = ({} \cup {i - 1}) \cup {i}
    <3>1. From(ps, (m + 1) + 1) = i BY <1>2, <2>2 DEF From
    <3>2. \A x \in Anchors(ps) : i <= x /\ x < i + 1 <=> x = i BY <1>1
    <3> QED BY <1>1, <3>1, <3>2 DEF Visited
  <2>9. TripAfter(ps, i) = Picked(ps, ({} \cup {i - 1}) \cup {i}) BY <1>3, <1>4, <2>8 DEF TripAfter
  <2>10. Picked(ps, ({} \cup {i - 1}) \cup {i}) = Append(Picked(ps, {} \cup {i - 1}), ps[i])
    <3>1. {} \cup {i - 1} \in SUBSET DOMAIN ps /\ \A x \in {} \cup {i - 1} : x < i BY <1>1
    <3> QED BY <1>1, <3>1, PickedAppend
  <2>11. Picked(ps, {} \cup {i - 1}) = <<ps[i - 1]>>
    <3>1. Picked(ps, {}) = <<>>
      <4>1. Cardinality({}) = 0 BY FS_EmptySet
      <4> QED BY <4>1 DEF Picked
    <3>2. Picked(ps, {} \cup {i - 1}) = Append(Picked(ps, {}), ps[i - 1])
      <4>1. {} \in SUBSET DOMAIN ps OBVIOUS
      <4> QED BY <1>1, <4>1, PickedAppend
    <3>3. Append(<<>>, ps[i - 1]) = <<ps[i - 1]>> OBVIOUS
    <3> QED BY <3>1, <3>2, <3>3
  <2> QED BY <1>4, <2>7, <2>9, <2>10, <2>11
<1>5. CASE i \notin S
  <2>1. Started(ps, i) = m BY <1>3, <1>5
  <2>2. TripsAfter(ps, i) = TripsAfter(ps, i - 1) BY <2>1 DEF TripsAfter
  <2> DEFINE V == Visited(ps, m + 1, i)
  <2>3. Visited(ps, m + 1, i + 1) = V \cup {i}
    <3>1. \A x \in Anchors(ps) : x < i + 1 <=> x < i \/ x = i BY <1>1
    <3>2. From(ps, m + 1) <= i BY <1>1, <1>2
    <3>3. {x \in Anchors(ps) : From(ps, m + 1) <= x /\ x < i + 1}
            = {x \in Anchors(ps) : From(ps, m + 1) <= x /\ x < i} \cup {i}
      BY <3>1, <3>2
    <3> QED BY <3>3 DEF Visited
  <2>4. V \in SUBSET DOMAIN ps BY VisitedInDay
  <2>5. \A x \in V : x < i BY <1>1, <1>2 DEF Visited
  <2>6. TripAfter(ps, i - 1) = Picked(ps, V) BY <1>1 DEF TripAfter
  <2>7. TripAfter(ps, i) = Picked(ps, V \cup {i}) BY <2>1, <2>3 DEF TripAfter
  <2> HIDE DEF V
  <2>8. Picked(ps, V \cup {i}) = Append(Picked(ps, V), ps[i]) BY <1>1, <2>4, <2>5, PickedAppend
  <2> QED BY <1>5, <2>2, <2>6, <2>7, <2>8
<1> QED BY <1>4, <1>5

\* One turn of the loop makes of the trips so far those with one position more.
LEMMA AfterNext ==
    ASSUME NEW ps, IsDay(ps), NEW i \in 2..Len(ps)
    PROVE  AfterPosition(ps, i) = NextPosition(AfterPosition(ps, i - 1), ps[i])
<1> DEFINE S == StartsAfterStop(ps)
           A == AnchorAt(ps)
           anchor == A[i - 1]
           before == AfterPosition(ps, i - 1)
           near == Distance(ps[anchor], ps[i]) <= StopRadius
           stopped == \/ StoppedAt(ps, i - 1)
                      \/ ps[i].seconds - ps[i - 1].seconds >= StopDuration
                      \/ near /\ ps[i].seconds - ps[anchor].seconds >= StopDuration
<1>1. /\ i \in Nat /\ i \in 1..Len(ps) /\ i - 1 \in 1..Len(ps) /\ i - 1 \in Nat /\ (i - 1) + 1 = i
      /\ DOMAIN ps = 1..Len(ps)
  BY DayHas
<1>2. anchor \in 1..(i - 1) /\ anchor \in 1..Len(ps) BY <1>1, AnchorIsBefore
<1>3. ps[i] \in Point /\ ps[i - 1] \in Point /\ ps[anchor] \in Point BY <1>1, <1>2, DayHas
<1>4. Distance(ps[anchor], ps[i]) \in Nat BY <1>3, DistanceType
<1>5. A[i] = IF near THEN anchor ELSE i
  <2>1. A[i] = IF Distance(ps[anchor], ps[i]) > StopRadius THEN i ELSE anchor BY AnchorAtIs
  <2>2. near <=> ~(Distance(ps[anchor], ps[i]) > StopRadius) BY <1>4 DEF StopRadius
  <2> QED BY <2>1, <2>2
<1>6. i \in Anchors(ps) <=> ~near BY <1>1, <1>2, <1>5 DEF Anchors
<1>7. i \in S <=> ~near /\ stopped
  <2>1. i \in S <=> i \in Anchors(ps) /\ StopBetween(ps, anchor, i) BY <1>1 DEF StartsAfterStop
  <2>2. ASSUME ~near PROVE StopBetween(ps, anchor, i) <=> stopped
    <3>1. \A j : j \in (anchor + 1)..i <=> j \in (anchor + 1)..(i - 1) \/ j = i BY <1>1, <1>2
    <3> QED BY <2>2, <3>1 DEF StopBetween, StoppedAt
  <2> QED BY <1>6, <2>1, <2>2
<1>8. Started(ps, i - 1) \in Nat
      /\ Started(ps, i) = IF i \in S THEN Started(ps, i - 1) + 1 ELSE Started(ps, i - 1)
  <2> DEFINE h == i - 1
  <2>1. h \in Nat /\ h + 1 = i /\ S \in SUBSET (1..Len(ps)) /\ Len(ps) \in Nat BY <1>1, DayHas
  <2> HIDE DEF h, S
  <2>2. /\ Cardinality(UpTo(S, h)) \in Nat
        /\ Cardinality(UpTo(S, h + 1)) =
             IF h + 1 \in S THEN Cardinality(UpTo(S, h)) + 1 ELSE Cardinality(UpTo(S, h))
    BY <2>1, CountGrows
  <2> QED BY <2>1, <2>2 DEF Started, S, h
<1>9. CASE near
  <2>1. A[i] = anchor /\ i \notin S /\ i \notin Anchors(ps) BY <1>5, <1>6, <1>7, <1>9
  <2>2. Started(ps, i) = Started(ps, i - 1) BY <1>8, <2>1
  <2>3. TripsAfter(ps, i) = TripsAfter(ps, i - 1) BY <2>2 DEF TripsAfter
  <2>4. TripAfter(ps, i) = TripAfter(ps, i - 1)
    <3>1. \A x \in Anchors(ps) : x < i + 1 <=> x < (i - 1) + 1 BY <1>1, <2>1, DayHas
    <3>2. Visited(ps, Started(ps, i) + 1, i + 1) = Visited(ps, Started(ps, i) + 1, (i - 1) + 1)
      BY <3>1 DEF Visited
    <3> QED BY <2>2, <3>2 DEF TripAfter
  <2>5. StoppedAt(ps, i) <=> stopped
    <3>1. \A j : j \in (anchor + 1)..i <=> j \in (anchor + 1)..(i - 1) \/ j = i BY <1>1, <1>2
    <3>2. ps[i - 1].seconds <= ps[i].seconds BY <1>1 DEF IsDay
    <3>3. ps[i - 1].seconds - ps[anchor].seconds >= StopDuration
            => ps[i].seconds - ps[anchor].seconds >= StopDuration
      BY <1>3, <3>2 DEF StopDuration, Point
    <3> QED BY <1>9, <2>1, <3>1, <3>3 DEF StoppedAt
  <2>6. StoppedAt(ps, i) = stopped
    <3>1. StoppedAt(ps, i) \in BOOLEAN /\ stopped \in BOOLEAN BY Zenon DEF StoppedAt
    <3> QED BY <2>5, <3>1
  <2>7. NextPosition(before, ps[i]) =
          [before EXCEPT !.last = ps[i], !.lastNearAnchor = ps[i], !.stopped = stopped]
    BY <1>9 DEF NextPosition, AfterPosition
  <2> HIDE DEF stopped
  <2> QED BY <2>1, <2>3, <2>4, <2>6, <2>7 DEF AfterPosition
<1>10. CASE ~near
  <2>1. A[i] = i /\ i \in Anchors(ps) /\ (i \in S <=> stopped) BY <1>5, <1>6, <1>7, <1>10
  <2>2. StoppedAt(ps, i) = FALSE
    <3>1. ~(ps[i].seconds - ps[i].seconds >= StopDuration) BY <1>3 DEF StopDuration, Point
    <3>2. (i + 1)..i = {} BY <1>1
    <3> QED BY <2>1, <3>1, <3>2 DEF StoppedAt
  <2>3. NextPosition(before, ps[i]) =
          [trips |-> IF stopped THEN Append(before.trips, before.trip) ELSE before.trips,
           trip |-> Append(IF stopped THEN <<before.lastNearAnchor>> ELSE before.trip, ps[i]),
           anchor |-> ps[i], lastNearAnchor |-> ps[i], last |-> ps[i], stopped |-> FALSE]
    BY <1>10 DEF NextPosition, AfterPosition
  <2>4. /\ before.trips = TripsAfter(ps, i - 1) /\ before.trip = TripAfter(ps, i - 1)
        /\ before.lastNearAnchor = ps[i - 1]
    BY DEF AfterPosition
  <2>5. /\ TripsAfter(ps, i) = IF i \in S THEN Append(TripsAfter(ps, i - 1), TripAfter(ps, i - 1))
                                        ELSE TripsAfter(ps, i - 1)
        /\ TripAfter(ps, i) = Append(IF i \in S THEN <<ps[i - 1]>> ELSE TripAfter(ps, i - 1), ps[i])
    BY <1>1, <1>6, <1>7, <1>8, <1>10, <2>1, TripsGrow
  <2> HIDE DEF stopped, before
  <2>6. NextPosition(before, ps[i]) =
          [trips |-> TripsAfter(ps, i), trip |-> TripAfter(ps, i), anchor |-> ps[i],
           lastNearAnchor |-> ps[i], last |-> ps[i], stopped |-> FALSE]
    <3>1. CASE stopped BY <2>1, <2>3, <2>4, <2>5, <3>1
    <3>2. CASE ~stopped BY <2>1, <2>3, <2>4, <2>5, <3>2
    <3> QED BY <3>1, <3>2
  <2>7. AnchorAt(ps)[i] = i BY <2>1
  <2> QED BY <2>2, <2>6, <2>7 DEF AfterPosition, before
<1> QED BY <1>9, <1>10

\* Splitting a day gives the trips as far as all positions make them.
LEMMA SplitIs ==
    ASSUME NEW ps, IsDay(ps)
    PROVE  SplitIntoTrips(ps) = Append(TripsAfter(ps, Len(ps)), TripAfter(ps, Len(ps)))
<1> DEFINE n == Len(ps)
           first == [trips |-> <<>>, trip |-> <<ps[1]>>, anchor |-> ps[1],
                     lastNearAnchor |-> ps[1], last |-> ps[1], stopped |-> FALSE]
           Rec(g) == g = [i \in DOMAIN ps |->
                            IF i = 1
                              THEN [trips |-> <<>>, trip |-> <<ps[1]>>, anchor |-> ps[1],
                                    lastNearAnchor |-> ps[1], last |-> ps[1], stopped |-> FALSE]
                              ELSE NextPosition(g[i - 1], ps[i])]
           h == [i \in 1..n |-> AfterPosition(ps, i)]
<1>1. n \in Nat /\ n > 0 /\ DOMAIN ps = 1..n BY DayHas
<1>2. \E after : after = (CHOOSE g : Rec(g))
                  /\ SplitIntoTrips(ps) = Append(after[Len(ps)].trips, after[Len(ps)].trip)
  BY Zenon DEF SplitIntoTrips
<1>3. Rec(h)
  <2>1. ASSUME NEW i \in 1..n
        PROVE  h[i] = IF i = 1 THEN first ELSE NextPosition(h[i - 1], ps[i])
    <3>1. CASE i = 1 BY <3>1, AfterFirst
    <3>2. CASE i # 1
      <4>1. i \in 2..n /\ i - 1 \in 1..n BY <1>1, <3>2
      <4>2. AfterPosition(ps, i) = NextPosition(AfterPosition(ps, i - 1), ps[i]) BY <4>1, AfterNext
      <4> QED BY <3>2, <4>1, <4>2
    <3> QED BY <3>1, <3>2
  <2>2. h = [i \in 1..n |-> IF i = 1 THEN first ELSE NextPosition(h[i - 1], ps[i])]
    <3> HIDE DEF first, n
    <3> QED BY <2>1
  <2> HIDE DEF h, n
  <2> QED BY <1>1, <2>2
<1>4. PICK g : g = (CHOOSE j : Rec(j)) /\ Rec(g)
  <2> HIDE DEF Rec
  <2> QED BY <1>3
<1>5. g = [i \in 1..n |-> IF i = 1 THEN first ELSE NextPosition(g[i - 1], ps[i])]
  <2> HIDE DEF n
  <2> QED BY <1>1, <1>4
<1>6. \A i \in 1..n : g[i] = AfterPosition(ps, i)
  <2> HIDE DEF first, n, Rec, h
  <2> DEFINE Differ == {i \in 1..n : g[i] # AfterPosition(ps, i)}
  <2>1. SUFFICES ASSUME Differ # {} PROVE FALSE
    OBVIOUS
  <2>2. PICK i \in Differ : \A j \in Differ : i <= j
    <3>1. Differ \subseteq Nat OBVIOUS
    <3> HIDE DEF Differ
    <3> QED BY <2>1, <3>1, LeastExists
  <2>3. i \in 1..n BY <2>2
  <2>4. CASE i = 1
    <3>1. g[i] = first BY <1>5, <2>3, <2>4
    <3> QED BY <2>2, <2>4, <3>1, AfterFirst DEF first
  <2>5. CASE i # 1
    <3>1. i \in 2..Len(ps) /\ i - 1 \in 1..n BY <1>1, <2>3, <2>5 DEF n
    <3>2. g[i] = NextPosition(g[i - 1], ps[i]) BY <1>5, <2>3, <2>5
    <3>3. g[i - 1] = AfterPosition(ps, i - 1)
      <4>1. i - 1 \notin Differ BY <1>1, <2>2, <2>3, <3>1
      <4> QED BY <3>1, <4>1
    <3>4. g[i] = AfterPosition(ps, i) BY <3>1, <3>2, <3>3, AfterNext
    <3> QED BY <2>2, <3>4
  <2> QED BY <2>4, <2>5
<1>7. g[Len(ps)] = AfterPosition(ps, Len(ps)) BY <1>1, <1>6
<1>8. SplitIntoTrips(ps) = Append(g[Len(ps)].trips, g[Len(ps)].trip)
  <2> HIDE DEF Rec
  <2> QED BY <1>2, <1>4
<1> QED BY <1>7, <1>8 DEF AfterPosition

\* A day is split at its stops and nowhere else.
LEMMA DayIsSplitAtStops ==
    ASSUME NEW ps, IsDay(ps)
    PROVE  TripsAreSplitAtStops(ps)
<1> DEFINE S == StartsAfterStop(ps)
           count == Cardinality(S) + 1
           to(k) == IF k = count THEN Len(ps) + 1 ELSE Nth(S, k)
           G == [k \in 1..count |-> Picked(ps, Visited(ps, k, to(k)))]
           m == Started(ps, Len(ps))
<1>1. Len(ps) \in Nat /\ S \in SUBSET (1..Len(ps)) /\ ps \in Seq(Point) BY DayHas
<1>2. m = Cardinality(S) /\ m \in Nat
  <2>1. \A x \in S : x <= Len(ps) BY <1>1, NumbersAreNumbers
  <2>2. UpTo(S, Len(ps)) = S BY <2>1 DEF UpTo
  <2> QED BY <1>1, <2>2, NumbersAreFinite DEF Started
<1>3. G \in [1..(m + 1) -> Seq(Point)]
  <2>1. \A k \in 1..count : Picked(ps, Visited(ps, k, to(k))) \in Seq(Point)
    BY <1>1, VisitedInDay, PickedType
  <2> QED BY <1>2, <2>1
<1>4. TripsAfter(ps, Len(ps)) = [k \in 1..m |-> G[k]]
  <2>1. ASSUME NEW k \in 1..m PROVE G[k] = Picked(ps, Visited(ps, k, Nth(S, k)))
    BY <1>2
  <2> HIDE DEF G, m
  <2> QED BY <2>1 DEF TripsAfter, m
<1>5. TripAfter(ps, Len(ps)) = G[m + 1] BY <1>2 DEF TripAfter
<1>6. SplitIntoTrips(ps) = G
  <2> HIDE DEF G, m
  <2>1. G = Append([k \in 1..m |-> G[k]], G[m + 1]) BY <1>2, <1>3, LastGoesToTheEnd
  <2> QED BY <1>4, <1>5, <2>1, SplitIs
<1> QED BY <1>6 DEF TripsAreSplitAtStops, Visited, From

-------------------------------------------------------------------------------
(* Chunks *)

\* Where the chunks of a trip begin and end.
ChunkStep == MaxCoordinates - 1
ChunkCount(trip) == (Len(trip) - 2) \div ChunkStep + 1
ChunkStart(k) == (k - 1) * ChunkStep + 1
ChunkEnd(trip, k) == IF k * ChunkStep + 1 <= Len(trip) THEN k * ChunkStep + 1 ELSE Len(trip)

\* A chunk ends where the next one starts, the last one where the trip ends.
LEMMA ChunksMeet ==
    ASSUME NEW trip \in Seq(Point), Len(trip) >= 2
    PROVE  /\ ChunkStep \in Nat /\ ChunkStep > 0 /\ ChunkCount(trip) \in Nat /\ ChunkCount(trip) > 0
           /\ \A k \in 1..ChunkCount(trip) :
                 /\ ChunkStart(k) \in 1..Len(trip) /\ ChunkEnd(trip, k) \in 1..Len(trip)
                 /\ ChunkStart(k) < ChunkEnd(trip, k)
                 /\ ChunkEnd(trip, k) - ChunkStart(k) + 1 <= MaxCoordinates
                 /\ k < ChunkCount(trip) => ChunkEnd(trip, k) = ChunkStart(k + 1)
           /\ ChunkStart(1) = 1 /\ ChunkEnd(trip, ChunkCount(trip)) = Len(trip)
<1> DEFINE step == ChunkStep
           L == Len(trip)
           q == (L - 2) \div step
<1>1. step \in Nat /\ step > 0 /\ L \in Nat /\ L >= 2
  BY RoutesAssumption, LenProperties DEF ChunkStep
<1> HIDE DEF step, L
<1>2. L - 2 \in Nat BY <1>1
<1>3. q \in Nat /\ q * step <= L - 2 /\ L - 2 < q * step + step
  <2>1. q \in Nat BY <1>1, <1>2
  <2>2. q * step <= L - 2 BY <1>1, <1>2
  <2>3. L - 2 < q * step + step BY <1>1, <1>2
  <2> QED BY <2>1, <2>2, <2>3
<1> HIDE DEF q
<1>4. ChunkCount(trip) = q + 1 BY DEF ChunkCount, q, step, L
<1>5. ASSUME NEW k \in 1..(q + 1)
      PROVE  /\ ChunkStart(k) \in 1..L /\ ChunkEnd(trip, k) \in 1..L
             /\ ChunkStart(k) < ChunkEnd(trip, k)
             /\ ChunkEnd(trip, k) - ChunkStart(k) + 1 <= step + 1
             /\ k < q + 1 => ChunkEnd(trip, k) = ChunkStart(k + 1)
             /\ k = q + 1 => ChunkEnd(trip, k) = L
  <2> DEFINE j == k - 1
  <2>1. j \in Nat /\ j <= q /\ k = j + 1 BY <1>3
  <2> HIDE DEF j
  <2>2. j * step \in Nat /\ j * step <= q * step /\ q * step \in Nat /\ (j + 1) * step = j * step + step
    BY <1>1, <1>3, <2>1
  <2>3. j < q => j * step + step <= q * step BY <1>1, <1>3, <2>1
  <2>4. ChunkStart(k) = j * step + 1 /\ ChunkStart(k + 1) = j * step + step + 1
    <3>1. k - 1 = j /\ (k + 1) - 1 = j + 1 BY <2>1
    <3> QED BY <2>2, <3>1 DEF ChunkStart, step
  <2>5. ChunkEnd(trip, k) = IF j * step + step + 1 <= L THEN j * step + step + 1 ELSE L
    BY <2>1, <2>2 DEF ChunkEnd, step, L
  <2> DEFINE x == j * step
             y == q * step
  <2>6. x \in Nat /\ y \in Nat /\ x <= y /\ y <= L - 2 /\ L - 2 < y + step /\ (j < q => x + step <= y)
    BY <1>3, <2>2, <2>3
  <2>7. j = q => x = y OBVIOUS
  <2>8. ChunkStart(k) = x + 1 /\ ChunkStart(k + 1) = x + step + 1
        /\ ChunkEnd(trip, k) = IF x + step + 1 <= L THEN x + step + 1 ELSE L
    BY <2>4, <2>5
  <2> HIDE DEF x, y
  <2> QED BY <1>1, <1>3, <2>1, <2>6, <2>7, <2>8
<1>6. ChunkStart(1) = 1
  <2>1. (1 - 1) * step = 0 BY <1>1
  <2> QED BY <2>1 DEF ChunkStart, step
<1>7. MaxCoordinates = step + 1 BY RoutesAssumption DEF ChunkStep, step
<1> QED BY <1>1, <1>3, <1>4, <1>5, <1>6, <1>7 DEF step, L

\* A chunk is the part of the trip from its start to its end.
LEMMA ChunkIs ==
    ASSUME NEW trip \in Seq(Point), Len(trip) >= 2
    PROVE  /\ ChunkPositions(trip) =
                [k \in 1..ChunkCount(trip) |-> SubSeq(trip, ChunkStart(k), ChunkEnd(trip, k))]
           /\ ChunkPositions(trip) \in Seq(Seq(Point)) /\ Len(ChunkPositions(trip)) = ChunkCount(trip)
           /\ \A k \in 1..ChunkCount(trip) :
                 /\ Len(ChunkPositions(trip)[k]) = ChunkEnd(trip, k) - ChunkStart(k) + 1
                 /\ \A j \in 1..(ChunkEnd(trip, k) - ChunkStart(k) + 1) :
                       ChunkPositions(trip)[k][j] = trip[ChunkStart(k) + j - 1]
<1> DEFINE N == ChunkCount(trip)
<1>1. N \in Nat /\ \A k \in 1..N : /\ ChunkStart(k) \in 1..Len(trip)
                                   /\ ChunkEnd(trip, k) \in 1..Len(trip)
                                   /\ ChunkStart(k) < ChunkEnd(trip, k)
  BY ChunksMeet
<1>2. ASSUME NEW k \in 1..N PROVE Min({k * ChunkStep + 1, Len(trip)}) = ChunkEnd(trip, k)
  <2> DEFINE e == k * ChunkStep + 1
  <2>1. e \in Int /\ Len(trip) \in Int
    <3>1. k \in Int /\ ChunkStep \in Int BY ChunksMeet
    <3> QED BY <3>1, LenProperties
  <2>2. ChunkEnd(trip, k) = IF e <= Len(trip) THEN e ELSE Len(trip) BY DEF ChunkEnd
  <2> HIDE DEF e
  <2>3. ASSUME NEW p \in Int, NEW r \in Int
        PROVE  Min({p, r}) = IF p <= r THEN p ELSE r
    BY DEF Min
  <2> QED BY <2>1, <2>2, <2>3 DEF e
<1>3. ChunkPositions(trip) = [k \in 1..N |-> SubSeq(trip, ChunkStart(k), ChunkEnd(trip, k))]
  <2>1. ChunkPositions(trip) =
          [k \in 1..N |-> SubSeq(trip, ChunkStart(k), Min({k * ChunkStep + 1, Len(trip)}))]
    BY DEF ChunkPositions, ChunkCount, ChunkStep, ChunkStart
  <2> HIDE DEF N
  <2> QED BY <1>2, <2>1
<1>4. ASSUME NEW k \in 1..N
      PROVE  LET b == ChunkStart(k)
                 e == ChunkEnd(trip, k)
             IN  /\ SubSeq(trip, b, e) \in Seq(Point) /\ Len(SubSeq(trip, b, e)) = e - b + 1
                 /\ \A j \in 1..(e - b + 1) : SubSeq(trip, b, e)[j] = trip[b + j - 1]
  <2> DEFINE b == ChunkStart(k)
             e == ChunkEnd(trip, k)
  <2>1. b \in 1..Len(trip) /\ e \in 1..Len(trip) /\ b < e /\ Len(trip) \in Nat BY <1>1, LenProperties
  <2> HIDE DEF b, e
  <2>2. \A i \in b..e : trip[i] \in Point
    <3>1. \A i \in b..e : i \in 1..Len(trip) BY <2>1
    <3> QED BY <3>1, ElementOfSeq
  <2>3. /\ SubSeq(trip, b, e) \in Seq(Point)
        /\ Len(SubSeq(trip, b, e)) = IF b <= e THEN e - b + 1 ELSE 0
        /\ \A i \in 1..(e - b + 1) : SubSeq(trip, b, e)[i] = trip[b + i - 1]
    BY <2>1, <2>2, SubSeqProperties
  <2> QED BY <2>1, <2>3 DEF b, e
<1> HIDE DEF N
<1>5. ChunkPositions(trip) \in Seq(Seq(Point)) /\ Len(ChunkPositions(trip)) = N BY <1>1, <1>3, <1>4
<1> QED BY <1>3, <1>4, <1>5 DEF N

\* What h gives for a number is the first sequences, one after the other.
Joins(h, seqs) ==
    /\ h[1] = seqs[1]
    /\ \A i \in 2..Len(seqs) : h[i] = h[i - 1] \o seqs[i]

\* Flattening is any function that joins.
LEMMA FlatIsAnyThatJoins ==
    ASSUME NEW X, NEW seqs \in Seq(X), seqs # <<>>, NEW h, Joins(h, seqs)
    PROVE  FlattenSeq(seqs) = h[Len(seqs)]
<1> DEFINE n == Len(seqs)
           Rec(g) == g = [i \in 1..Len(seqs) |-> IF i = 1 THEN seqs[i] ELSE g[i - 1] \o seqs[i]]
           f == [i \in 1..n |-> h[i]]
<1>1. n \in Nat /\ n # 0 BY LenProperties, EmptySeq
<1>2. FlattenSeq(seqs) = (CHOOSE g : Rec(g))[Len(seqs)]
  <2>1. Len(seqs) # 0 BY <1>1
  <2> QED BY Zenon, <2>1 DEF FlattenSeq
<1>3. Rec(f)
  <2>1. ASSUME NEW i \in 1..n PROVE f[i] = IF i = 1 THEN seqs[i] ELSE f[i - 1] \o seqs[i]
    <3>1. CASE i = 1 BY <3>1 DEF Joins
    <3>2. CASE i # 1
      <4>1. i \in 2..n /\ i - 1 \in 1..n BY <1>1, <3>2
      <4> QED BY <3>2, <4>1 DEF Joins
    <3> QED BY <3>1, <3>2
  <2>2. f = [i \in 1..n |-> IF i = 1 THEN seqs[i] ELSE f[i - 1] \o seqs[i]]
    <3> HIDE DEF n
    <3> QED BY <2>1
  <2> HIDE DEF f
  <2> QED BY <2>2
<1>4. PICK g : g = (CHOOSE j : Rec(j)) /\ Rec(g)
  <2> HIDE DEF Rec
  <2> QED BY <1>3
<1>5. \A i \in 1..n : g[i] = IF i = 1 THEN seqs[i] ELSE g[i - 1] \o seqs[i]
  <2>1. g = [i \in 1..n |-> IF i = 1 THEN seqs[i] ELSE g[i - 1] \o seqs[i]] BY <1>4
  <2> HIDE DEF n, Rec
  <2> QED BY <2>1
<1>6. \A i \in 1..n : g[i] = h[i]
  <2> HIDE DEF n, Rec, f
  <2> DEFINE Differ == {i \in 1..n : g[i] # h[i]}
  <2>1. SUFFICES ASSUME Differ # {} PROVE FALSE
    OBVIOUS
  <2>2. PICK i \in Differ : \A j \in Differ : i <= j
    <3>1. Differ \subseteq Nat OBVIOUS
    <3> HIDE DEF Differ
    <3> QED BY <2>1, <3>1, LeastExists
  <2>3. i \in 1..n BY <2>2
  <2>4. CASE i = 1 BY <1>5, <2>2, <2>4 DEF Joins
  <2>5. CASE i # 1
    <3>1. i \in 2..n /\ i - 1 \in 1..n /\ i - 1 < i BY <1>1, <2>3, <2>5
    <3>2. g[i - 1] = h[i - 1]
      <4>1. i - 1 \notin Differ BY <1>1, <2>2, <2>3, <3>1
      <4> QED BY <3>1, <4>1
    <3>3. g[i] = g[i - 1] \o seqs[i] BY <1>5, <2>3, <2>5
    <3>4. h[i] = h[i - 1] \o seqs[i] BY <3>1 DEF Joins, n
    <3> QED BY <2>2, <3>2, <3>3, <3>4
  <2> QED BY <2>4, <2>5
<1>7. n \in 1..n BY <1>1
<1>8. FlattenSeq(seqs) = g[n] BY <1>2, <1>4
<1> QED BY <1>6, <1>7, <1>8

\* A function on the first numbers is a sequence.
LEMMA IsSequence ==
    ASSUME NEW X, NEW n \in Nat, NEW f, f = [i \in 1..n |-> f[i]], \A i \in 1..n : f[i] \in X
    PROVE  f \in Seq(X) /\ Len(f) = n /\ DOMAIN f = 1..n
<1>1. f \in [1..n -> X] OBVIOUS
<1> QED BY <1>1

\* The moves of a trip, as pairs of positions.
MovesOf(s) == [i \in 1..(Len(s) - 1) |-> <<s[i], s[i + 1]>>]

\* The moves of a part of a trip are a part of its moves.
LEMMA MovesOfPart ==
    ASSUME NEW trip \in Seq(Point), NEW b \in 1..Len(trip), NEW e \in 1..Len(trip), b < e,
           NEW part \in Seq(Point), Len(part) = e - b + 1,
           \A j \in 1..(e - b + 1) : part[j] = trip[b + j - 1]
    PROVE  /\ MovesOf(trip) \in Seq(Point \X Point) /\ Len(MovesOf(trip)) = Len(trip) - 1
           /\ MovesOf(part) = SubSeq(MovesOf(trip), b, e - 1)
           /\ MovesOf(part) \in Seq(Point \X Point)
<1> DEFINE M == MovesOf(trip)
           P == MovesOf(part)
           T == SubSeq(M, b, e - 1)
<1>1. Len(trip) \in Nat /\ b \in Nat /\ e \in Nat /\ e - b \in Nat BY LenProperties
<1>2. \A s \in Seq(Point) : \A i \in 1..(Len(s) - 1) : s[i] \in Point /\ s[i + 1] \in Point
  <2> TAKE s \in Seq(Point)
  <2> TAKE i \in 1..(Len(s) - 1)
  <2>1. Len(s) \in Nat BY LenProperties
  <2>2. i \in 1..Len(s) /\ i + 1 \in 1..Len(s) BY <2>1
  <2> QED BY <2>2, ElementOfSeq
<1>3. Len(trip) - 1 \in Nat /\ Len(part) - 1 = e - b BY <1>1
<1>4. \A i \in 1..(Len(trip) - 1) : M[i] = <<trip[i], trip[i + 1]>> /\ M[i] \in Point \X Point
  BY <1>2 DEF MovesOf
<1>5. M \in Seq(Point \X Point) /\ Len(M) = Len(trip) - 1
  <2>1. M = [i \in 1..(Len(trip) - 1) |-> M[i]] BY DEF MovesOf
  <2> HIDE DEF M
  <2> QED BY <1>3, <1>4, <2>1
<1>6. \A i \in 1..(e - b) : P[i] = <<part[i], part[i + 1]>> /\ P[i] \in Point \X Point
  BY <1>2, <1>3 DEF MovesOf
<1>7. P \in Seq(Point \X Point) /\ Len(P) = e - b
  <2> DEFINE d == e - b
  <2>1. P = [i \in 1..d |-> P[i]] BY <1>3 DEF MovesOf
  <2>2. d \in Nat /\ \A i \in 1..d : P[i] \in Point \X Point BY <1>1, <1>6
  <2> HIDE DEF P, d
  <2>3. P \in Seq(Point \X Point) /\ Len(P) = d BY <2>1, <2>2, IsSequence
  <2> QED BY <2>3 DEF d
<1>8. /\ T \in Seq(Point \X Point) /\ Len(T) = e - b
      /\ \A i \in 1..(e - b) : T[i] = M[b + i - 1]
  <2> DEFINE c == e - 1
  <2>1. \A i \in b..c : M[i] \in Point \X Point
    <3>1. \A i \in b..c : i \in 1..(Len(trip) - 1) BY <1>1
    <3> HIDE DEF M, c
    <3> QED BY <1>4, <3>1
  <2>2. b \in Int /\ c \in Int /\ b <= c /\ c - b + 1 = e - b BY <1>1
  <2> HIDE DEF M, c
  <2>3. /\ SubSeq(M, b, c) \in Seq(Point \X Point)
        /\ Len(SubSeq(M, b, c)) = IF b <= c THEN c - b + 1 ELSE 0
        /\ \A i \in 1..(c - b + 1) : SubSeq(M, b, c)[i] = M[b + i - 1]
    BY <2>1, <2>2, SubSeqProperties
  <2> QED BY <2>2, <2>3 DEF c
<1>9. ASSUME NEW i \in 1..(e - b) PROVE P[i] = T[i]
  <2>1. i \in 1..(e - b + 1) /\ i + 1 \in 1..(e - b + 1) /\ b + i - 1 \in 1..(Len(trip) - 1)
        /\ b + (i + 1) - 1 = (b + i - 1) + 1
    BY <1>1
  <2>2. part[i] = trip[b + i - 1] /\ part[i + 1] = trip[(b + i - 1) + 1] BY <2>1
  <2>3. M[b + i - 1] = <<trip[b + i - 1], trip[(b + i - 1) + 1]>> BY <1>4, <2>1
  <2> HIDE DEF M, P, T
  <2> QED BY <1>6, <1>8, <2>2, <2>3
<1>10. P = T
  <2> HIDE DEF M, P, T
  <2> QED BY <1>7, <1>8, <1>9, SeqEqual
<1> QED BY <1>5, <1>7, <1>10

\* The chunks of a trip have its moves, each once and in their order.
LEMMA ChunksHaveMoves ==
    ASSUME NEW trip \in Seq(Point), Len(trip) >= 2
    PROVE  FlattenSeq([k \in 1..ChunkCount(trip) |-> MovesOf(ChunkPositions(trip)[k])])
             = MovesOf(trip)
<1> DEFINE N == ChunkCount(trip)
           M == MovesOf(trip)
           Move2 == Point \X Point
           seqs == [k \in 1..N |-> MovesOf(ChunkPositions(trip)[k])]
           h == [k \in 1..N |-> SubSeq(M, 1, ChunkEnd(trip, k) - 1)]
<1>1. /\ N \in Nat /\ N > 0 /\ Len(trip) \in Nat
      /\ \A k \in 1..N : /\ ChunkStart(k) \in 1..Len(trip) /\ ChunkEnd(trip, k) \in 1..Len(trip)
                         /\ ChunkStart(k) < ChunkEnd(trip, k)
                         /\ k < N => ChunkEnd(trip, k) = ChunkStart(k + 1)
      /\ ChunkStart(1) = 1 /\ ChunkEnd(trip, N) = Len(trip)
  BY ChunksMeet, LenProperties
<1>2. M \in Seq(Move2) /\ Len(M) = Len(trip) - 1
  <2>1. 1 \in 1..Len(trip) /\ Len(trip) \in 1..Len(trip) /\ 1 < Len(trip) BY <1>1
  <2>2. \A j \in 1..(Len(trip) - 1 + 1) : trip[j] = trip[1 + j - 1]
    <3>1. \A j \in 1..(Len(trip) - 1 + 1) : 1 + j - 1 = j OBVIOUS
    <3> QED BY <3>1
  <2>3. Len(trip) = Len(trip) - 1 + 1 BY <1>1
  <2> QED BY <2>1, <2>2, <2>3, MovesOfPart
<1>3. ASSUME NEW k \in 1..N
      PROVE  /\ MovesOf(ChunkPositions(trip)[k])
                  = SubSeq(M, ChunkStart(k), ChunkEnd(trip, k) - 1)
             /\ MovesOf(ChunkPositions(trip)[k]) \in Seq(Move2)
  <2>1. ChunkPositions(trip)[k] \in Seq(Point) BY ChunkIs, ElementOfSeq
  <2>2. /\ Len(ChunkPositions(trip)[k]) = ChunkEnd(trip, k) - ChunkStart(k) + 1
        /\ \A j \in 1..(ChunkEnd(trip, k) - ChunkStart(k) + 1) :
              ChunkPositions(trip)[k][j] = trip[ChunkStart(k) + j - 1]
    BY ChunkIs
  <2> QED BY <1>1, <2>1, <2>2, MovesOfPart
<1> HIDE DEF N, M, Move2
<1>4. seqs \in Seq(Seq(Move2)) /\ Len(seqs) = N
  <2>1. seqs = [k \in 1..N |-> seqs[k]] /\ \A k \in 1..N : seqs[k] \in Seq(Move2) BY <1>3
  <2> HIDE DEF seqs
  <2> QED BY <1>1, <2>1, IsSequence
<1>5. Joins(h, seqs)
  <2>1. h[1] = seqs[1]
    <3>1. 1 \in 1..N BY <1>1
    <3> QED BY <1>1, <1>3, <3>1
  <2>2. ASSUME NEW i \in 2..N PROVE h[i] = h[i - 1] \o seqs[i]
    <3> DEFINE k == ChunkEnd(trip, i - 1) - 1
               n == ChunkEnd(trip, i) - 1
    <3>1. i - 1 \in 1..N /\ i \in 1..N /\ i - 1 < N /\ (i - 1) + 1 = i BY <1>1
    <3>2. ChunkEnd(trip, i - 1) = ChunkStart(i) BY <1>1, <3>1
    <3>3. k \in 0..Len(M) /\ n \in k..Len(M) /\ k + 1 = ChunkStart(i)
      <4> DEFINE a == ChunkStart(i)
                 c == ChunkEnd(trip, i)
      <4>1. a \in 1..Len(trip) /\ c \in 1..Len(trip) /\ a < c BY <1>1, <3>1
      <4>2. k = a - 1 /\ n = c - 1 BY <3>2
      <4> HIDE DEF a, c, k, n
      <4>3. k \in 0..Len(M) /\ n \in k..Len(M) /\ k + 1 = a BY <1>1, <1>2, <4>1, <4>2
      <4> QED BY <4>3 DEF a
    <3>4. 1 \in 1..(Len(M) + 1) /\ k \in (1 - 1)..Len(M) BY <1>1, <1>2, <3>3
    <3>5. h[i - 1] = SubSeq(M, 1, k) /\ h[i] = SubSeq(M, 1, n) BY <3>1
    <3>6. seqs[i] = SubSeq(M, k + 1, n) BY <1>3, <3>1, <3>3
    <3> HIDE DEF k, n, h, seqs
    <3>7. SubSeq(M, 1, k) \o SubSeq(M, k + 1, n) = SubSeq(M, 1, n)
      BY <1>2, <3>3, <3>4, ConcatAdjacentSubSeq
    <3> QED BY <3>5, <3>6, <3>7
  <2> HIDE DEF h, seqs
  <2> QED BY <1>4, <2>1, <2>2 DEF Joins
<1>6. h[N] = M
  <2>1. N \in 1..N BY <1>1
  <2>2. h[N] = SubSeq(M, 1, Len(M)) BY <1>1, <1>2, <2>1
  <2> QED BY <1>2, <2>2, SubSeqFull
<1>7. FlattenSeq(seqs) = h[Len(seqs)]
  <2> HIDE DEF h, seqs
  <2>1. seqs # <<>> BY <1>1, <1>4, EmptySeq
  <2> QED BY <1>4, <1>5, <2>1, FlatIsAnyThatJoins
<1> QED BY <1>4, <1>6, <1>7 DEF N, M

\* A trip is sent in chunks of a size Map Matching takes, that have its moves.
LEMMA TripIsCovered ==
    ASSUME NEW trip \in Seq(Point), Len(trip) >= 2
    PROVE  ChunksCover(trip)
<1> DEFINE N == ChunkCount(trip)
           chunks == ChunkPositions(trip)
<1>1. chunks \in Seq(Seq(Point)) /\ Len(chunks) = N /\ DOMAIN chunks = 1..N
  BY ChunkIs, LenProperties
<1>2. ASSUME NEW k \in 1..N PROVE Len(chunks[k]) \in 2..MaxCoordinates
  <2> DEFINE a == ChunkStart(k)
             c == ChunkEnd(trip, k)
  <2>1. Len(chunks[k]) = c - a + 1 BY ChunkIs
  <2>2. a \in 1..Len(trip) /\ c \in 1..Len(trip) /\ a < c /\ c - a + 1 <= MaxCoordinates
    BY ChunksMeet
  <2> HIDE DEF a, c
  <2> QED BY <2>1, <2>2, LenProperties, RoutesAssumption
<1>3. FlattenSeq([k \in 1..N |-> MovesOf(chunks[k])]) = MovesOf(trip) BY ChunksHaveMoves
<1> QED BY <1>1, <1>2, <1>3 DEF ChunksCover, MovesOf

-------------------------------------------------------------------------------
(* The trips of a day, one after the other *)

TripCount(ps) == Cardinality(StartsAfterStop(ps)) + 1
TripEnd(ps, k) == IF k = TripCount(ps) THEN Len(ps) + 1 ELSE Nth(StartsAfterStop(ps), k)
VisitedBy(ps, k) == Visited(ps, k, TripEnd(ps, k))

\* The trips are the positions they visit.
LEMMA TripsOfDay ==
    ASSUME NEW ps, IsDay(ps)
    PROVE  SplitIntoTrips(ps) = [k \in 1..TripCount(ps) |-> Picked(ps, VisitedBy(ps, k))]
BY DayIsSplitAtStops DEF TripsAreSplitAtStops, TripCount, TripEnd, VisitedBy, Visited, From

\* Where the trips begin and end.
LEMMA TripRange ==
    ASSUME NEW ps, IsDay(ps), NEW k \in 1..TripCount(ps)
    PROVE  /\ From(ps, k) \in 1..Len(ps) /\ TripEnd(ps, k) \in Nat
           /\ From(ps, k) \in VisitedBy(ps, k)
           /\ \A x \in VisitedBy(ps, k) : x \in Nat /\ From(ps, k) - 1 <= x /\ x < TripEnd(ps, k)
           /\ \A l \in 1..TripCount(ps) : k < l => TripEnd(ps, k) <= From(ps, l)
<1> DEFINE S == StartsAfterStop(ps)
           c == Cardinality(S)
<1>1. /\ Len(ps) \in Nat /\ Len(ps) > 0 /\ DOMAIN ps = 1..Len(ps)
      /\ S \in SUBSET (1..Len(ps)) /\ S \subseteq Anchors(ps) /\ 1 \notin S
      /\ Anchors(ps) \in SUBSET (1..Len(ps)) /\ 1 \in Anchors(ps)
  BY DayHas
<1>2. c \in Nat /\ TripCount(ps) = c + 1 BY <1>1, NumbersAreFinite DEF TripCount
<1>3. \A j \in 1..c : Nth(S, j) \in S /\ Nth(S, j) \in Nat /\ Nth(S, j) <= Len(ps) /\ Nth(S, j) > 1
  <2> TAKE j \in 1..c
  <2>1. Nth(S, j) \in S BY <1>1, NthIs
  <2>2. Nth(S, j) \in Nat /\ Nth(S, j) <= Len(ps) /\ 1 <= Nth(S, j) BY <1>1, <2>1, NumbersAreNumbers
  <2>3. Nth(S, j) # 1 BY <1>1, <2>1
  <2> QED BY <2>1, <2>2, <2>3
<1>4. \A i, j \in 1..c : i < j => Nth(S, i) < Nth(S, j) BY <1>1, NthInOrder
<1>5. \A l \in 1..(c + 1) : From(ps, l) = IF l = 1 THEN 1 ELSE Nth(S, l - 1) BY DEF From
<1>6. \A l \in 1..(c + 1) : TripEnd(ps, l) = IF l = c + 1 THEN Len(ps) + 1 ELSE Nth(S, l)
  BY <1>2 DEF TripEnd
<1> HIDE DEF S, c
<1>7. \A l \in 1..(c + 1) : From(ps, l) \in Anchors(ps) /\ From(ps, l) \in 1..Len(ps)
  <2> TAKE l \in 1..(c + 1)
  <2>1. CASE l = 1 BY <1>1, <1>5, <2>1
  <2>2. CASE l # 1
    <3>1. l - 1 \in 1..c BY <1>2, <2>2
    <3>2. From(ps, l) = Nth(S, l - 1) BY <1>5, <2>2
    <3> QED BY <1>1, <1>3, <3>1, <3>2
  <2> QED BY <2>1, <2>2
<1>8. \A l \in 1..(c + 1) : TripEnd(ps, l) \in Nat
  <2> TAKE l \in 1..(c + 1)
  <2>1. CASE l = c + 1 BY <1>1, <1>6, <2>1
  <2>2. CASE l # c + 1
    <3>1. l \in 1..c BY <1>2, <2>2
    <3>2. TripEnd(ps, l) = Nth(S, l) BY <1>6, <2>2
    <3> QED BY <1>3, <3>1, <3>2
  <2> QED BY <2>1, <2>2
<1>9. k \in 1..(c + 1) BY <1>2
<1>10. From(ps, k) < TripEnd(ps, k)
  <2>1. CASE k = c + 1
    <3>1. TripEnd(ps, k) = Len(ps) + 1 BY <1>6, <1>9, <2>1
    <3> QED BY <1>1, <1>7, <1>9, <3>1
  <2>2. CASE k # c + 1
    <3>1. k \in 1..c BY <1>2, <1>9, <2>2
    <3>2. TripEnd(ps, k) = Nth(S, k) BY <1>6, <1>9, <2>2
    <3>3. CASE k = 1
      <4>1. From(ps, k) = 1 BY <1>5, <1>9, <3>3
      <4> QED BY <1>3, <3>1, <3>2, <4>1
    <3>4. CASE k # 1
      <4>1. From(ps, k) = Nth(S, k - 1) BY <1>5, <1>9, <3>4
      <4>2. k - 1 \in 1..c /\ k - 1 < k BY <1>2, <3>1, <3>4
      <4>3. Nth(S, k - 1) < Nth(S, k) BY <1>4, <3>1, <4>2
      <4> QED BY <3>2, <4>1, <4>3
    <3> QED BY <3>3, <3>4
  <2> QED BY <2>1, <2>2
<1>11. From(ps, k) \in VisitedBy(ps, k)
  <2>1. From(ps, k) \in Anchors(ps) /\ From(ps, k) <= From(ps, k) BY <1>7, <1>9
  <2> QED BY <1>10, <2>1 DEF VisitedBy, Visited
<1>12. ASSUME NEW x \in VisitedBy(ps, k)
       PROVE  x \in Nat /\ From(ps, k) - 1 <= x /\ x < TripEnd(ps, k)
  <2>1. x \in 1..Len(ps) BY <1>1, <1>12 DEF VisitedBy, Visited
  <2>2. x = From(ps, k) - 1 \/ (From(ps, k) <= x /\ x < TripEnd(ps, k))
    BY <1>12 DEF VisitedBy, Visited
  <2>3. From(ps, k) \in Nat /\ TripEnd(ps, k) \in Nat BY <1>7, <1>8, <1>9
  <2> QED BY <1>10, <2>1, <2>2, <2>3
<1>13. ASSUME NEW l \in 1..TripCount(ps), k < l PROVE TripEnd(ps, k) <= From(ps, l)
  <2>1. l \in 1..(c + 1) /\ l # 1 /\ k # c + 1 /\ k \in 1..c /\ l - 1 \in 1..c
    BY <1>2, <1>9, <1>13
  <2>2. TripEnd(ps, k) = Nth(S, k) /\ From(ps, l) = Nth(S, l - 1)
    <3>1. TripEnd(ps, k) = Nth(S, k) BY <1>6, <1>9, <2>1
    <3>2. From(ps, l) = Nth(S, l - 1) BY <1>5, <2>1
    <3> QED BY <3>1, <3>2
  <2>3. CASE k = l - 1 BY <1>3, <2>1, <2>2, <2>3
  <2>4. CASE k # l - 1
    <3>1. k < l - 1 BY <1>13, <2>1, <2>4
    <3>2. Nth(S, k) < Nth(S, l - 1) BY <1>4, <2>1, <3>1
    <3> QED BY <1>3, <2>1, <2>2, <3>2
  <2> QED BY <2>3, <2>4
<1> QED BY <1>7, <1>8, <1>9, <1>11, <1>12, <1>13

\* Trips that follow one another in time.
InTime(trips) ==
    \A k, l \in DOMAIN trips : k < l =>
        \A i \in DOMAIN trips[k], j \in DOMAIN trips[l] :
            trips[k][i].seconds <= trips[l][j].seconds

\* A trip has positions, and comes after the one before.
LEMMA SplitInTime ==
    ASSUME NEW ps, IsDay(ps)
    PROVE  /\ SplitIntoTrips(ps) \in Seq(Seq(Point))
           /\ \A k \in DOMAIN SplitIntoTrips(ps) : Len(SplitIntoTrips(ps)[k]) > 0
           /\ InTime(SplitIntoTrips(ps))
<1> DEFINE n == TripCount(ps)
           trips == SplitIntoTrips(ps)
           K(k) == VisitedBy(ps, k)
<1>1. n \in Nat /\ ps \in Seq(Point) /\ DOMAIN ps = 1..Len(ps) /\ Len(ps) \in Nat
  BY DayHas, NumbersAreFinite DEF TripCount
<1>2. trips = [k \in 1..n |-> Picked(ps, VisitedBy(ps, k))] BY TripsOfDay
<1>3. ASSUME NEW k \in 1..n
      PROVE  /\ trips[k] \in Seq(Point) /\ Len(trips[k]) = Cardinality(VisitedBy(ps, k))
             /\ DOMAIN trips[k] = 1..Cardinality(VisitedBy(ps, k))
             /\ \A i \in 1..Cardinality(VisitedBy(ps, k)) :
                   /\ Nth(VisitedBy(ps, k), i) \in VisitedBy(ps, k)
                   /\ trips[k][i] = ps[Nth(VisitedBy(ps, k), i)]
  <2>1. VisitedBy(ps, k) \in SUBSET DOMAIN ps BY VisitedInDay DEF VisitedBy
  <2>2. trips[k] = Picked(ps, VisitedBy(ps, k)) BY <1>2
  <2> HIDE DEF trips
  <2> QED BY <1>1, <2>1, <2>2, PickedType, LenProperties
<1> HIDE DEF trips, n
<1>4. trips \in Seq(Seq(Point)) /\ DOMAIN trips = 1..n
  <2>1. trips = [k \in 1..n |-> trips[k]] /\ \A k \in 1..n : trips[k] \in Seq(Point) BY <1>2, <1>3
  <2> QED BY <1>1, <2>1, IsSequence
<1>5. ASSUME NEW k \in 1..n PROVE Len(trips[k]) > 0
  <2>1. From(ps, k) \in VisitedBy(ps, k) BY TripRange DEF n
  <2>2. VisitedBy(ps, k) \in SUBSET (1..Len(ps)) BY <1>1, VisitedInDay DEF VisitedBy
  <2>3. IsFiniteSet(VisitedBy(ps, k)) /\ Cardinality(VisitedBy(ps, k)) \in Nat
    BY <1>1, <2>2, NumbersAreFinite
  <2>4. Cardinality(VisitedBy(ps, k)) # 0 BY <2>1, <2>3, FS_EmptySet
  <2> QED BY <1>3, <2>3, <2>4
<1>6. ASSUME NEW k \in 1..n, NEW l \in 1..n, k < l,
             NEW i \in DOMAIN trips[k], NEW j \in DOMAIN trips[l]
      PROVE  trips[k][i].seconds <= trips[l][j].seconds
  <2> DEFINE x == Nth(VisitedBy(ps, k), i)
             y == Nth(VisitedBy(ps, l), j)
  <2>1. x \in VisitedBy(ps, k) /\ trips[k][i] = ps[x] BY <1>3, <1>6
  <2>2. y \in VisitedBy(ps, l) /\ trips[l][j] = ps[y] BY <1>3, <1>6
  <2>3. x \in DOMAIN ps /\ y \in DOMAIN ps BY <2>1, <2>2, VisitedInDay DEF VisitedBy
  <2> HIDE DEF x, y
  <2>4. x \in Nat /\ x < TripEnd(ps, k) /\ TripEnd(ps, k) \in Nat /\ TripEnd(ps, k) <= From(ps, l)
    BY <1>6, <2>1, TripRange DEF n
  <2>5. y \in Nat /\ From(ps, l) - 1 <= y /\ From(ps, l) \in 1..Len(ps) BY <2>2, TripRange DEF n
  <2>6. x <= y BY <1>1, <2>4, <2>5
  <2>7. ps[x].seconds <= ps[y].seconds BY <2>3, <2>6 DEF IsDay
  <2> QED BY <2>1, <2>2, <2>7
<1> QED BY <1>4, <1>5, <1>6 DEF trips, InTime

-------------------------------------------------------------------------------
(* The trips that are matched *)

\* Nothing adds up to nothing.
LEMMA SumOfNothing ==
    ASSUME NEW f, DOMAIN f = {} PROVE SumFunction(f) = 0
<1> DEFINE Rec(g) == g = [s \in SUBSET {} |->
                            IF s = {} THEN 0
                            ELSE f[CHOOSE x \in s : TRUE] + g[s \ {CHOOSE x \in s : TRUE}]]
           zero == [s \in SUBSET {} |-> 0]
<1>1. SumFunction(f) = (CHOOSE g : Rec(g))[{}]
  BY Zenon DEF SumFunction, SumFunctionOnSet, FoldFunctionOnSet, MapThenFoldSet
<1>2. Rec(zero) OBVIOUS
<1>3. PICK g : g = (CHOOSE j : Rec(j)) /\ Rec(g)
  <2> HIDE DEF Rec, zero
  <2> QED BY <1>2
<1>4. g[{}] = 0 BY <1>3
<1> QED BY <1>1, <1>3, <1>4

\* A trip of one position has no length.
LEMMA KeptTripMoves ==
    ASSUME NEW trip \in Seq(Point), Len(trip) > 0, TripDistance(trip) >= MinTripDistance
    PROVE  Len(trip) >= 2
<1> DEFINE f == [i \in 1..(Len(trip) - 1) |-> Distance(trip[i], trip[i + 1])]
<1>0. Len(trip) \in Nat BY LenProperties
<1>1. ASSUME Len(trip) = 1 PROVE FALSE
  <2>1. DOMAIN f = {} BY <1>1
  <2> HIDE DEF f
  <2>2. SumFunction(f) = 0 BY <2>1, SumOfNothing
  <2>3. TripDistance(trip) = 0 BY <2>2 DEF TripDistance, f
  <2> QED BY <2>3 DEF MinTripDistance
<1>2. Len(trip) # 1 BY <1>1
<1> HIDE DEF f
<1>3. \A n \in Nat : n > 0 /\ n # 1 => n >= 2 OBVIOUS
<1> QED BY <1>0, <1>2, <1>3

\* The trips that are matched are of moves, and follow one another in time.
LEMMA KeptInTime ==
    ASSUME NEW ps, IsDay(ps)
    PROVE  /\ KeptTrips(ps) \in Seq(Seq(Point)) /\ InTime(KeptTrips(ps))
           /\ \A k \in DOMAIN KeptTrips(ps) : Len(KeptTrips(ps)[k]) >= 2
<1> DEFINE trips == SplitIntoTrips(ps)
           K == {k \in DOMAIN trips : TripDistance(trips[k]) >= MinTripDistance}
           kept == KeptTrips(ps)
<1>1. kept = Picked(trips, K) BY DEF KeptTrips
<1>2. trips \in Seq(Seq(Point)) /\ InTime(trips) /\ \A k \in DOMAIN trips : Len(trips[k]) > 0
  BY SplitInTime
<1>3. \A k \in K : Len(trips[k]) >= 2
  <2> TAKE k \in K
  <2>1. k \in DOMAIN trips /\ TripDistance(trips[k]) >= MinTripDistance OBVIOUS
  <2>2. trips[k] \in Seq(Point) BY <1>2, <2>1, ElementOfSeq, LenProperties
  <2> QED BY <1>2, <2>1, <2>2, KeptTripMoves
<1>4. K \in SUBSET DOMAIN trips OBVIOUS
<1> HIDE DEF trips, K, kept
<1>5. /\ kept \in Seq(Seq(Point)) /\ Len(kept) = Cardinality(K)
      /\ \A j \in 1..Cardinality(K) : Nth(K, j) \in K /\ kept[j] = trips[Nth(K, j)]
  BY <1>1, <1>2, <1>4, PickedType
<1>6. DOMAIN kept = 1..Cardinality(K) /\ Len(trips) \in Nat /\ K \in SUBSET (1..Len(trips))
  BY <1>2, <1>4, <1>5, LenProperties
<1>7. \A k \in DOMAIN kept : Len(kept[k]) >= 2 BY <1>3, <1>5, <1>6
<1>8. ASSUME NEW k \in DOMAIN kept, NEW l \in DOMAIN kept, k < l,
             NEW i \in DOMAIN kept[k], NEW j \in DOMAIN kept[l]
      PROVE  kept[k][i].seconds <= kept[l][j].seconds
  <2> DEFINE x == Nth(K, k)
             y == Nth(K, l)
  <2>1. x < y BY <1>6, <1>8, NthInOrder
  <2>2. x \in DOMAIN trips /\ y \in DOMAIN trips /\ kept[k] = trips[x] /\ kept[l] = trips[y]
    BY <1>4, <1>5, <1>6
  <2> HIDE DEF x, y
  <2> QED BY <1>2, <1>8, <2>1, <2>2 DEF InTime
<1> QED BY <1>5, <1>7, <1>8 DEF kept, InTime

-------------------------------------------------------------------------------
(* The lines of a trip that was matched whole *)

\* The ends of two lines put together.
LEMMA LineGoesOn ==
    ASSUME NEW line \in Seq(Point), NEW more \in Seq(Point), line # <<>>, more # <<>>
    PROVE  /\ line \o more \in Seq(Point) /\ line \o more # <<>>
           /\ (line \o more)[1] = line[1] /\ Last(line \o more) = Last(more)
<1>1. Len(line) \in Nat /\ Len(line) > 0 /\ Len(more) \in Nat /\ Len(more) > 0 BY EmptySeq
<1>2. /\ line \o more \in Seq(Point) /\ Len(line \o more) = Len(line) + Len(more)
      /\ \A i \in 1..(Len(line) + Len(more)) :
            (line \o more)[i] = IF i <= Len(line) THEN line[i] ELSE more[i - Len(line)]
  BY ConcatProperties
<1>3. 1 \in 1..(Len(line) + Len(more)) /\ 1 <= Len(line) BY <1>1
<1>4. (line \o more)[1] = line[1] BY <1>2, <1>3
<1>5. /\ Len(line) + Len(more) \in 1..(Len(line) + Len(more))
      /\ ~(Len(line) + Len(more) <= Len(line)) /\ Len(line) + Len(more) - Len(line) = Len(more)
  BY <1>1
<1>6. (line \o more)[Len(line) + Len(more)] = more[Len(more)] BY <1>2, <1>5
<1>7. line \o more # <<>> BY <1>1, <1>2, EmptySeq
<1> QED BY <1>2, <1>4, <1>6, <1>7 DEF Last

\* Putting a line to others gives lines.
LEMMA StitchType ==
    ASSUME NEW s \in Seq(Seq(Point)), NEW segment \in Seq(Point)
    PROVE  Stitch(s, segment) \in Seq(Seq(Point))
<1>1. Append(s, segment) \in Seq(Seq(Point)) BY AppendProperties
<1>2. ASSUME s # <<>> PROVE Append(Front(s), Last(s) \o segment) \in Seq(Seq(Point))
  <2>1. Len(s) \in Nat /\ Len(s) > 0 BY <1>2, EmptySeq
  <2>2. Last(s) \in Seq(Point)
    <3>1. Len(s) \in 1..Len(s) BY <2>1
    <3> QED BY <3>1, ElementOfSeq DEF Last
  <2>3. Front(s) \in Seq(Seq(Point))
    <3>1. \A i \in 1..(Len(s) - 1) : s[i] \in Seq(Point)
      <4>1. \A i \in 1..(Len(s) - 1) : i \in 1..Len(s) BY <2>1
      <4> QED BY <4>1, ElementOfSeq
    <3>2. 1 \in Int /\ Len(s) - 1 \in Int BY <2>1
    <3> QED BY <3>1, <3>2, SubSeqProperties DEF Front
  <2>4. Last(s) \o segment \in Seq(Point) BY <2>2, ConcatProperties
  <2> QED BY <2>3, <2>4, AppendProperties
<1> QED BY <1>1, <1>2 DEF Stitch

\* A line that starts where the only one ends makes it longer.
LEMMA StitchGoesOn ==
    ASSUME NEW line \in Seq(Point), NEW segment \in Seq(Point), line # <<>>, segment # <<>>,
           Last(line) = segment[1]
    PROVE  Stitch(<<line>>, segment) = <<line \o segment>>
<1>1. Last(<<line>>) = line /\ <<line>> # <<>> BY DEF Last
<1>2. Distance(Last(line), segment[1]) = 0
  <2>1. 1 \in 1..Len(segment) BY EmptySeq
  <2>2. segment[1] \in Point BY <2>1, ElementOfSeq
  <2> QED BY <2>2, DistanceType
<1>3. Front(<<line>>) = <<>> BY SubSeqEmpty DEF Front
<1>4. Append(<<>>, line \o segment) = <<line \o segment>> OBVIOUS
<1> DEFINE s == <<line>>
<1>5. s # <<>> /\ Last(s) = line /\ Front(s) = <<>> BY <1>1, <1>3
<1> HIDE DEF s
<1>6. Distance(Last(Last(s)), segment[1]) <= StitchMaxGap BY <1>2, <1>5 DEF StitchMaxGap
<1>7. Stitch(s, segment) = Append(Front(s), Last(s) \o segment) BY <1>5, <1>6 DEF Stitch
<1>8. Stitch(s, segment) = <<line \o segment>> BY <1>4, <1>5, <1>7
<1> QED BY <1>8 DEF s

\* What is stitched of the first lines, one after the other.
Stitched(g, lines) == \A k \in 1..Len(lines) : g[k] = Stitch(g[k - 1], lines[k])

\* The lines of a trip are stitched one after the other.
LEMMA SegmentsAreStitched ==
    ASSUME NEW trip, NEW lost, NEW lines \in Seq(Seq(Point)),
           lines = Picked(ChunkPositions(trip), DOMAIN ChunkPositions(trip) \ lost)
    PROVE  \E g : /\ g[0] = <<>> /\ Stitched(g, lines)
                  /\ MatchTrip(trip, lost).segments = g[Len(lines)]
<1> DEFINE n == Len(lines)
           X == Seq(Seq(Point))
           Rec(g) == g = [k \in 0..Len(lines) |-> IF k = 0 THEN <<>> ELSE Stitch(g[k - 1], lines[k])]
           F == [z \in X \X (1..n) |-> Stitch(z[1], lines[z[2]])]
<1>1. n \in Nat BY LenProperties
<1>2. <<>> \in X BY EmptySeq
<1>3. F \in [X \X (1..n) -> X]
  <2>1. ASSUME NEW z \in X \X (1..n) PROVE Stitch(z[1], lines[z[2]]) \in X
    <3>1. z[1] \in X /\ z[2] \in 1..n OBVIOUS
    <3>2. lines[z[2]] \in Seq(Point) BY <3>1, ElementOfSeq
    <3> QED BY <3>1, <3>2, StitchType
  <2> HIDE DEF X
  <2> QED BY <2>1
<1>4. PICK g \in [0..n -> X] : g[0] = <<>> /\ \A k \in 1..n : g[k] = F[<<g[k - 1], k>>]
  <2> HIDE DEF F, X, n
  <2>1. \E g \in [0..n -> X] : Stepwise(g, n, <<>>, F) BY <1>1, <1>2, <1>3, StepwiseExists
  <2> QED BY <2>1 DEF Stepwise
<1>5. ASSUME NEW k \in 1..n PROVE g[k] = Stitch(g[k - 1], lines[k])
  <2>1. k - 1 \in 0..n BY <1>1
  <2>2. g[k - 1] \in X BY <1>4, <2>1
  <2> HIDE DEF X, n
  <2>3. <<g[k - 1], k>> \in X \X (1..n) BY <2>2
  <2>4. F[<<g[k - 1], k>>] = Stitch(g[k - 1], lines[k]) BY <2>3
  <2> QED BY <1>4, <2>4
<1>6. Rec(g)
  <2>1. \A k \in 0..n : g[k] = IF k = 0 THEN <<>> ELSE Stitch(g[k - 1], lines[k])
    <3> TAKE k \in 0..n
    <3>1. CASE k = 0 BY <1>4, <3>1
    <3>2. CASE k # 0
      <4>1. k \in 1..n BY <1>1, <3>2
      <4> QED BY <1>5, <3>2, <4>1
    <3> QED BY <3>1, <3>2
  <2>2. g = [k \in 0..n |-> g[k]] BY <1>4
  <2>3. g = [k \in 0..n |-> IF k = 0 THEN <<>> ELSE Stitch(g[k - 1], lines[k])]
    <3> HIDE DEF n
    <3> QED BY <2>1, <2>2
  <2> QED BY <2>3
<1>7. PICK s : s = (CHOOSE j : Rec(j)) /\ Rec(s)
  <2> HIDE DEF Rec
  <2> QED BY <1>6
<1>8. s[0] = <<>> /\ \A k \in 1..n : s[k] = Stitch(s[k - 1], lines[k])
  <2>1. s = [k \in 0..n |-> IF k = 0 THEN <<>> ELSE Stitch(s[k - 1], lines[k])] BY <1>7
  <2>2. 0 \in 0..n /\ \A k \in 1..n : k \in 0..n /\ k # 0 BY <1>1
  <2> HIDE DEF n, Rec
  <2> QED BY <2>1, <2>2
<1>9. MatchTrip(trip, lost).segments = (CHOOSE j : Rec(j))[Len(lines)]
  <2>1. MatchTrip(trip, lost) =
          [segments |-> (CHOOSE j : Rec(j))[Len(lines)], firstMovement |-> MovementStart(trip),
           lastMovement |-> Last(trip).seconds]
    BY Zenon DEF MatchTrip
  <2> HIDE DEF Rec
  <2> QED BY <2>1
<1> HIDE DEF Rec
<1> QED BY <1>7, <1>8, <1>9 DEF Stitched

\* The ends of a chunk are where it begins and ends on the trip.
LEMMA ChunkEnds ==
    ASSUME NEW trip \in Seq(Point), Len(trip) >= 2, NEW k \in 1..ChunkCount(trip)
    PROVE  /\ ChunkPositions(trip)[k] \in Seq(Point) /\ ChunkPositions(trip)[k] # <<>>
           /\ ChunkPositions(trip)[k][1] = trip[ChunkStart(k)]
           /\ Last(ChunkPositions(trip)[k]) = trip[ChunkEnd(trip, k)]
<1> DEFINE a == ChunkStart(k)
           c == ChunkEnd(trip, k)
           chunk == ChunkPositions(trip)[k]
<1>1. a \in 1..Len(trip) /\ c \in 1..Len(trip) /\ a < c BY ChunksMeet
<1>2. /\ Len(chunk) = c - a + 1 /\ \A j \in 1..(c - a + 1) : chunk[j] = trip[a + j - 1]
  BY ChunkIs
<1>3. chunk \in Seq(Point) BY ChunkIs, ElementOfSeq
<1> HIDE DEF a, c, chunk
<1>4. a \in Nat /\ c \in Nat /\ c - a + 1 \in Nat /\ c - a + 1 > 1 BY <1>1, LenProperties
<1>5. 1 \in 1..(c - a + 1) /\ c - a + 1 \in 1..(c - a + 1) /\ a + 1 - 1 = a /\ a + (c - a + 1) - 1 = c
  BY <1>4
<1>6. chunk[1] = trip[a] /\ chunk[c - a + 1] = trip[c]
  <2>1. chunk[1] = trip[a + 1 - 1] /\ chunk[c - a + 1] = trip[a + (c - a + 1) - 1] BY <1>2, <1>5
  <2> QED BY <1>5, <2>1
<1>7. chunk # <<>> BY <1>2, <1>3, <1>4, EmptySeq
<1> QED BY <1>2, <1>3, <1>6, <1>7 DEF a, c, chunk, Last

\* A trip without a lost chunk is one line from its first position to its last.
LEMMA TripIsOneLine ==
    ASSUME NEW trip \in Seq(Point), Len(trip) >= 2
    PROVE  LET segments == MatchTrip(trip, {}).segments
           IN  /\ Len(segments) = 1
               /\ segments[1][1] = trip[1] /\ Last(segments[1]) = Last(trip)
<1> DEFINE lines == ChunkPositions(trip)
           N == ChunkCount(trip)
<1>1. /\ N \in Nat /\ N > 0
      /\ \A k \in 1..N : k < N => ChunkEnd(trip, k) = ChunkStart(k + 1)
      /\ ChunkStart(1) = 1 /\ ChunkEnd(trip, N) = Len(trip)
  BY ChunksMeet
<1>2. lines \in Seq(Seq(Point)) /\ Len(lines) = N BY ChunkIs
<1>3. \A k \in 1..N : /\ lines[k] \in Seq(Point) /\ lines[k] # <<>>
                      /\ lines[k][1] = trip[ChunkStart(k)] /\ Last(lines[k]) = trip[ChunkEnd(trip, k)]
  BY ChunkEnds
<1>4. lines = Picked(ChunkPositions(trip), DOMAIN ChunkPositions(trip) \ {})
  <2>1. DOMAIN ChunkPositions(trip) \ {} = DOMAIN ChunkPositions(trip) OBVIOUS
  <2> QED BY <1>2, <2>1, PickedAll
<1>5. PICK g : /\ g[0] = <<>> /\ Stitched(g, lines)
               /\ MatchTrip(trip, {}).segments = g[Len(lines)]
  <2> HIDE DEF lines
  <2>1. lines = Picked(ChunkPositions(trip), DOMAIN ChunkPositions(trip) \ {}) BY <1>4
  <2> QED BY <1>2, <2>1, SegmentsAreStitched
<1> HIDE DEF lines, N
<1>6. \A k \in 1..N : g[k] = Stitch(g[k - 1], lines[k]) BY <1>2, <1>5 DEF Stitched
<1> DEFINE OneLine(k) == \E line \in Seq(Point) :
                            /\ line # <<>> /\ g[k] = <<line>>
                            /\ line[1] = trip[1] /\ Last(line) = trip[ChunkEnd(trip, k)]
           Other == {k \in 1..N : ~OneLine(k)}
<1>7. OneLine(1)
  <2>1. 1 \in 1..N BY <1>1
  <2>2. g[1] = Stitch(<<>>, lines[1])
    <3>1. 1 - 1 = 0 OBVIOUS
    <3> QED BY <1>5, <1>6, <2>1, <3>1
  <2>3. g[1] = <<lines[1]>> BY <2>2 DEF Stitch
  <2>4. lines[1] \in Seq(Point) /\ lines[1] # <<>> /\ lines[1][1] = trip[1]
        /\ Last(lines[1]) = trip[ChunkEnd(trip, 1)]
    BY <1>1, <1>3, <2>1
  <2> QED BY <2>3, <2>4
<1>8. Other = {}
  <2>1. SUFFICES ASSUME Other # {} PROVE FALSE
    OBVIOUS
  <2>2. PICK k \in Other : \A j \in Other : k <= j
    <3>1. Other \subseteq Nat OBVIOUS
    <3> HIDE DEF Other
    <3> QED BY <2>1, <3>1, LeastExists
  <2>3. k \in 1..N /\ ~OneLine(k) BY <2>2
  <2>4. k # 1 BY <1>7, <2>3
  <2>5. k - 1 \in 1..N /\ k - 1 < N /\ (k - 1) + 1 = k /\ k - 1 < k BY <1>1, <2>3, <2>4
  <2>6. OneLine(k - 1)
    <3> HIDE DEF OneLine
    <3>1. k - 1 \notin Other
      <4> HIDE DEF Other
      <4>1. k - 1 \in Other => k <= k - 1 BY <2>2
      <4>2. k \in Int BY <1>1, <2>3
      <4> QED BY <4>1, <4>2
    <3> QED BY <2>5, <3>1
  <2>7. PICK line \in Seq(Point) : /\ line # <<>> /\ g[k - 1] = <<line>>
                                   /\ line[1] = trip[1] /\ Last(line) = trip[ChunkEnd(trip, k - 1)]
    BY <2>6
  <2>8. ChunkEnd(trip, k - 1) = ChunkStart(k) BY <1>1, <2>5
  <2>9. /\ lines[k] \in Seq(Point) /\ lines[k] # <<>> /\ lines[k][1] = Last(line)
        /\ Last(lines[k]) = trip[ChunkEnd(trip, k)]
    BY <1>3, <2>3, <2>7, <2>8
  <2>10. g[k] = <<line \o lines[k]>>
    <3>1. g[k] = Stitch(<<line>>, lines[k]) BY <1>6, <2>3, <2>7
    <3> QED BY <2>7, <2>9, <3>1, StitchGoesOn
  <2>11. /\ line \o lines[k] \in Seq(Point) /\ line \o lines[k] # <<>>
         /\ (line \o lines[k])[1] = line[1] /\ Last(line \o lines[k]) = Last(lines[k])
    BY <2>7, <2>9, LineGoesOn
  <2>12. OneLine(k)
    <3> DEFINE longer == line \o lines[k]
    <3>1. /\ longer \in Seq(Point) /\ longer # <<>> /\ g[k] = <<longer>>
          /\ longer[1] = trip[1] /\ Last(longer) = trip[ChunkEnd(trip, k)]
      BY <2>7, <2>9, <2>10, <2>11
    <3> HIDE DEF longer
    <3> QED BY <3>1
  <2> QED BY <2>3, <2>12
<1>9. OneLine(N)
  <2> HIDE DEF OneLine
  <2>1. N \in 1..N BY <1>1
  <2> QED BY <1>8, <2>1
<1>10. PICK line \in Seq(Point) : /\ g[N] = <<line>> /\ line[1] = trip[1]
                                  /\ Last(line) = trip[Len(trip)]
  BY <1>1, <1>9
<1>11. MatchTrip(trip, {}).segments = <<line>> BY <1>2, <1>5, <1>10
<1>12. Len(<<line>>) = 1 /\ <<line>>[1] = line OBVIOUS
<1>13. Last(line) = Last(trip) BY <1>10 DEF Last
<1> QED BY <1>10, <1>11, <1>12, <1>13

-------------------------------------------------------------------------------
(* The route of a day *)

TripsToMatch(ps) == IF Len(ps) < 2 THEN <<>> ELSE KeptTrips(ps)
LostOf(lost, k) == {x[2] : x \in {y \in lost : y[1] = k}}
Matches(ps, lost) ==
    [k \in 1..Len(TripsToMatch(ps)) |-> MatchTrip(TripsToMatch(ps)[k], LostOf(lost, k))]
HaveLines(ps, lost) == {k \in DOMAIN Matches(ps, lost) : Matches(ps, lost)[k].segments # <<>>}
Drawn(ps, lost) == Picked(Matches(ps, lost), HaveLines(ps, lost))

\* What is fetched, in parts.
LEMMA FetchedIs ==
    ASSUME NEW ps, NEW lost, NEW failed
    PROVE  FetchVehicleRoute(ps, lost, failed) =
             [status |-> IF Drawn(ps, lost) # <<>> THEN "loaded"
                         ELSE IF failed # {} THEN "error" ELSE "empty",
              trips |-> Drawn(ps, lost), lost |-> lost]
BY DEF FetchVehicleRoute, Drawn, HaveLines, Matches, LostOf, TripsToMatch

\* A status of its own for a route with trips.
LEMMA FetchedShape ==
    ASSUME NEW ps, NEW lost, NEW failed
    PROVE  LET r == FetchVehicleRoute(ps, lost, failed)
           IN  /\ r.status \in {"empty", "error", "loaded"}
               /\ (r.status = "loaded") = (r.trips # <<>>)
BY FetchedIs

\* The trips to match are of moves, and follow one another in time.
LEMMA TripsToMatchInTime ==
    ASSUME NEW ps, IsDay(ps)
    PROVE  /\ TripsToMatch(ps) \in Seq(Seq(Point)) /\ InTime(TripsToMatch(ps))
           /\ DOMAIN TripsToMatch(ps) = 1..Len(TripsToMatch(ps)) /\ Len(TripsToMatch(ps)) \in Nat
           /\ \A k \in 1..Len(TripsToMatch(ps)) : /\ TripsToMatch(ps)[k] \in Seq(Point)
                                                  /\ Len(TripsToMatch(ps)[k]) >= 2
<1> DEFINE trips == TripsToMatch(ps)
<1>1. trips \in Seq(Seq(Point)) /\ InTime(trips) /\ \A k \in DOMAIN trips : Len(trips[k]) >= 2
  <2>1. CASE Len(ps) < 2
    <3>1. trips = <<>> BY <2>1 DEF TripsToMatch
    <3>2. <<>> \in Seq(Seq(Point)) /\ DOMAIN <<>> = {} BY EmptySeq
    <3> HIDE DEF trips
    <3> QED BY <3>1, <3>2 DEF InTime
  <2>2. CASE ~(Len(ps) < 2)
    <3>1. trips = KeptTrips(ps) BY <2>2 DEF TripsToMatch
    <3> QED BY <3>1, KeptInTime
  <2> QED BY <2>1, <2>2
<1> HIDE DEF trips
<1>2. DOMAIN trips = 1..Len(trips) /\ Len(trips) \in Nat BY <1>1, LenProperties
<1>3. \A k \in 1..Len(trips) : trips[k] \in Seq(Point) BY <1>1, ElementOfSeq
<1> QED BY <1>1, <1>2, <1>3 DEF trips

\* A trip ends before the next one starts to move.
LEMMA MovementsInTime ==
    ASSUME NEW ps, IsDay(ps), NEW k \in 1..Len(TripsToMatch(ps)), NEW l \in 1..Len(TripsToMatch(ps)),
           k < l
    PROVE  Last(TripsToMatch(ps)[k]).seconds <= MovementStart(TripsToMatch(ps)[l])
<1> DEFINE trips == TripsToMatch(ps)
           first == trips[k]
           next == trips[l]
<1>1. /\ InTime(trips) /\ DOMAIN trips = 1..Len(trips)
      /\ first \in Seq(Point) /\ Len(first) >= 2 /\ next \in Seq(Point) /\ Len(next) >= 2
  BY TripsToMatchInTime
<1>2. \A i \in DOMAIN first, j \in DOMAIN next : first[i].seconds <= next[j].seconds
  BY <1>1 DEF InTime
<1> HIDE DEF trips, first, next
<1>3. DOMAIN first = 1..Len(first) /\ Len(first) \in Nat /\ DOMAIN next = 1..Len(next) /\ Len(next) \in Nat
  BY <1>1, LenProperties
<1>4. Len(first) \in DOMAIN first /\ 1 \in DOMAIN next /\ 2 \in DOMAIN next BY <1>1, <1>3
<1>5. Last(first).seconds <= next[1].seconds /\ Last(first).seconds <= next[2].seconds
  BY <1>2, <1>4 DEF Last
<1>6. MovementStart(next) \in {next[1].seconds, next[2].seconds} BY DEF MovementStart
<1> QED BY <1>5, <1>6 DEF trips, first, next

\* Of every trip that is matched there is one match, with its movements.
LEMMA MatchesAre ==
    ASSUME NEW ps, IsDay(ps), NEW lost
    PROVE  /\ \E X : Matches(ps, lost) \in Seq(X)
           /\ Len(Matches(ps, lost)) = Len(TripsToMatch(ps))
           /\ DOMAIN Matches(ps, lost) = 1..Len(TripsToMatch(ps))
           /\ \A k \in 1..Len(TripsToMatch(ps)) :
                 /\ Matches(ps, lost)[k].segments
                      = MatchTrip(TripsToMatch(ps)[k], LostOf(lost, k)).segments
                 /\ Matches(ps, lost)[k].firstMovement = MovementStart(TripsToMatch(ps)[k])
                 /\ Matches(ps, lost)[k].lastMovement = Last(TripsToMatch(ps)[k]).seconds
<1> DEFINE n == Len(TripsToMatch(ps))
           m == Matches(ps, lost)
           X == {m[k] : k \in 1..n}
<1>1. n \in Nat BY TripsToMatchInTime
<1>2. m = [k \in 1..n |-> MatchTrip(TripsToMatch(ps)[k], LostOf(lost, k))] BY DEF Matches
<1>3. \A k \in 1..n : m[k] = MatchTrip(TripsToMatch(ps)[k], LostOf(lost, k)) BY <1>2
<1> HIDE DEF n, m
<1>4. m \in Seq(X) /\ Len(m) = n /\ DOMAIN m = 1..n
  <2>1. m = [k \in 1..n |-> m[k]] BY <1>2
  <2>2. \A k \in 1..n : m[k] \in X OBVIOUS
  <2> HIDE DEF X
  <2> QED BY <1>1, <2>1, <2>2, IsSequence
<1>5. \A trip, gone : /\ MatchTrip(trip, gone).firstMovement = MovementStart(trip)
                      /\ MatchTrip(trip, gone).lastMovement = Last(trip).seconds
  BY DEF MatchTrip
<1> HIDE DEF X
<1> QED BY <1>3, <1>4, <1>5 DEF n, m

\* The trips that are drawn follow one another in time.
LEMMA DrawnInTime ==
    ASSUME NEW ps, IsDay(ps), NEW lost, NEW k \in 1..(Len(Drawn(ps, lost)) - 1)
    PROVE  Drawn(ps, lost)[k].lastMovement <= Drawn(ps, lost)[k + 1].firstMovement
<1> DEFINE m == Matches(ps, lost)
           K == HaveLines(ps, lost)
           n == Len(TripsToMatch(ps))
           x == Nth(K, k)
           y == Nth(K, k + 1)
<1>1. n \in Nat /\ DOMAIN m = 1..n BY MatchesAre, TripsToMatchInTime
<1>2. PICK X : m \in Seq(X) BY MatchesAre
<1>3. K \in SUBSET DOMAIN m BY DEF HaveLines
<1>4. /\ Len(Drawn(ps, lost)) = Cardinality(K) /\ Cardinality(K) \in Nat
      /\ \A j \in 1..Cardinality(K) : Nth(K, j) \in K /\ Drawn(ps, lost)[j] = m[Nth(K, j)]
  <2> HIDE DEF m, K
  <2>1. Drawn(ps, lost) = Picked(m, K) BY DEF Drawn, m, K
  <2> QED BY <1>2, <1>3, <2>1, PickedType
<1>5. k \in 1..Cardinality(K) /\ k + 1 \in 1..Cardinality(K) /\ k < k + 1 BY <1>4
<1>6. x \in 1..n /\ y \in 1..n /\ Drawn(ps, lost)[k] = m[x] /\ Drawn(ps, lost)[k + 1] = m[y]
  BY <1>1, <1>3, <1>4, <1>5
<1>7. x < y
  <2> HIDE DEF K
  <2>1. K \in SUBSET (1..n) BY <1>1, <1>3
  <2> QED BY <1>1, <1>5, <2>1, NthInOrder
<1> HIDE DEF x, y
<1>8. m[x].lastMovement = Last(TripsToMatch(ps)[x]).seconds
      /\ m[y].firstMovement = MovementStart(TripsToMatch(ps)[y])
  BY <1>6, MatchesAre
<1>9. Last(TripsToMatch(ps)[x]).seconds <= MovementStart(TripsToMatch(ps)[y])
  BY <1>6, <1>7, MovementsInTime
<1> QED BY <1>6, <1>8, <1>9

\* If nothing is lost, every trip that is matched is drawn, as one line from its
\* first position to its last.
LEMMA WholeRouteIsDrawn ==
    ASSUME NEW ps, IsDay(ps)
    PROVE  /\ Len(Drawn(ps, {})) = Len(TripsToMatch(ps))
           /\ \A k \in 1..Len(TripsToMatch(ps)) :
                 /\ Len(Drawn(ps, {})[k].segments) = 1
                 /\ Drawn(ps, {})[k].segments[1][1] = TripsToMatch(ps)[k][1]
                 /\ Last(Drawn(ps, {})[k].segments[1]) = Last(TripsToMatch(ps)[k])
<1> DEFINE m == Matches(ps, {})
           trips == TripsToMatch(ps)
           n == Len(trips)
<1>1. DOMAIN m = 1..n /\ Len(m) = n /\ \A k \in 1..n :
          m[k].segments = MatchTrip(trips[k], LostOf({}, k)).segments
  BY MatchesAre
<1>2. \A k \in 1..n : trips[k] \in Seq(Point) /\ Len(trips[k]) >= 2 BY TripsToMatchInTime
<1>3. \A k : LostOf({}, k) = {} BY DEF LostOf
<1> HIDE DEF m, trips, n
<1>4. \A k \in 1..n : /\ Len(m[k].segments) = 1
                      /\ m[k].segments[1][1] = trips[k][1]
                      /\ Last(m[k].segments[1]) = Last(trips[k])
  <2> TAKE k \in 1..n
  <2>1. m[k].segments = MatchTrip(trips[k], {}).segments BY <1>1, <1>3
  <2> QED BY <1>2, <2>1, TripIsOneLine
<1>5. HaveLines(ps, {}) = DOMAIN m
  <2>1. Len(<<>>) # 1 BY EmptySeq
  <2>2. \A k \in DOMAIN m : m[k].segments # <<>> BY <1>1, <1>4, <2>1
  <2> QED BY <2>2 DEF HaveLines, m
<1>6. Drawn(ps, {}) = m
  <2>1. PICK X : m \in Seq(X) BY MatchesAre DEF m
  <2>2. Picked(m, DOMAIN m) = m BY <2>1, PickedAll
  <2>3. Drawn(ps, {}) = Picked(m, DOMAIN m) BY <1>5 DEF Drawn, m
  <2> QED BY <2>2, <2>3
<1> QED BY <1>1, <1>4, <1>6 DEF n, trips

-------------------------------------------------------------------------------
(* The page fetches what it shows *)

\* The route is not fetched yet, or is that of the positions, with some requests
\* lost or failed.
IsFetched(r, ps) == \E lost, failed : r = FetchVehicleRoute(ps, lost, failed)

RouteIsOfDay == route = NotFetched \/ IsFetched(route, positions)

RoutesInv == RoutesTypeOK /\ IsDay(positions) /\ RouteIsOfDay

\* One position is a day.
LEMMA FirstOfDay == IsDay(<<[metres |-> 0, seconds |-> 0]>>)
<1> DEFINE start == [metres |-> 0, seconds |-> 0]
<1>1. start \in Point /\ start.seconds <= start.seconds BY DEF Point
<1> HIDE DEF start
<1>2. <<start>> \in Seq(Point) /\ <<start>> # <<>> BY <1>1
<1>3. \A i \in DOMAIN <<start>> : <<start>>[i] = start OBVIOUS
<1>4. IsDay(<<start>>)
  <2> DEFINE ps == <<start>>
  <2>1. ps \in Seq(Point) /\ ps # <<>> /\ \A i \in DOMAIN ps : ps[i] = start BY <1>2, <1>3
  <2> HIDE DEF ps
  <2>2. IsDay(ps) BY <1>1, <2>1 DEF IsDay
  <2> QED BY <2>2 DEF ps
<1> QED BY <1>4 DEF start

\* A position that is reported makes the day longer.
LEMMA ReportedInTime ==
    ASSUME NEW ps, IsDay(ps), NEW move \in Moves
    PROVE  IsDay(Append(ps, [metres |-> Last(ps).metres + move.metres,
                             seconds |-> Last(ps).seconds + move.seconds]))
<1> DEFINE next == [metres |-> Last(ps).metres + move.metres,
                    seconds |-> Last(ps).seconds + move.seconds]
           longer == Append(ps, next)
           n == Len(ps)
<1>1. ps \in Seq(Point) /\ n \in Nat /\ n > 0 /\ DOMAIN ps = 1..n /\ \A i \in 1..n : ps[i] \in Point
  BY DayHas
<1>2. Last(ps) = ps[n] /\ n \in 1..n BY <1>1 DEF Last
<1>3. move.metres \in Int /\ move.seconds \in Nat BY RoutesAssumption
<1>4. Last(ps).metres \in Int /\ Last(ps).seconds \in Nat
  <2>1. Last(ps) \in Point BY <1>1, <1>2
  <2> QED BY <2>1 DEF Point
<1>5. next \in Point BY <1>3, <1>4 DEF Point
<1>6. next.seconds = Last(ps).seconds + move.seconds OBVIOUS
<1>7. Last(ps).seconds <= next.seconds BY <1>3, <1>4, <1>6
<1> HIDE DEF next, n
<1>8. /\ longer \in Seq(Point) /\ longer # <<>> /\ DOMAIN longer = 1..(n + 1)
      /\ \A i \in 1..n : longer[i] = ps[i]
      /\ longer[n + 1] = next
  BY <1>1, <1>5, AppendProperties, LenProperties DEF n
<1> HIDE DEF longer
<1>9. ASSUME NEW i \in 1..(n + 1), NEW j \in 1..(n + 1), i <= j
      PROVE  longer[i].seconds <= longer[j].seconds
  <2>1. CASE j \in 1..n
    <3>1. i \in 1..n BY <1>1, <1>9, <2>1
    <3> QED BY <1>1, <1>8, <1>9, <2>1, <3>1 DEF IsDay
  <2>2. CASE j = n + 1 /\ i \in 1..n
    <3>1. ps[i].seconds <= ps[n].seconds BY <1>1, <1>2, <2>2 DEF IsDay
    <3>2. ps[i].seconds \in Nat BY <1>1, <2>2 DEF Point
    <3>3. next.seconds \in Nat BY <1>5 DEF Point
    <3>4. ps[i].seconds <= next.seconds BY <1>2, <1>4, <1>7, <3>1, <3>2, <3>3
    <3> QED BY <1>8, <2>2, <3>4
  <2>3. CASE j = n + 1 /\ i = n + 1
    <3>1. next.seconds \in Nat BY <1>5 DEF Point
    <3> QED BY <1>8, <2>3, <3>1
  <2>4. \A h \in 1..(n + 1) : h \in 1..n \/ h = n + 1 BY <1>1
  <2> QED BY <1>1, <1>9, <2>1, <2>2, <2>3, <2>4
<1>10. IsDay(longer) BY <1>8, <1>9 DEF IsDay
<1> QED BY <1>10 DEF longer, next

\* The positions stay in the order of their time, and the route is that of them.
LEMMA RoutesInitInv == RoutesInit => RoutesInv
<1> SUFFICES ASSUME RoutesInit PROVE RoutesInv
  OBVIOUS
<1> DEFINE start == [metres |-> 0, seconds |-> 0]
<1>1. positions = <<start>> /\ route = NotFetched BY DEF RoutesInit
<1>2. start \in [metres : Int, seconds : Nat] OBVIOUS
<1>3. IsDay(positions) BY <1>1, FirstOfDay
<1> HIDE DEF start
<1>4. RoutesTypeOK BY <1>1, <1>2, RoutesAssumption DEF RoutesTypeOK, NotFetched
<1> QED BY <1>1, <1>3, <1>4 DEF RoutesInv, RouteIsOfDay

LEMMA RoutesStep == RoutesInv /\ [RoutesNext]_routesVars => RoutesInv'
<1> SUFFICES ASSUME RoutesInv, [RoutesNext]_routesVars PROVE RoutesInv'
  OBVIOUS
<1>1. ASSUME NEW move \in Moves, Report(move) PROVE RoutesInv'
  <2> DEFINE next == [metres |-> Last(positions).metres + move.metres,
                      seconds |-> Last(positions).seconds + move.seconds]
  <2>1. /\ positions' = Append(positions, next) /\ route = NotFetched /\ UNCHANGED route
        /\ Len(positions) < MaxPositions
    BY <1>1 DEF Report
  <2>2. IsDay(positions') BY <2>1, ReportedInTime DEF RoutesInv
  <2> HIDE DEF next
  <2>3. positions' \in Seq(Point) BY <2>2 DEF IsDay
  <2>4. Len(positions') = Len(positions) + 1 /\ Len(positions) \in Nat BY <2>1 DEF RoutesInv, IsDay
  <2>5. RoutesTypeOK'
    <3>1. Len(positions') <= MaxPositions BY <2>1, <2>4, RoutesAssumption
    <3> QED BY <2>1, <2>3, <3>1 DEF RoutesInv, RoutesTypeOK, Point
  <2>6. RouteIsOfDay' BY <2>1 DEF RouteIsOfDay
  <2> QED BY <2>2, <2>5, <2>6 DEF RoutesInv
<1>2. CASE Fetch
  <2>1. PICK lost, failed : route' = FetchVehicleRoute(positions, lost, failed)
    BY <1>2 DEF Fetch
  <2>2. UNCHANGED positions BY <1>2 DEF Fetch
  <2>3. RoutesTypeOK' BY <2>1, <2>2, FetchedShape DEF RoutesInv, RoutesTypeOK
  <2>4. RouteIsOfDay' BY <2>1, <2>2 DEF RouteIsOfDay, IsFetched
  <2> QED BY <2>2, <2>3, <2>4 DEF RoutesInv
<1>3. CASE OtherDay
  <2> DEFINE start == [metres |-> 0, seconds |-> 0]
  <2>1. positions' = <<start>> /\ route' = NotFetched BY <1>3 DEF OtherDay
  <2>2. start \in [metres : Int, seconds : Nat] OBVIOUS
  <2>3. IsDay(positions') BY <2>1, FirstOfDay
  <2> HIDE DEF start
  <2>4. RoutesTypeOK' BY <2>1, <2>2, RoutesAssumption DEF RoutesTypeOK, NotFetched
  <2> QED BY <2>1, <2>3, <2>4 DEF RoutesInv, RouteIsOfDay
<1>4. CASE UNCHANGED routesVars
  BY <1>4 DEF routesVars, RoutesInv, RoutesTypeOK, RouteIsOfDay
<1> QED BY <1>1, <1>2, <1>3, <1>4 DEF RoutesNext

\* The positions of a day are never none, for the last one is what the next is
\* counted from, and a route has trips exactly when it is called loaded.
THEOREM RoutesTypes == RoutesSpec => []RoutesTypeOK
<1>1. RoutesInv => RoutesTypeOK BY DEF RoutesInv
<1> QED BY <1>1, RoutesInitInv, RoutesStep, PTL DEF RoutesSpec

\* What is fetched of a day is split and joined as it should be.
LEMMA FetchedIsWhole == RoutesInv => RouteIsSplitAndJoined
<1> SUFFICES ASSUME RoutesInv PROVE RouteIsSplitAndJoined
  OBVIOUS
<1> DEFINE kept == KeptTrips(positions)
<1>1. IsDay(positions) /\ RouteIsOfDay BY DEF RoutesInv
<1>2. TripsAreSplitAtStops(positions) BY <1>1, DayIsSplitAtStops
<1>3. \A k \in DOMAIN kept : ChunksCover(kept[k])
  <2> TAKE k \in DOMAIN kept
  <2>1. kept \in Seq(Seq(Point)) /\ Len(kept[k]) >= 2 BY <1>1, KeptInTime
  <2>2. kept[k] \in Seq(Point) BY <2>1, ElementOfSeq, LenProperties
  <2> QED BY <2>1, <2>2, TripIsCovered
<1>4. CASE route = NotFetched
  <2>1. route.status = "none" BY <1>4 DEF NotFetched
  <2> QED BY <1>2, <1>3, <2>1 DEF RouteIsSplitAndJoined
<1>5. ASSUME NEW lost, NEW failed, route = FetchVehicleRoute(positions, lost, failed)
      PROVE  RouteIsSplitAndJoined
  <2> DEFINE drawn == Drawn(positions, lost)
             trips == TripsToMatch(positions)
  <2>1. /\ route.trips = drawn /\ route.lost = lost
        /\ route.status = IF drawn # <<>> THEN "loaded" ELSE IF failed # {} THEN "error" ELSE "empty"
    BY <1>5, FetchedIs
  <2>2. trips = IF Len(positions) < 2 THEN <<>> ELSE kept BY DEF TripsToMatch
  <2>3. \A k \in 1..(Len(drawn) - 1) : drawn[k].lastMovement <= drawn[k + 1].firstMovement
    BY <1>1, DrawnInTime
  <2>4. lost = {} =>
          /\ Len(drawn) = Len(trips)
          /\ \A k \in 1..Len(trips) :
                /\ Len(drawn[k].segments) = 1
                /\ drawn[k].segments[1][1] = trips[k][1]
                /\ Last(drawn[k].segments[1]) = Last(trips[k])
    BY <1>1, WholeRouteIsDrawn
  <2>5. /\ trips \in Seq(Seq(Point)) /\ DOMAIN trips = 1..Len(trips) /\ Len(trips) \in Nat
        /\ (trips = <<>> <=> Len(trips) = 0)
    BY <1>1, TripsToMatchInTime, EmptySeq
  <2>6. drawn = <<>> => Len(drawn) = 0 BY EmptySeq
  <2> HIDE DEF kept, drawn, trips
  <2>7. route.status = "loaded" =>
          /\ \A k \in 1..(Len(route.trips) - 1) :
                route.trips[k].lastMovement <= route.trips[k + 1].firstMovement
          /\ route.lost = {} =>
                /\ Len(route.trips) = Len(kept)
                /\ \A k \in DOMAIN kept :
                      /\ Len(route.trips[k].segments) = 1
                      /\ route.trips[k].segments[1][1] = kept[k][1]
                      /\ Last(route.trips[k].segments[1]) = Last(kept[k])
    <3> SUFFICES ASSUME route.status = "loaded"
                 PROVE  lost = {} => /\ Len(drawn) = Len(kept)
                                     /\ \A k \in DOMAIN kept :
                                           /\ Len(drawn[k].segments) = 1
                                           /\ drawn[k].segments[1][1] = kept[k][1]
                                           /\ Last(drawn[k].segments[1]) = Last(kept[k])
      BY <2>1, <2>3
    <3> SUFFICES ASSUME lost = {}
                 PROVE  /\ Len(drawn) = Len(kept)
                        /\ \A k \in DOMAIN kept :
                              /\ Len(drawn[k].segments) = 1
                              /\ drawn[k].segments[1][1] = kept[k][1]
                              /\ Last(drawn[k].segments[1]) = Last(kept[k])
      OBVIOUS
    <3>1. drawn # <<>> BY <2>1
    <3>2. trips # <<>>
      <4>1. \E X : drawn \in Seq(X)
        <5>1. PICK X : Matches(positions, lost) \in Seq(X) BY <1>1, MatchesAre
        <5>2. HaveLines(positions, lost) \in SUBSET DOMAIN Matches(positions, lost)
          BY DEF HaveLines
        <5> QED BY <5>1, <5>2, PickedType DEF drawn, Drawn
      <4>2. Len(drawn) # 0 BY <3>1, <4>1, EmptySeq
      <4> QED BY <2>4, <2>5, <4>2
    <3>3. trips = kept BY <2>2, <3>2
    <3> QED BY <2>4, <2>5, <3>3
  <2>8. route.status \in {"empty", "error"} => lost # {} \/ Len(positions) < 2 \/ kept = <<>>
    <3> SUFFICES ASSUME route.status \in {"empty", "error"}, lost = {}, ~(Len(positions) < 2)
                 PROVE  kept = <<>>
      OBVIOUS
    <3>1. drawn = <<>> BY <2>1
    <3>2. trips = <<>> BY <2>4, <2>5, <2>6, <3>1
    <3> QED BY <2>2, <3>2
  <2> QED BY <1>2, <1>3, <2>1, <2>7, <2>8 DEF RouteIsSplitAndJoined, kept
<1> QED BY <1>1, <1>4, <1>5 DEF RouteIsOfDay, IsFetched

\* Whatever a vehicle reports in the course of a day, its trips are split where it
\* stopped and nowhere else, no move is lost between two requests to Map Matching,
\* and what was matched whole is drawn whole, in time (vehicle-routes.ts:49-231).
THEOREM RouteIsWhole == RoutesSpec => []RouteIsSplitAndJoined
<1> QED BY RoutesInitInv, RoutesStep, FetchedIsWhole, PTL DEF RoutesSpec
===============================================================================
