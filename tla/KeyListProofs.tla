---------------------------- MODULE KeyListProofs ----------------------------
(***************************************************************************)
(* Theorems about KeyList, for any entries, filters and number of writes.  *)
(***************************************************************************)
EXTENDS KeyList, FiniteSetTheorems, FunctionTheorems, SequenceTheorems,
        WellFoundedInduction, TLAPS

-----------------------------------------------------------------------------
(* Sets                                                                    *)

(* A set of naturals has a least element.                                  *)
LEMMA Least ==
  ASSUME NEW T \in SUBSET Nat, T # {}
  PROVE  \E m \in T : \A k \in T : m <= k
  <1> DEFINE R == OpToRel(<, Nat)
  <1>1. \A k, m \in Nat : k < m => <<k, m>> \in R
    BY DEF OpToRel
  <1>2. IsWellFoundedOn(R, Nat)
    BY NatLessThanWellFounded
  <1> HIDE DEF R
  <1>3. PICK m \in T : \A k \in T : ~(<<k, m>> \in R)
    BY <1>2, WFMin
  <1>4. \A k \in T : ~(k < m)
    BY <1>1, <1>3
  <1> QED
    BY <1>4

LEMMA CardSub ==
  ASSUME NEW S, IsFiniteSet(S), NEW T, T \subseteq S
  PROVE  /\ IsFiniteSet(T) /\ Cardinality(T) <= Cardinality(S)
         /\ Cardinality(T) \in Nat /\ Cardinality(S) \in Nat
  BY FS_Subset, FS_CardinalityType

LEMMA CardLess ==
  ASSUME NEW S, IsFiniteSet(S), NEW T, T \subseteq S, NEW x \in S, x \notin T
  PROVE  /\ IsFiniteSet(T) /\ Cardinality(T) < Cardinality(S)
         /\ Cardinality(T) \in Nat /\ Cardinality(S) \in Nat
  <1>1. IsFiniteSet(S \ {x}) /\ Cardinality(S \ {x}) = Cardinality(S) - 1
    BY FS_RemoveElement
  <1>2. T \subseteq S \ {x}
    OBVIOUS
  <1>3. /\ IsFiniteSet(T) /\ Cardinality(T) <= Cardinality(S \ {x})
        /\ Cardinality(T) \in Nat
    BY <1>1, <1>2, CardSub
  <1>4. Cardinality(S) \in Nat
    BY FS_CardinalityType
  <1> QED
    BY <1>1, <1>3, <1>4

LEMMA Upto ==
  ASSUME NEW n \in Nat
  PROVE  IsFiniteSet(1..n) /\ Cardinality(1..n) = n
  BY FS_Interval

LEMMA SameLength ==
  ASSUME NEW a \in Nat, NEW b \in Nat, 1..a = 1..b
  PROVE  a = b
  OBVIOUS

-----------------------------------------------------------------------------
(* Filters                                                                 *)

LEMMA Elements ==
  ASSUME NEW V, NEW seq \in Seq(V)
  PROVE  Len(seq) \in Nat /\ DOMAIN seq = 1..Len(seq) /\ \A i \in 1..Len(seq) : seq[i] \in V
  OBVIOUS

(* How many have passed grows by one where an element of S does.           *)
LEMMA PassedFacts ==
  ASSUME NEW seq, NEW S, Len(seq) \in Nat
  PROVE  /\ \A k \in 0..Len(seq) : Passed(seq, S, k) \in 0..k
         /\ \A k \in 1..Len(seq) :
              Passed(seq, S, k) = Passed(seq, S, k - 1) + IF seq[k] \in S THEN 1 ELSE 0
         /\ \A k, l \in 0..Len(seq) : k <= l => Passed(seq, S, k) <= Passed(seq, S, l)
         /\ \A k \in 0..Len(seq), l \in 1..Len(seq) :
              k < l /\ seq[l] \in S => Passed(seq, S, k) < Passed(seq, S, l)
  <1> DEFINE In(k) == {l \in 1..k : seq[l] \in S}
             n == Len(seq)
  <1>1. \A k \in 0..n : Passed(seq, S, k) = Cardinality(In(k))
    BY DEF Passed
  <1>2. ASSUME NEW k \in 0..n
        PROVE  IsFiniteSet(In(k)) /\ Cardinality(In(k)) \in Nat /\ Cardinality(In(k)) <= k
    <2>1. IsFiniteSet(1..k) /\ Cardinality(1..k) = k
      BY Upto
    <2>2. In(k) \subseteq 1..k
      OBVIOUS
    <2> HIDE DEF In
    <2> QED
      BY <2>1, <2>2, CardSub
  <1>3. ASSUME NEW k \in 1..n
        PROVE  Cardinality(In(k)) = Cardinality(In(k - 1)) + IF seq[k] \in S THEN 1 ELSE 0
    <2>1. k - 1 \in 0..n
      OBVIOUS
    <2>2. CASE seq[k] \in S
      <3>1. In(k) = In(k - 1) \cup {k} /\ k \notin In(k - 1)
        BY <2>2
      <3> HIDE DEF In
      <3> QED
        BY <1>2, <2>1, <2>2, <3>1, FS_AddElement
    <2>3. CASE seq[k] \notin S
      <3>1. In(k) = In(k - 1)
        BY <2>3
      <3> HIDE DEF In
      <3> QED
        BY <1>2, <2>1, <2>3, <3>1
    <2> QED
      BY <2>2, <2>3
  <1>4. ASSUME NEW k \in 0..n, NEW l \in 0..n, k <= l
        PROVE  Cardinality(In(k)) <= Cardinality(In(l))
    <2>1. In(k) \subseteq In(l)
      BY <1>4
    <2> HIDE DEF In
    <2> QED
      BY <1>2, <2>1, CardSub
  <1>5. ASSUME NEW k \in 0..n, NEW l \in 1..n, k < l, seq[l] \in S
        PROVE  Cardinality(In(k)) < Cardinality(In(l))
    <2>1. In(k) \subseteq In(l) /\ l \in In(l) /\ l \notin In(k) /\ l \in 0..n
      BY <1>5
    <2> HIDE DEF In
    <2> QED
      BY <1>2, <2>1, CardLess
  <1> HIDE DEF In
  <1>6. \A k \in 1..n : k - 1 \in 0..n /\ k \in 0..n
    OBVIOUS
  <1>7. \A k \in 0..Len(seq) : Passed(seq, S, k) \in 0..k
    BY <1>1, <1>2
  <1>8. \A k \in 1..Len(seq) :
          Passed(seq, S, k) = Passed(seq, S, k - 1) + IF seq[k] \in S THEN 1 ELSE 0
    BY <1>1, <1>3, <1>6
  <1>9. \A k, l \in 0..Len(seq) : k <= l => Passed(seq, S, k) <= Passed(seq, S, l)
    BY <1>1, <1>4
  <1>10. \A k \in 0..Len(seq), l \in 1..Len(seq) :
           k < l /\ seq[l] \in S => Passed(seq, S, k) < Passed(seq, S, l)
    BY <1>1, <1>5, <1>6
  <1> QED
    BY <1>7, <1>8, <1>9, <1>10

(* Every number up to the last is reached at just one element of S.        *)
LEMMA Reached ==
  ASSUME NEW seq, NEW S, Len(seq) \in Nat, NEW n \in 1..Passed(seq, S, Len(seq))
  PROVE  \E k \in 1..Len(seq) : seq[k] \in S /\ Passed(seq, S, k) = n
  <1> DEFINE P(k) == Passed(seq, S, k)
             T == {k \in 0..Len(seq) : n <= P(k)}
  <1>1. /\ \A k \in 0..Len(seq) : P(k) \in 0..k
        /\ \A k \in 1..Len(seq) : P(k) = P(k - 1) + IF seq[k] \in S THEN 1 ELSE 0
    BY PassedFacts
  <1> HIDE DEF P
  <1>2. Len(seq) \in T
    BY DEF P
  <1>3. PICK k \in T : \A m \in T : k <= m
    <2>1. T \subseteq Nat
      OBVIOUS
    <2> HIDE DEF T
    <2> QED
      BY <1>2, <2>1, Least
  <1>4. k \in 0..Len(seq) /\ n <= P(k) /\ n \in Nat /\ n >= 1
    BY <1>1, <1>3 DEF P
  <1>5. k # 0
    BY <1>1, <1>4
  <1>6. k \in 1..Len(seq) /\ k - 1 \in 0..Len(seq)
    BY <1>4, <1>5
  <1>7. ~(n <= P(k - 1))
    <2> SUFFICES ASSUME n <= P(k - 1) PROVE FALSE
      OBVIOUS
    <2>1. k - 1 \in T
      BY <1>6
    <2>2. k <= k - 1
      <3> HIDE DEF T
      <3> QED
        BY <1>3, <2>1
    <2> QED
      BY <1>4, <2>2
  <1>8. seq[k] \in S /\ P(k) = n
    BY <1>1, <1>4, <1>6, <1>7
  <1> QED
    BY <1>6, <1>8 DEF P

LEMMA FilterFacts ==
  ASSUME NEW V, NEW seq \in Seq(V), NEW S
  PROVE  /\ Filter(seq, S) \in Seq(V)
         /\ Len(Filter(seq, S)) = Passed(seq, S, Len(seq))
         /\ \A k \in 1..Len(seq) : seq[k] \in S =>
              /\ Passed(seq, S, k) \in 1..Len(Filter(seq, S))
              /\ Filter(seq, S)[Passed(seq, S, k)] = seq[k]
         /\ \A n \in 1..Len(Filter(seq, S)) :
              \E k \in 1..Len(seq) : /\ seq[k] \in S /\ Passed(seq, S, k) = n
                                     /\ Filter(seq, S)[n] = seq[k]
  <1> DEFINE P(k) == Passed(seq, S, k)
             m == P(Len(seq))
             At(n) == CHOOSE k \in 1..Len(seq) : seq[k] \in S /\ P(k) = n
             f == Filter(seq, S)
  <1>1. Len(seq) \in Nat /\ \A i \in 1..Len(seq) : seq[i] \in V
    BY Elements
  <1>2. /\ m \in Nat
        /\ \A k, l \in 0..Len(seq) : k <= l => P(k) <= P(l)
        /\ \A k \in 0..Len(seq), l \in 1..Len(seq) : k < l /\ seq[l] \in S => P(k) < P(l)
        /\ \A k \in 0..Len(seq) : P(k) \in Nat
    <2>1. \A k \in 0..Len(seq) : Passed(seq, S, k) \in 0..k
      BY <1>1, PassedFacts
    <2>2. \A k \in 0..Len(seq) : P(k) \in Nat
      BY <1>1, <2>1
    <2>3. m \in Nat
      BY <1>1, <2>2
    <2> QED
      BY <1>1, <2>2, <2>3, PassedFacts
  <1>3. \A n \in 1..m : \E k \in 1..Len(seq) : seq[k] \in S /\ P(k) = n
    BY <1>1, Reached
  <1>4. f = [n \in 1..m |-> seq[At(n)]]
    BY DEF Filter
  <1> HIDE DEF P, f
  <1>5. \A n \in 1..m : At(n) \in 1..Len(seq) /\ seq[At(n)] \in S /\ P(At(n)) = n
    <2> HIDE DEF m
    <2> QED
      BY <1>3
  <1>6. ASSUME NEW k \in 1..Len(seq), seq[k] \in S
        PROVE  P(k) \in 1..m /\ At(P(k)) = k
    <2>1. k \in 0..Len(seq) /\ 0 \in 0..Len(seq) /\ Len(seq) \in 0..Len(seq)
      BY <1>1
    <2>2. P(0) < P(k) /\ P(k) <= P(Len(seq))
      BY <1>1, <1>2, <1>6, <2>1
    <2>3. P(k) \in 1..m
      BY <1>2, <2>1, <2>2
    <2>4. At(P(k)) \in 1..Len(seq) /\ seq[At(P(k))] \in S /\ P(At(P(k))) = P(k)
      BY <1>5, <2>3
    <2> HIDE DEF At
    <2>5. ~(At(P(k)) < k) /\ ~(k < At(P(k)))
      BY <1>1, <1>2, <1>6, <2>4
    <2> QED
      BY <1>1, <2>3, <2>4, <2>5
  <1> HIDE DEF At, m
  <1>7. f \in [1..m -> V]
    BY <1>1, <1>4, <1>5
  <1>8. f \in Seq(V)
    BY <1>2, <1>7, SeqDef
  <1>9. Len(f) = m
    <2>1. Len(f) \in Nat /\ DOMAIN f = 1..Len(f)
      BY <1>8, LenProperties
    <2>2. 1..Len(f) = 1..m
      BY <1>7, <2>1
    <2> QED
      BY <1>2, <2>1, <2>2, SameLength
  <1>10. \A k \in 1..Len(seq) : seq[k] \in S => P(k) \in 1..m /\ f[P(k)] = seq[k]
    BY <1>4, <1>6
  <1>11. \A n \in 1..m : \E k \in 1..Len(seq) : seq[k] \in S /\ P(k) = n /\ f[n] = seq[k]
    BY <1>4, <1>5
  <1> QED
    BY <1>8, <1>9, <1>10, <1>11 DEF P, f, m

LEMMA FilterSets ==
  ASSUME NEW V, NEW seq \in Seq(V), NEW S
  PROVE  /\ ToSet(Filter(seq, S)) = ToSet(seq) \cap S
         /\ IsInjective(seq) => IsInjective(Filter(seq, S))
  <1> DEFINE f == Filter(seq, S)
             P(k) == Passed(seq, S, k)
  <1>1. /\ f \in Seq(V)
        /\ \A k \in 1..Len(seq) : seq[k] \in S => P(k) \in 1..Len(f) /\ f[P(k)] = seq[k]
        /\ \A n \in 1..Len(f) :
             \E k \in 1..Len(seq) : seq[k] \in S /\ P(k) = n /\ f[n] = seq[k]
    BY FilterFacts
  <1> HIDE DEF f, P
  <1>2. DOMAIN f = 1..Len(f) /\ DOMAIN seq = 1..Len(seq)
    BY <1>1, LenProperties
  <1>3. ToSet(f) = ToSet(seq) \cap S
    <2>1. ASSUME NEW n \in 1..Len(f)
          PROVE  f[n] \in ToSet(seq) \cap S
      <3>1. PICK k \in 1..Len(seq) : seq[k] \in S /\ f[n] = seq[k]
        BY <1>1
      <3> QED
        BY <1>2, <3>1 DEF ToSet
    <2>2. ASSUME NEW k \in 1..Len(seq), seq[k] \in S
          PROVE  seq[k] \in ToSet(f)
      <3>1. P(k) \in 1..Len(f) /\ f[P(k)] = seq[k]
        BY <1>1, <2>2
      <3> QED
        BY <1>2, <3>1 DEF ToSet
    <2>3. ToSet(f) \subseteq ToSet(seq) \cap S
      BY <1>2, <2>1 DEF ToSet
    <2>4. ToSet(seq) \cap S \subseteq ToSet(f)
      BY <1>2, <2>2 DEF ToSet
    <2> QED
      BY <2>3, <2>4
  <1>4. ASSUME IsInjective(seq), NEW a \in DOMAIN f, NEW b \in DOMAIN f, f[a] = f[b]
        PROVE  a = b
    <2>1. PICK k \in 1..Len(seq) : P(k) = a /\ f[a] = seq[k]
      BY <1>1, <1>2
    <2>2. PICK l \in 1..Len(seq) : P(l) = b /\ f[b] = seq[l]
      BY <1>1, <1>2
    <2>3. k = l
      BY <1>2, <1>4, <2>1, <2>2 DEF IsInjective
    <2> QED
      BY <2>1, <2>2, <2>3
  <1> QED
    BY <1>3, <1>4 DEF IsInjective, f

(* A filter that lets everything through, or nothing, and one that is told *)
(* by what it has let through.                                             *)
LEMMA FilterAll ==
  ASSUME NEW V, NEW seq \in Seq(V), NEW S, ToSet(seq) \subseteq S
  PROVE  Filter(seq, S) = seq
  <1> DEFINE P(k) == Passed(seq, S, k)
             f == Filter(seq, S)
             n == Len(seq)
             T == {k \in 0..n : P(k) # k}
  <1>1. n \in Nat /\ DOMAIN seq = 1..n /\ \A k \in 1..n : seq[k] \in S
    BY Elements DEF ToSet
  <1>2. /\ \A k \in 0..n : P(k) \in 0..k
        /\ \A k \in 1..n : P(k) = P(k - 1) + IF seq[k] \in S THEN 1 ELSE 0
    BY <1>1, PassedFacts
  <1>3. /\ f \in Seq(V) /\ Len(f) = P(n)
        /\ \A k \in 1..n : seq[k] \in S => f[P(k)] = seq[k]
    BY FilterFacts
  <1> HIDE DEF P, f, n
  <1>4. T = {}
    <2> SUFFICES ASSUME T # {} PROVE FALSE
      OBVIOUS
    <2>1. PICK k \in T : \A l \in T : k <= l
      <3>1. T \subseteq Nat
        BY <1>1
      <3> HIDE DEF T
      <3> QED
        BY <3>1, Least
    <2>2. k \in 0..n /\ P(k) # k
      BY <2>1
    <2>3. k # 0
      BY <1>1, <1>2, <2>2
    <2>4. k \in 1..n /\ k - 1 \in 0..n
      BY <1>1, <2>2, <2>3
    <2>5. k - 1 \notin T
      <3> SUFFICES ASSUME k - 1 \in T PROVE FALSE
        OBVIOUS
      <3>1. k <= k - 1
        <4> HIDE DEF T
        <4> QED
          BY <2>1
      <3> QED
        BY <2>2, <3>1
    <2>6. P(k - 1) = k - 1
      BY <2>4, <2>5
    <2> QED
      BY <1>1, <1>2, <2>2, <2>4, <2>6
  <1>5. \A k \in 0..n : P(k) = k
    BY <1>4
  <1>6. Len(f) = n /\ \A k \in 1..n : f[k] = seq[k]
    BY <1>1, <1>3, <1>5
  <1>7. f \in [1..n -> V] /\ seq \in [1..n -> V]
    BY <1>3, <1>6, LenProperties DEF n
  <1>8. f = seq
    BY <1>6, <1>7
  <1> QED
    BY <1>8 DEF f

LEMMA FilterNone ==
  ASSUME NEW V, NEW seq \in Seq(V), NEW S, ToSet(seq) \cap S = {}
  PROVE  Filter(seq, S) = <<>>
  <1>1. Filter(seq, S) \in Seq(V) /\ ToSet(Filter(seq, S)) = {}
    BY FilterFacts, FilterSets
  <1>2. Len(Filter(seq, S)) = 0
    <2>1. Len(Filter(seq, S)) \in Nat /\ DOMAIN Filter(seq, S) = 1..Len(Filter(seq, S))
      BY <1>1, LenProperties
    <2> SUFFICES ASSUME Len(Filter(seq, S)) # 0 PROVE FALSE
      OBVIOUS
    <2>2. 1 \in DOMAIN Filter(seq, S)
      BY <2>1
    <2> QED
      BY <1>1, <2>2 DEF ToSet
  <1> QED
    BY <1>1, <1>2, EmptySeq

-----------------------------------------------------------------------------
(* Places                                                                  *)

LEMMA PlaceFacts ==
  ASSUME NEW V, NEW ids \in Seq(V), NEW id
  PROVE  /\ Place(ids, id) \in 0..Len(ids)
         /\ Place(ids, id) = 0 <=> id \notin ToSet(ids)
         /\ Place(ids, id) # 0 => ids[Place(ids, id)] = id
  <1> DEFINE I == {i \in 1..Len(ids) : ids[i] = id}
  <1>1. Len(ids) \in Nat /\ DOMAIN ids = 1..Len(ids)
    BY Elements
  <1>2. Place(ids, id) = IF I # {} THEN Min(I) ELSE 0
    BY DEF Place, SelectInSeq
  <1>3. I # {} => Min(I) \in I
    <2> SUFFICES ASSUME I # {} PROVE Min(I) \in I
      OBVIOUS
    <2>1. I \subseteq Nat
      OBVIOUS
    <2> HIDE DEF I
    <2>2. \E m \in I : \A k \in I : m <= k
      BY <2>1, Least
    <2> QED
      BY <2>2 DEF Min
  <1>4. I = {} <=> id \notin ToSet(ids)
    BY <1>1 DEF ToSet
  <1> QED
    BY <1>1, <1>2, <1>3, <1>4

LEMMA PlaceOf ==
  ASSUME NEW V, NEW ids \in Seq(V), IsInjective(ids), NEW k \in 1..Len(ids)
  PROVE  Place(ids, ids[k]) = k
  <1>1. Len(ids) \in Nat /\ DOMAIN ids = 1..Len(ids)
    BY Elements
  <1>2. ids[k] \in ToSet(ids)
    BY <1>1 DEF ToSet
  <1>3. Place(ids, ids[k]) \in 1..Len(ids) /\ ids[Place(ids, ids[k])] = ids[k]
    BY <1>1, <1>2, PlaceFacts
  <1> QED
    BY <1>1, <1>3 DEF IsInjective

-----------------------------------------------------------------------------
(* Moving one element                                                      *)

LEMMA RemoveFacts ==
  ASSUME NEW V, NEW seq \in Seq(V), NEW x \in 1..Len(seq)
  PROVE  /\ RemoveAt(seq, x) \in Seq(V)
         /\ Len(RemoveAt(seq, x)) = Len(seq) - 1
         /\ \A k \in 1..(Len(seq) - 1) :
              RemoveAt(seq, x)[k] = IF k < x THEN seq[k] ELSE seq[k + 1]
  <1> DEFINE n == Len(seq)
             A == SubSeq(seq, 1, x - 1)
             B == SubSeq(seq, x + 1, n)
  <1>1. n \in Nat /\ \A k \in 1..n : seq[k] \in V
    BY Elements
  <1>2. A \in Seq(V) /\ Len(A) = x - 1 /\ \A k \in 1..(x - 1) : A[k] = seq[k]
    <2>1. \A k \in 1..(x - 1) : seq[k] \in V
      BY <1>1
    <2>2. /\ A \in Seq(V) /\ Len(A) = IF 1 <= x - 1 THEN (x - 1) - 1 + 1 ELSE 0
          /\ \A k \in 1..((x - 1) - 1 + 1) : A[k] = seq[1 + k - 1]
      BY <1>1, <2>1, SubSeqProperties
    <2> HIDE DEF A
    <2> QED
      BY <1>1, <2>2
  <1>3. B \in Seq(V) /\ Len(B) = n - x /\ \A k \in 1..(n - x) : B[k] = seq[k + x]
    <2>1. \A k \in (x + 1)..n : seq[k] \in V
      BY <1>1
    <2>2. /\ B \in Seq(V) /\ Len(B) = IF x + 1 <= n THEN n - (x + 1) + 1 ELSE 0
          /\ \A k \in 1..(n - (x + 1) + 1) : B[k] = seq[x + 1 + k - 1]
      BY <1>1, <2>1, SubSeqProperties
    <2> HIDE DEF B
    <2> QED
      BY <1>1, <2>2
  <1> HIDE DEF A, B
  <1>4. /\ A \o B \in Seq(V) /\ Len(A \o B) = Len(A) + Len(B)
        /\ \A k \in 1..(Len(A) + Len(B)) :
             (A \o B)[k] = IF k <= Len(A) THEN A[k] ELSE B[k - Len(A)]
    BY <1>2, <1>3, ConcatProperties
  <1>5. ASSUME NEW k \in 1..(n - 1)
        PROVE  (A \o B)[k] = IF k < x THEN seq[k] ELSE seq[k + 1]
    <2>1. (A \o B)[k] = IF k <= x - 1 THEN A[k] ELSE B[k - (x - 1)]
      BY <1>1, <1>2, <1>3, <1>4
    <2>2. CASE k < x
      BY <1>1, <1>2, <2>1, <2>2
    <2>3. CASE ~(k < x)
      <3>1. k - (x - 1) \in 1..(n - x) /\ k - (x - 1) + x = k + 1 /\ ~(k <= x - 1)
        BY <1>1, <2>3
      <3>2. (A \o B)[k] = B[k - (x - 1)]
        BY <2>1, <3>1
      <3>3. B[k - (x - 1)] = seq[k + 1]
        BY <1>3, <3>1
      <3> QED
        BY <2>3, <3>2, <3>3
    <2> QED
      BY <2>2, <2>3
  <1>6. Len(A \o B) = n - 1
    BY <1>1, <1>2, <1>3, <1>4
  <1> QED
    BY <1>4, <1>5, <1>6 DEF RemoveAt, A, B

LEMMA InsertFacts ==
  ASSUME NEW V, NEW seq \in Seq(V), NEW x \in 1..(Len(seq) + 1), NEW e \in V
  PROVE  /\ InsertAt(seq, x, e) \in Seq(V)
         /\ Len(InsertAt(seq, x, e)) = Len(seq) + 1
         /\ \A k \in 1..(Len(seq) + 1) :
              InsertAt(seq, x, e)[k] =
                IF k < x THEN seq[k] ELSE IF k = x THEN e ELSE seq[k - 1]
  <1> DEFINE n == Len(seq)
             A == SubSeq(seq, 1, x - 1)
             B == SubSeq(seq, x, n)
             E == <<e>>
             C == A \o E
  <1>1. n \in Nat /\ \A k \in 1..n : seq[k] \in V
    BY Elements
  <1>2. A \in Seq(V) /\ Len(A) = x - 1 /\ \A k \in 1..(x - 1) : A[k] = seq[k]
    <2>1. \A k \in 1..(x - 1) : seq[k] \in V
      BY <1>1
    <2>2. /\ A \in Seq(V) /\ Len(A) = IF 1 <= x - 1 THEN (x - 1) - 1 + 1 ELSE 0
          /\ \A k \in 1..((x - 1) - 1 + 1) : A[k] = seq[1 + k - 1]
      BY <1>1, <2>1, SubSeqProperties
    <2> HIDE DEF A
    <2> QED
      BY <1>1, <2>2
  <1>3. B \in Seq(V) /\ Len(B) = n - x + 1 /\ \A k \in 1..(n - x + 1) : B[k] = seq[k + x - 1]
    <2>1. \A k \in x..n : seq[k] \in V
      BY <1>1
    <2>2. /\ B \in Seq(V) /\ Len(B) = IF x <= n THEN n - x + 1 ELSE 0
          /\ \A k \in 1..(n - x + 1) : B[k] = seq[x + k - 1]
      BY <1>1, <2>1, SubSeqProperties
    <2> HIDE DEF B
    <2> QED
      BY <1>1, <2>2
  <1> HIDE DEF A, B
  <1>4. /\ C \in Seq(V) /\ Len(C) = x
        /\ \A k \in 1..x : C[k] = IF k < x THEN A[k] ELSE e
    <2>1. E \in Seq(V) /\ Len(E) = 1 /\ E[1] = e
      OBVIOUS
    <2> HIDE DEF E
    <2>2. /\ A \o E \in Seq(V) /\ Len(A \o E) = Len(A) + Len(E)
          /\ \A k \in 1..(Len(A) + Len(E)) :
               (A \o E)[k] = IF k <= Len(A) THEN A[k] ELSE E[k - Len(A)]
      BY <1>2, <2>1, ConcatProperties
    <2>3. Len(C) = x
      BY <1>1, <1>2, <2>1, <2>2
    <2>4. ASSUME NEW k \in 1..x PROVE C[k] = IF k < x THEN A[k] ELSE e
      <3>1. C[k] = IF k <= x - 1 THEN A[k] ELSE E[k - (x - 1)]
        BY <1>1, <1>2, <2>1, <2>2
      <3>2. CASE k < x
        <4>1. k <= x - 1
          BY <1>1, <3>2
        <4> QED
          BY <3>1, <3>2, <4>1
      <3>3. CASE k = x
        <4>1. k - (x - 1) = 1 /\ ~(k <= x - 1) /\ ~(k < x)
          BY <1>1, <3>3
        <4>2. C[k] = E[1]
          BY <3>1, <4>1
        <4> QED
          BY <2>1, <4>1, <4>2
      <3>4. k < x \/ k = x
        BY <1>1
      <3> HIDE DEF C
      <3> QED
        BY <3>2, <3>3, <3>4
    <2> QED
      BY <1>2, <2>1, <2>2, <2>3, <2>4
  <1> HIDE DEF C
  <1>5. /\ C \o B \in Seq(V) /\ Len(C \o B) = Len(C) + Len(B)
        /\ \A k \in 1..(Len(C) + Len(B)) :
             (C \o B)[k] = IF k <= Len(C) THEN C[k] ELSE B[k - Len(C)]
    BY <1>3, <1>4, ConcatProperties
  <1>6. Len(C \o B) = n + 1
    BY <1>1, <1>3, <1>4, <1>5
  <1>7. ASSUME NEW k \in 1..(n + 1)
        PROVE  (C \o B)[k] = IF k < x THEN seq[k] ELSE IF k = x THEN e ELSE seq[k - 1]
    <2>1. (C \o B)[k] = IF k <= x THEN C[k] ELSE B[k - x]
      BY <1>1, <1>3, <1>4, <1>5
    <2>2. CASE k <= x
      <3>1. k \in 1..x
        BY <1>1, <2>2
      <3>2. k < x => k \in 1..(x - 1)
        BY <1>1, <2>2
      <3> QED
        BY <1>1, <1>2, <1>4, <2>1, <2>2, <3>1, <3>2
    <2>3. CASE ~(k <= x)
      <3>1. k - x \in 1..(n - x + 1) /\ (k - x) + x - 1 = k - 1
        BY <1>1, <2>3
      <3> QED
        BY <1>1, <1>3, <2>1, <2>3, <3>1
    <2> QED
      BY <2>2, <2>3
  <1> QED
    BY <1>5, <1>6, <1>7 DEF InsertAt, A, B, C, E

(* Where the element at k of a list stands when the one at x goes to y.    *)
LEMMA Shifts ==
  ASSUME NEW n \in Nat, NEW x \in 1..n, NEW y \in 1..n
  PROVE  LET At(k) == IF k = x THEN y ELSE k + SortableShift(x, y, k)
         IN  /\ \A k \in 1..n : At(k) \in 1..n
             /\ \A m \in 1..n : \E k \in 1..n : At(k) = m
  <1> DEFINE At(k) == IF k = x THEN y ELSE k + SortableShift(x, y, k)
             From(m) == IF m = y THEN x
                        ELSE IF x < y /\ m >= x /\ m < y THEN m + 1
                        ELSE IF x > y /\ m > y /\ m <= x THEN m - 1
                        ELSE m
  <1>1. ASSUME NEW k \in 1..n PROVE At(k) \in 1..n
    <2>1. CASE x < y
      BY <2>1 DEF SortableShift
    <2>2. CASE ~(x < y)
      BY <2>2 DEF SortableShift
    <2> QED
      BY <2>1, <2>2
  <1>2. ASSUME NEW m \in 1..n PROVE From(m) \in 1..n /\ At(From(m)) = m
    <2>1. CASE m = y
      BY <2>1
    <2>2. CASE m # y /\ x < y /\ m >= x /\ m < y
      <3>1. From(m) = m + 1 /\ m + 1 # x /\ m + 1 \in 1..n
        BY <2>2
      <3>2. SortableShift(x, y, m + 1) = -1
        BY <2>2 DEF SortableShift
      <3> HIDE DEF From
      <3> QED
        BY <3>1, <3>2
    <2>3. CASE m # y /\ x > y /\ m > y /\ m <= x
      <3>1. From(m) = m - 1 /\ m - 1 # x /\ m - 1 \in 1..n
        BY <2>3
      <3>2. SortableShift(x, y, m - 1) = 1
        BY <2>3 DEF SortableShift
      <3> HIDE DEF From
      <3> QED
        BY <3>1, <3>2
    <2>4. CASE m # y /\ ~(x < y /\ m >= x /\ m < y) /\ ~(x > y /\ m > y /\ m <= x)
      <3>1. From(m) = m /\ m # x
        BY <2>4
      <3>2. SortableShift(x, y, m) = 0
        BY <2>4 DEF SortableShift
      <3> HIDE DEF From
      <3> QED
        BY <3>1, <3>2
    <2> QED
      BY <2>1, <2>2, <2>3, <2>4
  <1> HIDE DEF At, From
  <1>3. \A m \in 1..n : \E k \in 1..n : At(k) = m
    BY <1>2
  <1> QED
    BY <1>1, <1>3 DEF At

LEMMA Moved ==
  ASSUME NEW V, NEW seq \in Seq(V), NEW x \in 1..Len(seq), NEW y \in 1..Len(seq)
  PROVE  LET next == InsertAt(RemoveAt(seq, x), y, seq[x])
         IN  /\ next \in Seq(V) /\ Len(next) = Len(seq)
             /\ ToSet(next) = ToSet(seq)
             /\ IsInjective(seq) => IsInjective(next)
             /\ \A k \in 1..Len(seq) :
                  next[IF k = x THEN y ELSE k + SortableShift(x, y, k)] = seq[k]
  <1> DEFINE n == Len(seq)
             R == RemoveAt(seq, x)
             next == InsertAt(R, y, seq[x])
             At(k) == IF k = x THEN y ELSE k + SortableShift(x, y, k)
  <1>1. n \in Nat /\ DOMAIN seq = 1..n /\ \A k \in 1..n : seq[k] \in V
    BY Elements
  <1>2. /\ R \in Seq(V) /\ Len(R) = n - 1
        /\ \A k \in 1..(n - 1) : R[k] = IF k < x THEN seq[k] ELSE seq[k + 1]
    BY RemoveFacts
  <1> HIDE DEF R
  <1>3. /\ next \in Seq(V) /\ Len(next) = n
        /\ \A k \in 1..n : next[k] = IF k < y THEN R[k] ELSE IF k = y THEN seq[x] ELSE R[k - 1]
    <2>1. y \in 1..(Len(R) + 1) /\ Len(R) + 1 = n /\ seq[x] \in V
      BY <1>1, <1>2
    <2> HIDE DEF n
    <2>2. /\ next \in Seq(V) /\ Len(next) = Len(R) + 1
          /\ \A k \in 1..(Len(R) + 1) :
               next[k] = IF k < y THEN R[k] ELSE IF k = y THEN seq[x] ELSE R[k - 1]
      <3> DEFINE e == seq[x]
      <3>1. e \in V
        BY <2>1
      <3> HIDE DEF e
      <3>2. /\ InsertAt(R, y, e) \in Seq(V) /\ Len(InsertAt(R, y, e)) = Len(R) + 1
            /\ \A k \in 1..(Len(R) + 1) :
                 InsertAt(R, y, e)[k] = IF k < y THEN R[k] ELSE IF k = y THEN e ELSE R[k - 1]
        <4>1. R \in Seq(V) /\ y \in 1..(Len(R) + 1)
          BY <1>2, <2>1
        <4> QED
          BY <3>1, <4>1, InsertFacts
      <3> QED
        BY <3>2 DEF e
    <2> QED
      BY <2>1, <2>2
  <1> HIDE DEF next
  <1>4. /\ \A k \in 1..n : At(k) \in 1..n
        /\ \A m \in 1..n : \E k \in 1..n : At(k) = m
    BY <1>1, Shifts
  <1> HIDE DEF At
  <1>5. ASSUME NEW k \in 1..n PROVE next[At(k)] = seq[k]
    <2>1. CASE k = x
      <3>1. At(k) = y
        BY <2>1 DEF At
      <3> QED
        BY <1>1, <1>3, <2>1, <3>1
    <2>2. CASE x < y /\ k > x /\ k <= y
      <3>1. At(k) = k - 1 /\ k - 1 \in 1..(n - 1) /\ k - 1 < y /\ ~(k - 1 < x) /\ k - 1 + 1 = k
        BY <1>1, <2>2 DEF At, SortableShift
      <3>2. next[k - 1] = R[k - 1]
        BY <1>1, <1>3, <3>1
      <3>3. R[k - 1] = seq[k]
        BY <1>2, <3>1
      <3> QED
        BY <3>1, <3>2, <3>3
    <2>3. CASE x > y /\ k >= y /\ k < x
      <3>1. At(k) = k + 1 /\ k + 1 \in 1..n /\ ~(k + 1 < y) /\ k + 1 # y
            /\ k \in 1..(n - 1) /\ k + 1 - 1 = k
        BY <1>1, <2>3 DEF At, SortableShift
      <3>2. next[k + 1] = R[k]
        BY <1>3, <3>1
      <3>3. R[k] = seq[k]
        BY <1>2, <2>3, <3>1
      <3> QED
        BY <3>1, <3>2, <3>3
    <2>4. CASE k < x /\ k < y
      <3>1. At(k) = k /\ k \in 1..(n - 1)
        BY <1>1, <2>4 DEF At, SortableShift
      <3>2. next[k] = R[k] /\ R[k] = seq[k]
        BY <1>2, <1>3, <2>4, <3>1
      <3> QED
        BY <3>1, <3>2
    <2>5. CASE k > x /\ k > y
      <3>1. At(k) = k /\ k - 1 \in 1..(n - 1) /\ ~(k < y) /\ k # y /\ ~(k - 1 < x)
            /\ k - 1 + 1 = k
        BY <1>1, <2>5 DEF At, SortableShift
      <3>2. next[k] = R[k - 1]
        BY <1>3, <3>1
      <3>3. R[k - 1] = seq[k]
        BY <1>2, <3>1
      <3> QED
        BY <3>1, <3>2, <3>3
    <2>6. \/ k = x
          \/ x < y /\ k > x /\ k <= y
          \/ x > y /\ k >= y /\ k < x
          \/ k < x /\ k < y
          \/ k > x /\ k > y
      BY <1>1
    <2> QED
      BY <2>1, <2>2, <2>3, <2>4, <2>5, <2>6
  <1>6. DOMAIN next = 1..n
    BY <1>3, LenProperties
  <1>7. ToSet(next) = ToSet(seq)
    <2>1. \A e : e \in ToSet(next) <=> \E m \in 1..n : next[m] = e
      BY <1>6 DEF ToSet
    <2>2. \A e : e \in ToSet(seq) <=> \E k \in 1..n : seq[k] = e
      BY <1>1 DEF ToSet
    <2>3. ASSUME NEW m \in 1..n
          PROVE  \E k \in 1..n : seq[k] = next[m]
      <3>1. PICK k \in 1..n : At(k) = m
        BY <1>4
      <3>2. next[m] = seq[k]
        BY <1>5, <3>1
      <3> QED
        BY <3>2
    <2>4. ASSUME NEW k \in 1..n
          PROVE  \E m \in 1..n : next[m] = seq[k]
      BY <1>4, <1>5
    <2> QED
      BY <2>1, <2>2, <2>3, <2>4
  <1>8. ASSUME IsInjective(seq), NEW a \in DOMAIN next, NEW b \in DOMAIN next, next[a] = next[b]
        PROVE  a = b
    <2>1. PICK k \in 1..n : At(k) = a
      BY <1>4, <1>6
    <2>2. PICK l \in 1..n : At(l) = b
      BY <1>4, <1>6
    <2>3. k = l
      BY <1>1, <1>5, <1>8, <2>1, <2>2 DEF IsInjective
    <2> QED
      BY <2>1, <2>2, <2>3
  <1> QED
    BY <1>3, <1>5, <1>7, <1>8 DEF IsInjective, next, At, R

-----------------------------------------------------------------------------
(* Reordering what a filter lets through                                   *)

(* A filter asks only whether an element is in the set.                    *)
LEMMA SamePassed ==
  ASSUME NEW seq, NEW other, NEW S, NEW T, NEW k,
         \A l \in 1..k : seq[l] \in S <=> other[l] \in T
  PROVE  Passed(seq, S, k) = Passed(other, T, k)
  <1>1. {l \in 1..k : seq[l] \in S} = {l \in 1..k : other[l] \in T}
    OBVIOUS
  <1> QED
    BY <1>1 DEF Passed

LEMMA FilterSame ==
  ASSUME NEW V, NEW seq \in Seq(V), NEW S, NEW T,
         ToSet(seq) \cap S = ToSet(seq) \cap T
  PROVE  Filter(seq, S) = Filter(seq, T)
  <1> DEFINE n == Len(seq)
  <1>1. n \in Nat /\ DOMAIN seq = 1..n
    BY Elements
  <1>2. \A k \in 1..n : seq[k] \in S <=> seq[k] \in T
    BY <1>1 DEF ToSet
  <1>3. \A k \in 0..n : Passed(seq, S, k) = Passed(seq, T, k)
    <2> SUFFICES ASSUME NEW k \in 0..n PROVE Passed(seq, S, k) = Passed(seq, T, k)
      OBVIOUS
    <2>1. \A l \in 1..k : seq[l] \in S <=> seq[l] \in T
      BY <1>1, <1>2
    <2> QED
      BY <2>1, SamePassed
  <1>4. /\ Filter(seq, S) \in Seq(V) /\ Filter(seq, T) \in Seq(V)
        /\ Len(Filter(seq, S)) = Passed(seq, S, n) /\ Len(Filter(seq, T)) = Passed(seq, T, n)
    BY FilterFacts
  <1>5. Len(Filter(seq, S)) = Len(Filter(seq, T))
    BY <1>1, <1>3, <1>4
  <1>6. ASSUME NEW m \in 1..Len(Filter(seq, S)) PROVE Filter(seq, S)[m] = Filter(seq, T)[m]
    <2>1. PICK k \in 1..n : /\ seq[k] \in S /\ Passed(seq, S, k) = m
                            /\ Filter(seq, S)[m] = seq[k]
      BY FilterFacts
    <2>2. Filter(seq, T)[Passed(seq, T, k)] = seq[k]
      BY <1>2, <2>1, FilterFacts
    <2>3. Passed(seq, T, k) = m
      BY <1>1, <1>3, <2>1
    <2> QED
      BY <2>1, <2>2, <2>3
  <1> QED
    BY <1>4, <1>5, <1>6, SeqEqual

LEMMA Reordered ==
  ASSUME NEW V, NEW all \in Seq(V), IsInjective(all), NEW S,
         NEW next \in Seq(V), IsInjective(next), Len(next) = Len(Filter(all, S)),
         ToSet(next) = ToSet(Filter(all, S))
  PROVE  LET visible == Filter(all, S)
             r == ApplyVisibleReorder(all, visible, next)
         IN  /\ r \in Seq(V) /\ IsInjective(r)
             /\ Len(r) = Len(all) /\ ToSet(r) = ToSet(all)
             /\ \A k \in 1..Len(all) : all[k] \notin ToSet(visible) => r[k] = all[k]
             /\ Filter(r, ToSet(visible)) = next
  <1> DEFINE visible == Filter(all, S)
             W == ToSet(visible)
             r == ApplyVisibleReorder(all, visible, next)
             n == Len(all)
             m == Len(next)
             P(k) == Passed(all, W, k)
  <1>1. /\ n \in Nat /\ DOMAIN all = 1..n /\ \A k \in 1..n : all[k] \in V
        /\ m \in Nat /\ DOMAIN next = 1..m /\ \A k \in 1..m : next[k] \in V
    BY Elements
  <1>2. W = ToSet(all) \cap S /\ IsInjective(visible)
    BY FilterSets
  <1>3. Filter(all, W) = visible /\ visible \in Seq(V)
    <2> HIDE DEF W
    <2>1. ToSet(all) \cap W = ToSet(all) \cap S
      BY <1>2
    <2> QED
      BY <2>1, FilterSame, FilterFacts
  <1> HIDE DEF visible
  <1>4. Len(visible) = m /\ ToSet(next) = W
    BY DEF visible
  <1>5. r = [k \in DOMAIN all |-> IF all[k] \in W THEN next[P(k)] ELSE all[k]]
    <2>1. ~(\/ Len(visible) # Len(next) \/ ~IsInjective(visible)
            \/ ~(W \subseteq ToSet(all)) \/ ~(ToSet(next) \subseteq W))
      BY <1>2, <1>4
    <2> QED
      BY <2>1 DEF ApplyVisibleReorder
  <1> HIDE DEF W, r, n, m
  <1>6. /\ \A k \in 1..n : all[k] \in W => P(k) \in 1..m
        /\ \A i \in 1..m : \E k \in 1..n : all[k] \in W /\ P(k) = i
    <2>1. \A k \in 1..Len(all) : all[k] \in W => Passed(all, W, k) \in 1..Len(Filter(all, W))
      BY FilterFacts
    <2>2. \A i \in 1..Len(Filter(all, W)) :
            \E k \in 1..Len(all) : all[k] \in W /\ Passed(all, W, k) = i
      BY FilterFacts
    <2> QED
      BY <1>3, <1>4, <2>1, <2>2 DEF n, P
  <1>7. ASSUME NEW k \in 1..n, NEW l \in 1..n, all[k] \in W, all[l] \in W, P(k) = P(l)
        PROVE  k = l
    <2>1. \A i \in 0..Len(all), j \in 1..Len(all) :
            i < j /\ all[j] \in W => Passed(all, W, i) < Passed(all, W, j)
      BY <1>1, PassedFacts DEF n
    <2>2. \A i \in 0..Len(all) : Passed(all, W, i) \in 0..i
      BY <1>1, PassedFacts DEF n
    <2>a. \A i \in 0..n, j \in 1..n : i < j /\ all[j] \in W => P(i) < P(j)
      BY <2>1 DEF n
    <2>b. \A i \in 0..n : P(i) \in Nat
      <3> SUFFICES ASSUME NEW i \in 0..n PROVE P(i) \in Nat
        OBVIOUS
      <3>1. Passed(all, W, i) \in 0..i
        BY <2>2 DEF n
      <3> QED
        BY <1>1, <3>1
    <2> HIDE DEF P
    <2>3. k \in 0..n /\ l \in 0..n
      BY <1>1
    <2>4. ~(k < l) /\ ~(l < k)
      BY <1>7, <2>a, <2>b, <2>3
    <2> QED
      BY <1>1, <2>4
  <1> HIDE DEF P
  <1>8. /\ \A i \in 1..m : next[i] \in W
        /\ \A e \in W : \E i \in 1..m : next[i] = e
    BY <1>1, <1>4 DEF ToSet
  <1>9. /\ DOMAIN r = 1..n
        /\ \A k \in 1..n : all[k] \in W => r[k] = next[P(k)] /\ P(k) \in 1..m /\ r[k] \in W
        /\ \A k \in 1..n : all[k] \notin W => r[k] = all[k]
    BY <1>1, <1>5, <1>6, <1>8
  <1>10. r \in Seq(V) /\ Len(r) = n
    <2>1. r \in [1..n -> V]
      BY <1>1, <1>5, <1>6
    <2>2. r \in Seq(V)
      BY <1>1, <2>1, SeqDef
    <2>3. DOMAIN r = 1..Len(r) /\ Len(r) \in Nat
      BY <2>2, LenProperties
    <2>4. 1..Len(r) = 1..n
      BY <1>9, <2>3
    <2> QED
      BY <1>1, <2>2, <2>3, <2>4, SameLength
  <1>11. \A e \in W : \E k \in 1..n : all[k] \in W /\ r[k] = e
    <2> SUFFICES ASSUME NEW e \in W PROVE \E k \in 1..n : all[k] \in W /\ r[k] = e
      OBVIOUS
    <2>1. PICK i \in 1..m : next[i] = e
      BY <1>8
    <2>2. PICK k \in 1..n : all[k] \in W /\ P(k) = i
      BY <1>6
    <2> QED
      BY <1>9, <2>1, <2>2
  <1>12. ToSet(r) = ToSet(all)
    <2>1. W \subseteq ToSet(all)
      BY <1>2
    <2>2. \A e : e \in ToSet(all) <=> \E k \in 1..n : all[k] = e
      BY <1>1 DEF ToSet
    <2>3. \A e : e \in ToSet(r) <=> \E k \in 1..n : r[k] = e
      BY <1>9 DEF ToSet
    <2>4. \A e : e \in ToSet(r) => e \in ToSet(all)
      BY <1>9, <2>1, <2>2, <2>3
    <2>5. \A e : e \in ToSet(all) => e \in ToSet(r)
      BY <1>9, <1>11, <2>2, <2>3
    <2> QED
      BY <2>4, <2>5
  <1>13. IsInjective(r)
    <2> SUFFICES ASSUME NEW k \in 1..n, NEW l \in 1..n, r[k] = r[l] PROVE k = l
      BY <1>9 DEF IsInjective
    <2>1. CASE all[k] \in W /\ all[l] \in W
      <3>1. next[P(k)] = next[P(l)] /\ P(k) \in 1..m /\ P(l) \in 1..m
        BY <1>9, <2>1
      <3>2. P(k) = P(l)
        BY <1>1, <3>1 DEF IsInjective
      <3> QED
        BY <1>7, <2>1, <3>2
    <2>2. CASE all[k] \notin W /\ all[l] \notin W
      <3>1. all[k] = all[l]
        BY <1>9, <2>2
      <3> QED
        BY <1>1, <3>1 DEF IsInjective
    <2>3. CASE all[k] \in W /\ all[l] \notin W
      BY <1>9, <2>3
    <2>4. CASE all[k] \notin W /\ all[l] \in W
      BY <1>9, <2>4
    <2> QED
      BY <2>1, <2>2, <2>3, <2>4
  <1>14. Filter(r, W) = next
    <2>1. \A k \in 1..n : r[k] \in W <=> all[k] \in W
      BY <1>9
    <2>2. ASSUME NEW k \in 1..n PROVE Passed(r, W, k) = P(k)
      <3>1. \A l \in 1..k : r[l] \in W <=> all[l] \in W
        BY <1>1, <2>1
      <3> QED
        BY <3>1, SamePassed DEF P
    <2>3. /\ Filter(r, W) \in Seq(V)
          /\ Len(Filter(r, W)) = Passed(r, W, Len(r))
          /\ \A k \in 1..Len(r) : r[k] \in W => Filter(r, W)[Passed(r, W, k)] = r[k]
      <3>1. r \in Seq(V)
        BY <1>10
      <3> QED
        BY <3>1, FilterFacts
    <2>4. Len(Filter(r, W)) = m
      <3>1. Passed(r, W, n) = P(n)
        <4>1. \A l \in 1..n : r[l] \in W <=> all[l] \in W
          BY <2>1
        <4> QED
          BY <4>1, SamePassed DEF P
      <3>2. P(n) = Len(Filter(all, W))
        BY FilterFacts DEF P, n
      <3> QED
        BY <1>3, <1>4, <1>10, <2>3, <3>1, <3>2
    <2>5. ASSUME NEW i \in 1..m PROVE Filter(r, W)[i] = next[i]
      <3>1. PICK k \in 1..n : all[k] \in W /\ P(k) = i
        BY <1>6
      <3>2. r[k] \in W /\ r[k] = next[i] /\ Passed(r, W, k) = i
        BY <1>9, <2>1, <2>2, <3>1
      <3> QED
        BY <1>10, <2>3, <3>2
    <2> QED
      BY <2>3, <2>4, <2>5, SeqEqual DEF m
  <1> QED
    BY <1>9, <1>10, <1>12, <1>13, <1>14 DEF r, W, visible, n

(* What a drop, or an arrow key, makes of a list.                          *)
LEMMA Dropped ==
  ASSUME NEW V, NEW all \in Seq(V), IsInjective(all), NEW S,
         NEW i \in ToSet(Filter(all, S)), NEW target \in ToSet(Filter(all, S))
  PROVE  LET visible == Filter(all, S)
             r == DropVisibleEntry(all, visible, i, target)
             from == Place(visible, i)
             to == Place(visible, target)
         IN  /\ r \in Seq(V) /\ IsInjective(r)
             /\ Len(r) = Len(all) /\ ToSet(r) = ToSet(all)
             /\ \A k \in 1..Len(all) : all[k] \notin ToSet(visible) => r[k] = all[k]
             /\ \A k \in 1..Len(visible) :
                  Filter(r, ToSet(visible))[IF k = from THEN to ELSE k + SortableShift(from, to, k)]
                    = visible[k]
  <1> DEFINE visible == Filter(all, S)
             W == ToSet(visible)
             r == DropVisibleEntry(all, visible, i, target)
             from == Place(visible, i)
             to == Place(visible, target)
             At(k) == IF k = from THEN to ELSE k + SortableShift(from, to, k)
  <1>1. visible \in Seq(V) /\ IsInjective(visible) /\ W = ToSet(all) \cap S
    BY FilterFacts, FilterSets
  <1>2. Len(visible) \in Nat /\ DOMAIN visible = 1..Len(visible)
    BY <1>1, LenProperties
  <1>3. /\ from \in 1..Len(visible) /\ visible[from] = i
        /\ to \in 1..Len(visible) /\ visible[to] = target
    <2>1. i \in W /\ target \in W
      OBVIOUS
    <2> HIDE DEF visible
    <2>2. /\ from \in 0..Len(visible) /\ from # 0 /\ visible[from] = i
      BY <1>1, <2>1, PlaceFacts
    <2>3. /\ to \in 0..Len(visible) /\ to # 0 /\ visible[to] = target
      BY <1>1, <2>1, PlaceFacts
    <2> HIDE DEF from, to
    <2> QED
      BY <1>2, <2>2, <2>3
  <1>4. CASE i = target
    <2>1. r = all
      BY <1>4 DEF DropVisibleEntry
    <2>2. Filter(all, W) = visible
      <3> HIDE DEF W
      <3>1. ToSet(all) \cap W = ToSet(all) \cap S
        BY <1>1
      <3> QED
        BY <3>1, FilterSame
    <2>3. from = to
      BY <1>4
    <2> HIDE DEF r, visible, W, from, to
    <2>4. ASSUME NEW k \in 1..Len(visible) PROVE At(k) = k
      BY <1>2, <1>3, <2>3 DEF SortableShift
    <2>5. \A k \in 1..Len(visible) : Filter(r, W)[At(k)] = visible[k]
      BY <2>1, <2>2, <2>4
    <2> QED
      BY <2>1, <2>5 DEF r, visible, W, from, to
  <1>5. CASE i # target
    <2> DEFINE next == InsertAt(RemoveAt(visible, from), to, visible[from])
    <2>1. r = ApplyVisibleReorder(all, visible, next)
      <3> HIDE DEF visible
      <3>1. from # 0 /\ to # 0 /\ visible[from] = i
        BY <1>2, <1>3
      <3> QED
        BY <1>5, <3>1 DEF DropVisibleEntry
    <2>2. /\ next \in Seq(V) /\ Len(next) = Len(visible)
          /\ ToSet(next) = W /\ IsInjective(next)
          /\ \A k \in 1..Len(visible) : next[At(k)] = visible[k]
      <3>1. visible \in Seq(V) /\ from \in 1..Len(visible) /\ to \in 1..Len(visible)
        BY <1>1, <1>3
      <3> HIDE DEF visible, from, to, W, next
      <3>2. LET q == InsertAt(RemoveAt(visible, from), to, visible[from])
            IN  /\ q \in Seq(V) /\ Len(q) = Len(visible)
                /\ ToSet(q) = ToSet(visible)
                /\ IsInjective(visible) => IsInjective(q)
                /\ \A k \in 1..Len(visible) :
                     q[IF k = from THEN to ELSE k + SortableShift(from, to, k)] = visible[k]
        BY <3>1, Moved
      <3> HIDE DEF At
      <3>3. /\ next \in Seq(V) /\ Len(next) = Len(visible) /\ ToSet(next) = ToSet(visible)
            /\ IsInjective(visible) => IsInjective(next)
        BY <3>2 DEF next
      <3>4. \A k \in 1..Len(visible) : next[At(k)] = visible[k]
        BY <3>2 DEF next, At
      <3> QED
        BY <1>1, <3>3, <3>4 DEF W
    <2> HIDE DEF next
    <2>3. LET q == ApplyVisibleReorder(all, visible, next)
          IN  /\ q \in Seq(V) /\ IsInjective(q)
              /\ Len(q) = Len(all) /\ ToSet(q) = ToSet(all)
              /\ \A k \in 1..Len(all) : all[k] \notin W => q[k] = all[k]
              /\ Filter(q, W) = next
      BY <2>2, Reordered
    <2> HIDE DEF r, W, At
    <2>4. /\ r \in Seq(V) /\ IsInjective(r)
          /\ Len(r) = Len(all) /\ ToSet(r) = ToSet(all)
          /\ \A k \in 1..Len(all) : all[k] \notin W => r[k] = all[k]
          /\ Filter(r, W) = next
      BY <2>1, <2>3
    <2>5. \A k \in 1..Len(visible) : Filter(r, W)[At(k)] = visible[k]
      BY <2>2, <2>4
    <2> QED
      BY <2>4, <2>5 DEF r, W, At
  <1> QED
    BY <1>4, <1>5

-----------------------------------------------------------------------------
(* Orders                                                                  *)

LEMMA Joined ==
  ASSUME NEW V, NEW a \in Seq(V), NEW b \in Seq(V)
  PROVE  /\ a \o b \in Seq(V) /\ ToSet(a \o b) = ToSet(a) \cup ToSet(b)
         /\ IsInjective(a) /\ IsInjective(b) /\ ToSet(a) \cap ToSet(b) = {} =>
              IsInjective(a \o b)
  <1> DEFINE m == Len(a)
             n == Len(b)
             c == a \o b
  <1>1. /\ m \in Nat /\ DOMAIN a = 1..m /\ n \in Nat /\ DOMAIN b = 1..n
    BY Elements
  <1>2. /\ c \in Seq(V) /\ Len(c) = m + n
        /\ \A k \in 1..(m + n) : c[k] = IF k <= m THEN a[k] ELSE b[k - m]
    BY ConcatProperties
  <1> HIDE DEF m, n, c
  <1>3. DOMAIN c = 1..(m + n)
    BY <1>2, LenProperties
  <1>4. ASSUME NEW k \in 1..(m + n)
        PROVE  \/ k \in 1..m /\ c[k] = a[k]
               \/ k - m \in 1..n /\ ~(k <= m) /\ c[k] = b[k - m]
    <2>1. CASE k <= m
      BY <1>1, <1>2, <2>1
    <2>2. CASE ~(k <= m)
      BY <1>1, <1>2, <2>2
    <2> QED
      BY <2>1, <2>2
  <1>5. \A k \in 1..m : k \in 1..(m + n) /\ c[k] = a[k]
    BY <1>1, <1>2
  <1>6. ASSUME NEW k \in 1..n PROVE k + m \in 1..(m + n) /\ c[k + m] = b[k]
    <2>1. k + m \in 1..(m + n) /\ ~(k + m <= m) /\ (k + m) - m = k
      BY <1>1
    <2> QED
      BY <1>2, <2>1
  <1>7. ToSet(c) = ToSet(a) \cup ToSet(b)
    <2>1. \A e : e \in ToSet(c) <=> \E k \in 1..(m + n) : c[k] = e
      BY <1>3 DEF ToSet
    <2>2. \A e : e \in ToSet(a) <=> \E k \in 1..m : a[k] = e
      BY <1>1 DEF ToSet
    <2>3. \A e : e \in ToSet(b) <=> \E k \in 1..n : b[k] = e
      BY <1>1 DEF ToSet
    <2>4. \A e \in ToSet(c) : e \in ToSet(a) \cup ToSet(b)
      BY <1>4, <2>1, <2>2, <2>3
    <2>5. \A e \in ToSet(a) : e \in ToSet(c)
      BY <1>5, <2>1, <2>2
    <2>6. \A e \in ToSet(b) : e \in ToSet(c)
      BY <1>6, <2>1, <2>3
    <2> QED
      BY <2>4, <2>5, <2>6
  <1>8. ASSUME IsInjective(a), IsInjective(b), ToSet(a) \cap ToSet(b) = {},
               NEW k \in 1..(m + n), NEW l \in 1..(m + n), c[k] = c[l]
        PROVE  k = l
    <2>1. \A i \in 1..m, j \in 1..n : a[i] # b[j]
      BY <1>1, <1>8 DEF ToSet
    <2>2. CASE k \in 1..m /\ c[k] = a[k] /\ l \in 1..m /\ c[l] = a[l]
      BY <1>1, <1>8, <2>2 DEF IsInjective
    <2>3. CASE /\ k - m \in 1..n /\ c[k] = b[k - m]
               /\ l - m \in 1..n /\ c[l] = b[l - m]
      <3>1. k - m = l - m
        BY <1>1, <1>8, <2>3 DEF IsInjective
      <3> QED
        BY <1>1, <3>1
    <2> QED
      BY <1>4, <1>8, <2>1, <2>2, <2>3
  <1> QED
    BY <1>2, <1>3, <1>7, <1>8 DEF IsInjective, c

LEMMA Ordered ==
  ASSUME NEW current \in Seq(Entries), NEW ids \in Seq(Entries),
         IsInjective(current), IsInjective(ids)
  PROVE  /\ ApplyOrder(current, ids) \in Seq(Entries)
         /\ IsInjective(ApplyOrder(current, ids))
         /\ ToSet(ApplyOrder(current, ids)) = ToSet(current)
  <1> DEFINE a == Filter(ids, ToSet(current))
             b == Filter(current, Entries \ ToSet(ids))
  <1>1. /\ a \in Seq(Entries) /\ IsInjective(a) /\ ToSet(a) = ToSet(ids) \cap ToSet(current)
        /\ b \in Seq(Entries) /\ IsInjective(b)
        /\ ToSet(b) = ToSet(current) \cap (Entries \ ToSet(ids))
    BY FilterFacts, FilterSets
  <1>2. ToSet(current) \subseteq Entries
    BY Elements DEF ToSet
  <1> HIDE DEF a, b
  <1>3. ToSet(a) \cap ToSet(b) = {} /\ ToSet(a) \cup ToSet(b) = ToSet(current)
    BY <1>1, <1>2
  <1>4. ApplyOrder(current, ids) = a \o b
    BY DEF ApplyOrder, a, b
  <1>5. /\ a \o b \in Seq(Entries) /\ IsInjective(a \o b)
        /\ ToSet(a \o b) = ToSet(a) \cup ToSet(b)
    BY <1>1, <1>3, Joined
  <1> QED
    BY <1>3, <1>4, <1>5

LEMMA Prepended ==
  ASSUME NEW seq \in Seq(Entries), IsInjective(seq), NEW i \in Entries, i \notin ToSet(seq)
  PROVE  /\ <<i>> \o seq \in Seq(Entries) /\ IsInjective(<<i>> \o seq)
         /\ ToSet(<<i>> \o seq) = {i} \cup ToSet(seq)
  <1> DEFINE a == <<i>>
  <1>1. a \in Seq(Entries) /\ IsInjective(a) /\ ToSet(a) = {i}
    BY DEF IsInjective, ToSet
  <1> HIDE DEF a
  <1>2. /\ a \o seq \in Seq(Entries) /\ IsInjective(a \o seq)
        /\ ToSet(a \o seq) = {i} \cup ToSet(seq)
    BY <1>1, Joined
  <1> QED
    BY <1>2 DEF a

-----------------------------------------------------------------------------
(* The table                                                               *)

(* A finite set of integers that is not empty has a least element and a    *)
(* greatest one.                                                           *)
LEMMA Extremes ==
  ASSUME NEW T \in SUBSET Int, IsFiniteSet(T), T # {}
  PROVE  /\ Min(T) \in T /\ \A y \in T : Min(T) <= y
         /\ Max(T) \in T /\ \A y \in T : Max(T) >= y
  <1> DEFINE Less(x) == {y \in T : y < x}
             More(x) == {y \in T : y > x}
  <1>1. \E x \in T : \A y \in T : x <= y
    <2> DEFINE C == {Cardinality(Less(x)) : x \in T}
    <2>1. \A x \in T : Cardinality(Less(x)) \in Nat
      BY CardSub
    <2>2. C \in SUBSET Nat /\ C # {}
      BY <2>1
    <2>3. PICK x \in T : \A y \in T : Cardinality(Less(x)) <= Cardinality(Less(y))
      <3> HIDE DEF Less, C
      <3>1. PICK m \in C : \A k \in C : m <= k
        BY <2>2, Least
      <3> QED
        BY <3>1 DEF C
    <2>4. ASSUME NEW y \in T, ~(x <= y) PROVE FALSE
      <3>0. x \in Int /\ y \in Int /\ y < x /\ ~(y < y)
        BY <2>4
      <3>a. \A z \in T : z < y => z < x
        BY <3>0
      <3>1. Less(y) \subseteq Less(x) /\ y \in Less(x) /\ y \notin Less(y)
        BY <3>0, <3>a
      <3>2. IsFiniteSet(Less(x))
        BY CardSub
      <3> HIDE DEF Less
      <3>3. Cardinality(Less(y)) < Cardinality(Less(x))
        BY <3>1, <3>2, CardLess
      <3> QED
        BY <2>1, <2>3, <3>3
    <2> QED
      BY <2>4
  <1>2. \E x \in T : \A y \in T : x >= y
    <2> DEFINE C == {Cardinality(More(x)) : x \in T}
    <2>1. \A x \in T : Cardinality(More(x)) \in Nat
      BY CardSub
    <2>2. C \in SUBSET Nat /\ C # {}
      BY <2>1
    <2>3. PICK x \in T : \A y \in T : Cardinality(More(x)) <= Cardinality(More(y))
      <3> HIDE DEF More, C
      <3>1. PICK m \in C : \A k \in C : m <= k
        BY <2>2, Least
      <3> QED
        BY <3>1 DEF C
    <2>4. ASSUME NEW y \in T, ~(x >= y) PROVE FALSE
      <3>0. x \in Int /\ y \in Int /\ y > x /\ ~(y > y)
        BY <2>4
      <3>a. \A z \in T : z > y => z > x
        BY <3>0
      <3>1. More(y) \subseteq More(x) /\ y \in More(x) /\ y \notin More(y)
        BY <3>0, <3>a
      <3>2. IsFiniteSet(More(x))
        BY CardSub
      <3> HIDE DEF More
      <3>3. Cardinality(More(y)) < Cardinality(More(x))
        BY <3>1, <3>2, CardLess
      <3> QED
        BY <2>1, <2>3, <3>3
    <2> QED
      BY <2>4
  <1>3. Min(T) \in T /\ \A y \in T : Min(T) <= y
    BY <1>1 DEF Min
  <1>4. Max(T) \in T /\ \A y \in T : Max(T) >= y
    BY <1>2 DEF Max
  <1> QED
    BY <1>3, <1>4

(* The ids that come before i.                                             *)
Ahead(r, i) == {j \in DOMAIN r : Before(r, j, i)}

LEMMA AheadFacts ==
  ASSUME NEW r, DOMAIN r \subseteq Entries, r \in [DOMAIN r -> Int]
  PROVE  /\ IsFiniteSet(DOMAIN r)
         /\ \A i \in DOMAIN r : IsFiniteSet(Ahead(r, i)) /\ Cardinality(Ahead(r, i)) \in Nat
                                /\ Cardinality(Ahead(r, i)) < Cardinality(DOMAIN r)
         /\ \A i, j \in DOMAIN r :
              Before(r, i, j) => Cardinality(Ahead(r, i)) < Cardinality(Ahead(r, j))
         /\ \A i, j \in DOMAIN r : i = j \/ Before(r, i, j) \/ Before(r, j, i)
         /\ \A i, j \in DOMAIN r : Before(r, i, j) => ~Before(r, j, i) /\ i # j
         /\ \A i, j \in DOMAIN r : Cardinality(Ahead(r, i)) = Cardinality(Ahead(r, j)) => i = j
  <1> DEFINE D == DOMAIN r
  <1>1. IsFiniteSet(D) /\ Cardinality(D) \in Nat
    BY EntriesAssumption, CardSub
  <1>2. ASSUME NEW i \in D
        PROVE  /\ IsFiniteSet(Ahead(r, i)) /\ Cardinality(Ahead(r, i)) \in Nat
               /\ Cardinality(Ahead(r, i)) < Cardinality(D)
    <2>1. Ahead(r, i) \subseteq D /\ i \notin Ahead(r, i)
      BY EntriesAssumption DEF Before, Ahead
    <2> HIDE DEF D
    <2> QED
      BY <1>1, <2>1, CardLess
  <1>3. ASSUME NEW i \in D, NEW j \in D, Before(r, i, j)
        PROVE  Cardinality(Ahead(r, i)) < Cardinality(Ahead(r, j))
    <2>1. Ahead(r, i) \subseteq Ahead(r, j) /\ i \in Ahead(r, j) /\ i \notin Ahead(r, i)
      BY <1>3, EntriesAssumption DEF Before, Ahead
    <2> HIDE DEF D
    <2> QED
      BY <1>2, <2>1, CardLess
  <1>4. \A i, j \in D : i = j \/ Before(r, i, j) \/ Before(r, j, i)
    BY EntriesAssumption DEF Before
  <1>5. \A i, j \in D : Before(r, i, j) => ~Before(r, j, i) /\ i # j
    BY EntriesAssumption DEF Before
  <1>6. ASSUME NEW i \in D, NEW j \in D, Cardinality(Ahead(r, i)) = Cardinality(Ahead(r, j))
        PROVE  i = j
    <2> HIDE DEF D
    <2> QED
      BY <1>2, <1>3, <1>4, <1>6
  <1> QED
    BY <1>1, <1>2, <1>3, <1>4, <1>5, <1>6

(* The table's order shows every entry once, one before another when its   *)
(* sort_order, or its id, is less.                                         *)
InOrder(r, seq) == \A k, l \in 1..Len(seq) : k < l => Before(r, seq[k], seq[l])

LEMMA ListedFacts ==
  ASSUME NEW r, DOMAIN r \subseteq Entries, r \in [DOMAIN r -> Int]
  PROVE  /\ Listed(r) \in Seq(Entries) /\ IsInjective(Listed(r))
         /\ ToSet(Listed(r)) = DOMAIN r
         /\ InOrder(r, Listed(r))
  <1> DEFINE D == DOMAIN r
             n == Cardinality(D)
             Pos(i) == Cardinality(Ahead(r, i)) + 1
             f == [i \in D |-> Pos(i)]
             L == Listed(r)
  <1>1. IsFiniteSet(D) /\ n \in Nat
    BY EntriesAssumption, CardSub
  <1>2. ASSUME NEW i \in D PROVE Pos(i) \in 1..n /\ Cardinality(Ahead(r, i)) \in Nat
    <2>1. /\ Cardinality(Ahead(r, i)) \in Nat
          /\ Cardinality(Ahead(r, i)) < n
      BY AheadFacts
    <2> HIDE DEF n
    <2> QED
      BY <1>1, <2>1
  <1>3. ASSUME NEW i \in D, NEW j \in D, Pos(i) = Pos(j) PROVE i = j
    <2>1. Cardinality(Ahead(r, i)) = Cardinality(Ahead(r, j))
      BY <1>2, <1>3
    <2> QED
      BY <2>1, AheadFacts
  <1>4. ASSUME NEW i \in D, NEW j \in D, Pos(i) < Pos(j) PROVE Before(r, i, j)
    <2>1. Cardinality(Ahead(r, i)) < Cardinality(Ahead(r, j))
      BY <1>2, <1>4
    <2>2. i # j /\ ~Before(r, j, i)
      <3>1. Before(r, j, i) => Cardinality(Ahead(r, j)) < Cardinality(Ahead(r, i))
        BY AheadFacts
      <3> QED
        BY <1>2, <2>1, <3>1
    <2>3. i = j \/ Before(r, i, j) \/ Before(r, j, i)
      BY AheadFacts
    <2> QED
      BY <2>2, <2>3
  <1> HIDE DEF Pos
  <1>5. f \in Surjection(D, 1..n)
    <2>1. f \in Injection(D, 1..n)
      BY <1>2, <1>3 DEF Injection, IsInjective
    <2>2. IsFiniteSet(1..n) /\ Cardinality(1..n) = n
      BY <1>1, Upto
    <2> HIDE DEF f, D
    <2> QED
      BY <2>1, <2>2, FS_Injection DEF n
  <1>6. \A m \in 1..n : \E i \in D : Pos(i) = m
    BY <1>5 DEF Surjection
  <1>7. L = [m \in 1..n |-> CHOOSE i \in D : Cardinality(Ahead(r, i)) = m - 1]
    BY DEF Listed, Ahead
  <1>8. ASSUME NEW m \in 1..n PROVE L[m] \in D /\ Pos(L[m]) = m
    <2>1. \E i \in D : Cardinality(Ahead(r, i)) = m - 1
      <3>1. PICK i \in D : Pos(i) = m
        BY <1>6
      <3>2. Cardinality(Ahead(r, i)) \in Nat
        BY <1>2
      <3> QED
        BY <3>1, <3>2 DEF Pos
    <2>2. L[m] = CHOOSE i \in D : Cardinality(Ahead(r, i)) = m - 1
      BY <1>7
    <2> HIDE DEF L, D
    <2>3. L[m] \in D /\ Cardinality(Ahead(r, L[m])) = m - 1
      BY <2>1, <2>2
    <2> QED
      BY <2>3 DEF Pos
  <1> HIDE DEF L, D, n
  <1>9. L \in [1..n -> Entries]
    BY <1>7, <1>8 DEF D
  <1>10. L \in Seq(Entries) /\ DOMAIN L = 1..n
    BY <1>1, <1>9, SeqDef
  <1>11. IsInjective(L)
    BY <1>8, <1>10 DEF IsInjective
  <1>12. ToSet(L) = D
    <2>1. \A i \in D : \E m \in 1..n : L[m] = i
      BY <1>2, <1>3, <1>8
    <2> QED
      BY <1>8, <1>10, <2>1 DEF ToSet
  <1>13. InOrder(r, L)
    <2>1. 1..Len(L) = 1..n
      BY <1>10, LenProperties
    <2> SUFFICES ASSUME NEW k \in 1..n, NEW l \in 1..n, k < l PROVE Before(r, L[k], L[l])
      BY <2>1 DEF InOrder
    <2>2. L[k] \in D /\ L[l] \in D /\ Pos(L[k]) < Pos(L[l])
      BY <1>8
    <2> QED
      BY <1>4, <2>2
  <1> QED
    BY <1>10, <1>11, <1>12, <1>13 DEF L, D

(* There is no other order like that.                                      *)
LEMMA ListedIs ==
  ASSUME NEW r, DOMAIN r \subseteq Entries, r \in [DOMAIN r -> Int],
         NEW seq \in Seq(Entries), IsInjective(seq), ToSet(seq) = DOMAIN r, InOrder(r, seq)
  PROVE  Listed(r) = seq
  <1> DEFINE D == DOMAIN r
             n == Len(seq)
  <1>1. n \in Nat /\ DOMAIN seq = 1..n /\ \A k \in 1..n : seq[k] \in D
    BY Elements DEF ToSet
  <1>2. \A i \in D : \E k \in 1..n : seq[k] = i
    BY <1>1 DEF ToSet
  <1> HIDE DEF n
  <1>3. Cardinality(D) = n
    <2>1. seq \in Surjection(1..n, D)
      <3>1. seq \in [1..n -> D]
        BY <1>1, Elements
      <3> QED
        BY <1>2, <3>1 DEF Surjection
    <2>2. seq \in Injection(1..n, D)
      BY <1>1, <2>1 DEF Injection, Surjection, IsInjective
    <2>3. IsFiniteSet(1..n) /\ Cardinality(1..n) = n
      BY <1>1, Upto
    <2> HIDE DEF D
    <2> QED
      BY <2>1, <2>2, <2>3, FS_Surjection
  <1>4. ASSUME NEW m \in 1..n PROVE Cardinality(Ahead(r, seq[m])) = m - 1
    <2> DEFINE f == [k \in 1..(m - 1) |-> seq[k]]
               A == Ahead(r, seq[m])
    <2>1. m - 1 \in Nat /\ \A k \in 1..(m - 1) : k \in 1..n /\ k < m
      BY <1>1
    <2>2. \A k \in 1..(m - 1) : seq[k] \in A
      BY <1>1, <2>1 DEF InOrder, Ahead, n
    <2>3. ASSUME NEW i \in A PROVE \E k \in 1..(m - 1) : seq[k] = i
      <3>1. i \in D /\ Before(r, i, seq[m]) /\ seq[m] \in D
        BY <1>1 DEF Ahead
      <3>2. PICK k \in 1..n : seq[k] = i
        BY <1>2, <3>1
      <3>3. ~Before(r, seq[m], i) /\ i # seq[m]
        BY <3>1, AheadFacts
      <3>4. ~(m < k) /\ m # k
        BY <3>2, <3>3 DEF InOrder, n
      <3>5. k \in 1..(m - 1)
        BY <1>1, <3>4
      <3> QED
        BY <3>2, <3>5
    <2> HIDE DEF A
    <2>4. f \in Surjection(1..(m - 1), A)
      BY <2>2, <2>3 DEF Surjection
    <2>5. f \in Injection(1..(m - 1), A)
      <3>1. \A k, l \in 1..(m - 1) : seq[k] = seq[l] => k = l
        BY <1>1, <2>1 DEF IsInjective
      <3> QED
        BY <2>2, <3>1 DEF Injection, IsInjective
    <2>6. IsFiniteSet(1..(m - 1)) /\ Cardinality(1..(m - 1)) = m - 1
      BY <2>1, Upto
    <2> HIDE DEF f
    <2>7. Cardinality(A) = Cardinality(1..(m - 1))
      BY <2>4, <2>5, <2>6, FS_Surjection
    <2> QED
      BY <2>6, <2>7 DEF A
  <1>5. ASSUME NEW m \in 1..n
        PROVE  (CHOOSE i \in D : Cardinality(Ahead(r, i)) = m - 1) = seq[m]
    <2>1. seq[m] \in D /\ Cardinality(Ahead(r, seq[m])) = m - 1
      BY <1>1, <1>4
    <2>2. \A i \in D : Cardinality(Ahead(r, i)) = m - 1 => i = seq[m]
      BY <2>1, AheadFacts
    <2> QED
      BY <2>1, <2>2
  <1>6. Listed(r) = [m \in 1..n |-> CHOOSE i \in D : Cardinality(Ahead(r, i)) = m - 1]
    BY <1>3 DEF Listed, Ahead
  <1>7. Listed(r) = [m \in 1..n |-> seq[m]]
    BY <1>5, <1>6
  <1>8. seq = [m \in 1..n |-> seq[m]]
    BY <1>1, Elements
  <1> QED
    BY <1>7, <1>8

-----------------------------------------------------------------------------
(* The inductive invariant                                                 *)

IsList(ids) == ids \in Seq(Entries) /\ IsInjective(ids)

TableInv ==
  /\ rank \in [Stored -> Int] /\ Stored \subseteq used /\ used \subseteq Entries
  /\ IsInjective(rank)

ShownInv ==
  /\ screen \in {"off", "loading", "ready", "error"}
  /\ IsList(list) /\ ToSet(list) \subseteq used

(* Orders name no entry twice.  A list brings what is or was stored, and   *)
(* an entry that is being created is new to the list on the screen.        *)
CallInv(c) ==
  /\ c \in Call /\ IsInjective(c.order) /\ IsInjective(c.back)
  /\ c.live => screen # "off"
  /\ c.kind = "list" => c.live /\ screen = "loading" /\ ToSet(c.order) \subseteq used
  /\ c.kind = "create" =>
       /\ c.id \in Entries
       /\ c.at = "served" => c.id \in used
       /\ c.live => c.id \notin ToSet(list)

(* Nothing else is under way in a tab that waits for its list, and one     *)
(* modal's call at a time.                                                 *)
Alone(c, d) ==
  \/ c.kind = "list" /\ d.live
  \/ c.live /\ d.live /\ {c.kind, d.kind} \subseteq Writes \ {"reorder"}

CallsInv ==
  /\ IsFiniteSet(calls)
  /\ \A c \in calls : CallInv(c)
  /\ \A c, d \in calls : Alone(c, d) => c = d

(* A drag shows what some filter lets through of the list it started from. *)
DragInv ==
  \/ drag = None
  \/ /\ screen = "ready"
     /\ drag \in [id : Entries, all : Seq(Entries), visible : Seq(Entries)]
     /\ IsInjective(drag.all)
     /\ drag.id \in ToSet(drag.visible)
     /\ \E shown \in Filters : drag.visible = Filter(drag.all, shown)

CountInv ==
  /\ busy \in BOOLEAN /\ drift \subseteq Causes
  /\ ops \in 0..MaxOps /\ others \in 0..MaxOthers /\ mounts \in 0..MaxMounts

ListInv == TableInv /\ ShownInv /\ CallsInv /\ DragInv /\ CountInv

-----------------------------------------------------------------------------
(* What the server does to the table                                       *)

LEMMA Ranks ==
  ASSUME TableInv
  PROVE  /\ NextSortOrder("end") \in Int /\ \A j \in Stored : rank[j] < NextSortOrder("end")
         /\ NextSortOrder("start") \in Int /\ \A j \in Stored : rank[j] > NextSortOrder("start")
  <1> DEFINE R == Range(rank)
  <1>1. IsFiniteSet(Stored)
    BY EntriesAssumption, CardSub DEF TableInv
  <1>2. R = {rank[j] : j \in Stored} /\ R \in SUBSET Int
    BY DEF Range, Stored, TableInv
  <1>3. IsFiniteSet(R)
    <2>1. rank \in Surjection(Stored, R)
      BY <1>2 DEF Surjection, TableInv
    <2> HIDE DEF R
    <2> QED
      BY <1>1, <2>1, FS_Surjection
  <1>4. CASE Stored = {}
    BY <1>4 DEF NextSortOrder
  <1>5. CASE Stored # {}
    <2>1. R # {}
      BY <1>2, <1>5
    <2>2. /\ NextSortOrder("end") = Max(R) + 1
          /\ NextSortOrder("start") = Min(R) - 1
      BY <1>5 DEF NextSortOrder
    <2>3. \A j \in Stored : rank[j] \in R
      BY <1>2
    <2> HIDE DEF R
    <2>4. /\ Min(R) \in R /\ \A y \in R : Min(R) <= y
          /\ Max(R) \in R /\ \A y \in R : Max(R) >= y
      BY <1>2, <1>3, <2>1, Extremes
    <2>5. Min(R) \in Int /\ Max(R) \in Int
      BY <1>2, <2>4
    <2>6. ASSUME NEW j \in Stored
          PROVE  rank[j] < Max(R) + 1 /\ rank[j] > Min(R) - 1
      <3>1. rank[j] \in Int /\ Min(R) <= rank[j] /\ Max(R) >= rank[j]
        BY <1>2, <2>3, <2>4
      <3> QED
        BY <2>5, <3>1
    <2> QED
      BY <2>2, <2>5, <2>6
  <1> QED
    BY <1>4, <1>5

LEMMA Inserted ==
  ASSUME TableInv, NEW i \in Entries, InsertEntry(i)
  PROVE  TableInv' /\ used' = used \cup {i}
  <1> DEFINE x == NextSortOrder("start")
  <1>1. x \in Int /\ \A j \in Stored : rank[j] > x
    BY Ranks
  <1> HIDE DEF x
  <1>2. /\ rank' = [j \in Stored \cup {i} |-> IF j = i THEN x ELSE rank[j]]
        /\ used' = used \cup {i} /\ i \notin Stored
    BY DEF InsertEntry, x
  <1>3. Stored' = Stored \cup {i}
    BY <1>2 DEF Stored
  <1>4. \A j \in Stored : rank[j] \in Int
    BY DEF TableInv
  <1>5. rank' \in [Stored' -> Int]
    BY <1>1, <1>2, <1>3, <1>4
  <1>6. Stored' \subseteq used' /\ used' \subseteq Entries
    BY <1>2, <1>3 DEF TableInv
  <1>7. IsInjective(rank')
    <2> SUFFICES ASSUME NEW a \in Stored', NEW b \in Stored', rank'[a] = rank'[b]
                 PROVE  a = b
      BY DEF IsInjective, Stored
    <2>1. /\ a = i \/ (a \in Stored /\ a # i)
          /\ b = i \/ (b \in Stored /\ b # i)
      BY <1>2, <1>3
    <2>2. CASE a \in Stored /\ b \in Stored /\ a # i /\ b # i
      <3>1. rank[a] = rank[b]
        BY <1>2, <2>2
      <3> QED
        BY <2>2, <3>1 DEF TableInv, IsInjective, Stored
    <2>3. CASE a = i /\ b \in Stored /\ b # i
      <3>1. rank[b] = x /\ rank[b] > x
        BY <1>1, <1>2, <2>3
      <3> QED
        BY <1>1, <3>1
    <2>4. CASE b = i /\ a \in Stored /\ a # i
      <3>1. rank[a] = x /\ rank[a] > x
        BY <1>1, <1>2, <2>4
      <3> QED
        BY <1>1, <3>1
    <2> QED
      BY <2>1, <2>2, <2>3, <2>4
  <1> QED
    BY <1>2, <1>5, <1>6, <1>7 DEF TableInv

LEMMA Deleted ==
  ASSUME TableInv, NEW i, DeleteEntry(i)
  PROVE  TableInv' /\ used' = used
  <1>1. rank' = [j \in Stored \ {i} |-> rank[j]] /\ used' = used
    BY DEF DeleteEntry, Restrict
  <1>2. Stored' = Stored \ {i}
    BY <1>1 DEF Stored
  <1>3. /\ rank' \in [Stored' -> Int] /\ Stored' \subseteq used' /\ used' \subseteq Entries
    BY <1>1, <1>2 DEF TableInv
  <1>4. IsInjective(rank')
    BY <1>1, <1>2 DEF TableInv, IsInjective, Stored
  <1> QED
    BY <1>1, <1>3, <1>4 DEF TableInv

LEMMA Permuted ==
  ASSUME TableInv, NEW ids \in Seq(Entries), Reorder(ids)
  PROVE  TableInv' /\ used' = used
  <1>1. /\ rank' = [j \in Stored |-> Place(ids, j) - 1] /\ used' = used
        /\ ToSet(ids) = Stored
    BY DEF Reorder, IsPermutation
  <1>2. Stored' = Stored
    BY <1>1 DEF Stored
  <1>3. \A j \in Stored : Place(ids, j) \in Nat /\ ids[Place(ids, j)] = j
    <2> SUFFICES ASSUME NEW j \in Stored
                 PROVE  Place(ids, j) \in Nat /\ ids[Place(ids, j)] = j
      OBVIOUS
    <2>1. Len(ids) \in Nat /\ j \in ToSet(ids)
      BY <1>1, Elements
    <2>2. Place(ids, j) \in 0..Len(ids) /\ ids[Place(ids, j)] = j
      BY <2>1, PlaceFacts
    <2> QED
      BY <2>1, <2>2
  <1>4. rank' \in [Stored' -> Int]
    BY <1>1, <1>2, <1>3
  <1>5. IsInjective(rank')
    <2> SUFFICES ASSUME NEW a \in Stored, NEW b \in Stored, rank'[a] = rank'[b]
                 PROVE  a = b
      BY <1>2 DEF IsInjective, Stored
    <2>1. Place(ids, a) - 1 = Place(ids, b) - 1
      BY <1>1
    <2>2. Place(ids, a) = Place(ids, b)
      BY <1>3, <2>1
    <2> QED
      BY <1>3, <2>2
  <1> QED
    BY <1>1, <1>2, <1>4, <1>5 DEF TableInv

LEMMA Imported ==
  ASSUME TableInv, NEW ids \in Seq(Entries), Import(ids)
  PROVE  TableInv' /\ used \subseteq used'
  <1> DEFINE new == Filter(ids, Entries \ Stored)
             x == NextSortOrder("end")
  <1>1. x \in Int /\ \A j \in Stored : rank[j] < x
    BY Ranks
  <1>2. new \in Seq(Entries) /\ ToSet(new) = ToSet(ids) \cap (Entries \ Stored)
    BY FilterFacts, FilterSets
  <1>3. /\ rank' = [j \in Stored \cup ToSet(new) |->
                      IF j \in Stored THEN rank[j] ELSE x + Place(new, j) - 1]
        /\ used' = used \cup ToSet(new)
    BY DEF Import
  <1> HIDE DEF new, x
  <1>4. \A j \in ToSet(new) : /\ Place(new, j) \in Nat /\ Place(new, j) >= 1
                              /\ new[Place(new, j)] = j
    <2> SUFFICES ASSUME NEW j \in ToSet(new)
                 PROVE  Place(new, j) \in Nat /\ Place(new, j) >= 1 /\ new[Place(new, j)] = j
      OBVIOUS
    <2>1. Len(new) \in Nat
      BY <1>2, Elements
    <2>2. Place(new, j) \in 0..Len(new) /\ Place(new, j) # 0 /\ new[Place(new, j)] = j
      BY <1>2, PlaceFacts
    <2> QED
      BY <2>1, <2>2
  <1>5. Stored' = Stored \cup ToSet(new)
    BY <1>3 DEF Stored
  <1>6. \A j \in Stored : rank[j] \in Int
    BY DEF TableInv
  <1>7. rank' \in [Stored' -> Int]
    BY <1>1, <1>3, <1>4, <1>5, <1>6
  <1>8. Stored' \subseteq used' /\ used' \subseteq Entries
    BY <1>2, <1>3, <1>5 DEF TableInv
  <1>9. ASSUME NEW a \in Stored' PROVE
          \/ a \in Stored /\ rank'[a] = rank[a] /\ rank'[a] < x
          \/ a \in ToSet(new) /\ rank'[a] = x + Place(new, a) - 1 /\ rank'[a] >= x
    <2>1. CASE a \in Stored
      BY <1>1, <1>3, <1>5, <2>1
    <2>2. CASE a \notin Stored
      <3>1. a \in ToSet(new) /\ rank'[a] = x + Place(new, a) - 1
        BY <1>3, <1>5, <2>2
      <3> QED
        BY <1>1, <1>4, <3>1
    <2> QED
      BY <2>1, <2>2
  <1>10. IsInjective(rank')
    <2> SUFFICES ASSUME NEW a \in Stored', NEW b \in Stored', rank'[a] = rank'[b]
                 PROVE  a = b
      BY DEF IsInjective, Stored
    <2>1. rank'[a] \in Int
      BY <1>7
    <2>2. CASE rank'[a] < x
      <3>1. a \in Stored /\ b \in Stored /\ rank[a] = rank[b]
        BY <1>1, <1>9, <2>1, <2>2
      <3> QED
        BY <3>1 DEF TableInv, IsInjective, Stored
    <2>3. CASE ~(rank'[a] < x)
      <3>1. /\ a \in ToSet(new) /\ b \in ToSet(new)
            /\ x + Place(new, a) - 1 = x + Place(new, b) - 1
        BY <1>9, <2>3
      <3>2. Place(new, a) = Place(new, b)
        BY <1>1, <1>4, <3>1
      <3> QED
        BY <1>4, <3>1, <3>2
    <2> QED
      BY <2>2, <2>3
  <1> QED
    BY <1>3, <1>7, <1>8, <1>10 DEF TableInv

-----------------------------------------------------------------------------
(* What the server does to the order                                       *)

LEMMA Listing ==
  ASSUME TableInv
  PROVE  /\ Stored \subseteq Entries /\ rank \in [Stored -> Int]
         /\ Listed(rank) \in Seq(Entries) /\ IsInjective(Listed(rank))
         /\ ToSet(Listed(rank)) = Stored
         /\ InOrder(rank, Listed(rank))
         /\ \A k \in 1..Len(Listed(rank)) : Listed(rank)[k] \in Stored
  <1>1. DOMAIN rank = Stored /\ Stored \subseteq Entries /\ rank \in [DOMAIN rank -> Int]
    BY DEF TableInv, Stored
  <1>2. /\ Listed(rank) \in Seq(Entries) /\ IsInjective(Listed(rank))
        /\ ToSet(Listed(rank)) = Stored /\ InOrder(rank, Listed(rank))
    BY <1>1, ListedFacts
  <1>3. \A k \in 1..Len(Listed(rank)) : Listed(rank)[k] \in Stored
    BY <1>2, Elements DEF ToSet
  <1> QED
    BY <1>1, <1>2, <1>3

(* A new entry comes first,                                                *)
LEMMA InsertedFirst ==
  ASSUME TableInv, NEW i \in Entries, InsertEntry(i)
  PROVE  Listed(rank)' = <<i>> \o Listed(rank) /\ Stored' = Stored \cup {i} /\ i \notin Stored
  <1> DEFINE x == NextSortOrder("start")
             L == Listed(rank)
             a == <<i>>
             seq == a \o L
  <1>1. x \in Int /\ \A j \in Stored : rank[j] > x
    BY Ranks
  <1> HIDE DEF x
  <1>2. /\ rank' = [j \in Stored \cup {i} |-> IF j = i THEN x ELSE rank[j]]
        /\ i \notin Stored
    BY DEF InsertEntry, x
  <1>3. Stored' = Stored \cup {i}
    BY <1>2 DEF Stored
  <1>4. TableInv'
    BY Inserted
  <1>5. /\ L \in Seq(Entries) /\ IsInjective(L) /\ ToSet(L) = Stored /\ InOrder(rank, L)
        /\ \A k \in 1..Len(L) : L[k] \in Stored
    BY Listing
  <1> HIDE DEF L
  <1>6. seq \in Seq(Entries) /\ IsInjective(seq) /\ ToSet(seq) = Stored'
    <2>1. i \notin ToSet(L)
      BY <1>2, <1>5
    <2> QED
      BY <1>3, <1>5, <2>1, Prepended
  <1>7. Len(L) \in Nat
    BY <1>5, LenProperties
  <1>8. /\ Len(seq) = Len(L) + 1 /\ seq[1] = i
        /\ \A k \in 2..(Len(L) + 1) : seq[k] = L[k - 1] /\ k - 1 \in 1..Len(L)
    <2>1. a \in Seq(Entries) /\ Len(a) = 1 /\ a[1] = i
      OBVIOUS
    <2> HIDE DEF a
    <2>2. /\ Len(a \o L) = Len(a) + Len(L)
          /\ \A k \in 1..(Len(a) + Len(L)) : (a \o L)[k] = IF k <= Len(a) THEN a[k] ELSE L[k - Len(a)]
      BY <1>5, <2>1, ConcatProperties
    <2>3. Len(seq) = Len(L) + 1
      BY <1>7, <2>1, <2>2
    <2>4. seq[1] = i
      BY <1>7, <2>1, <2>2
    <2>5. ASSUME NEW k \in 2..(Len(L) + 1) PROVE seq[k] = L[k - 1] /\ k - 1 \in 1..Len(L)
      <3>1. k \in 1..(Len(a) + Len(L)) /\ ~(k <= Len(a)) /\ Len(a) = 1
        BY <1>7, <2>1
      <3>2. seq[k] = L[k - 1]
        BY <2>2, <3>1
      <3> QED
        BY <1>7, <3>2
    <2> QED
      BY <2>3, <2>4, <2>5
  <1> HIDE DEF seq
  <1>9. ASSUME NEW k \in 1..Len(seq), NEW l \in 1..Len(seq), k < l
        PROVE  Before(rank', seq[k], seq[l])
    <2>1. l \in 2..(Len(L) + 1) /\ seq[l] = L[l - 1] /\ l - 1 \in 1..Len(L) /\ L[l - 1] \in Stored
      BY <1>5, <1>7, <1>8, <1>9
    <2>2. rank'[L[l - 1]] = rank[L[l - 1]]
      BY <1>2, <2>1
    <2>3. CASE k = 1
      <3>1. rank'[seq[k]] = x /\ rank'[seq[l]] > x
        BY <1>1, <1>2, <1>8, <2>1, <2>2, <2>3
      <3> QED
        BY <1>1, <3>1, <2>1, <2>2, <1>5, Listing DEF Before
    <2>4. CASE k # 1
      <3>1. k \in 2..(Len(L) + 1)
        BY <1>7, <1>8, <2>4
      <3>2. seq[k] = L[k - 1] /\ k - 1 \in 1..Len(L) /\ L[k - 1] \in Stored /\ k - 1 < l - 1
        BY <1>5, <1>8, <1>9, <2>1, <3>1
      <3>3. rank'[L[k - 1]] = rank[L[k - 1]]
        BY <1>2, <3>2
      <3>4. Before(rank, L[k - 1], L[l - 1])
        BY <1>5, <2>1, <3>2 DEF InOrder
      <3> QED
        BY <2>1, <2>2, <3>2, <3>3, <3>4 DEF Before
    <2> QED
      BY <2>3, <2>4
  <1>10. InOrder(rank', seq)
    BY <1>9 DEF InOrder
  <1>11. DOMAIN rank' = Stored' /\ DOMAIN rank' \subseteq Entries /\ rank' \in [DOMAIN rank' -> Int]
    BY <1>4 DEF TableInv, Stored
  <1>12. Listed(rank') = seq
    BY <1>6, <1>10, <1>11, ListedIs
  <1> QED
    BY <1>2, <1>3, <1>12 DEF seq, L

(* one that goes leaves the others in their order,                         *)
LEMMA FilterInOrder ==
  ASSUME NEW r, NEW seq \in Seq(Entries), InOrder(r, seq), NEW S
  PROVE  InOrder(r, Filter(seq, S))
  <1> DEFINE f == Filter(seq, S)
             P(k) == Passed(seq, S, k)
  <1>1. Len(seq) \in Nat
    BY Elements
  <1>2. \A m \in 1..Len(f) : \E k \in 1..Len(seq) : seq[k] \in S /\ P(k) = m /\ f[m] = seq[k]
    BY FilterFacts
  <1>3. \A k, l \in 0..Len(seq) : k <= l => P(k) <= P(l)
    BY <1>1, PassedFacts
  <1> HIDE DEF f, P
  <1> SUFFICES ASSUME NEW m \in 1..Len(f), NEW o \in 1..Len(f), m < o
               PROVE  Before(r, f[m], f[o])
    BY DEF InOrder, f
  <1>4. PICK k \in 1..Len(seq) : P(k) = m /\ f[m] = seq[k]
    BY <1>2
  <1>5. PICK l \in 1..Len(seq) : P(l) = o /\ f[o] = seq[l]
    BY <1>2
  <1>6. ~(l <= k)
    <2>1. k \in 0..Len(seq) /\ l \in 0..Len(seq)
      BY <1>1
    <2>2. l <= k => o <= m
      BY <1>3, <1>4, <1>5, <2>1
    <2> QED
      BY <2>2
  <1>7. k < l
    BY <1>1, <1>6
  <1> QED
    BY <1>4, <1>5, <1>7 DEF InOrder

LEMMA DeletedOrder ==
  ASSUME TableInv, NEW i, DeleteEntry(i)
  PROVE  Listed(rank)' = Filter(Listed(rank), Entries \ {i}) /\ Stored' = Stored \ {i}
  <1> DEFINE L == Listed(rank)
             f == Filter(L, Entries \ {i})
  <1>1. rank' = [j \in Stored \ {i} |-> rank[j]]
    BY DEF DeleteEntry, Restrict
  <1>2. Stored' = Stored \ {i}
    BY <1>1 DEF Stored
  <1>3. TableInv'
    BY Deleted
  <1>4. /\ L \in Seq(Entries) /\ IsInjective(L) /\ ToSet(L) = Stored /\ InOrder(rank, L)
        /\ Stored \subseteq Entries
    BY Listing
  <1> HIDE DEF L
  <1>5. f \in Seq(Entries) /\ IsInjective(f) /\ ToSet(f) = Stored' /\ InOrder(rank, f)
    <2>1. f \in Seq(Entries) /\ IsInjective(f) /\ ToSet(f) = ToSet(L) \cap (Entries \ {i})
      BY <1>4, FilterFacts, FilterSets
    <2>2. InOrder(rank, f)
      BY <1>4, FilterInOrder
    <2> QED
      BY <1>2, <1>4, <2>1, <2>2
  <1> HIDE DEF f
  <1>6. \A k \in 1..Len(f) : f[k] \in Stored'
    BY <1>5, Elements DEF ToSet
  <1>7. InOrder(rank', f)
    <2> SUFFICES ASSUME NEW k \in 1..Len(f), NEW l \in 1..Len(f), k < l
                 PROVE  Before(rank', f[k], f[l])
      BY DEF InOrder
    <2>1. rank'[f[k]] = rank[f[k]] /\ rank'[f[l]] = rank[f[l]]
      BY <1>1, <1>2, <1>6
    <2>2. Before(rank, f[k], f[l])
      BY <1>5 DEF InOrder
    <2> QED
      BY <2>1, <2>2 DEF Before
  <1>8. DOMAIN rank' = Stored' /\ DOMAIN rank' \subseteq Entries /\ rank' \in [DOMAIN rank' -> Int]
    BY <1>3 DEF TableInv, Stored
  <1>9. Listed(rank') = f
    BY <1>5, <1>7, <1>8, ListedIs
  <1> QED
    BY <1>2, <1>9 DEF f, L

(* and a reorder makes the order that it names.                            *)
LEMMA PermutedOrder ==
  ASSUME TableInv, NEW ids \in Seq(Entries), Reorder(ids)
  PROVE  Listed(rank)' = ids /\ Stored' = Stored
  <1>1. /\ rank' = [j \in Stored |-> Place(ids, j) - 1]
        /\ ToSet(ids) = Stored /\ IsInjective(ids)
    BY DEF Reorder, IsPermutation
  <1>2. Stored' = Stored
    BY <1>1 DEF Stored
  <1>3. TableInv'
    BY Permuted
  <1>4. Len(ids) \in Nat /\ \A k \in 1..Len(ids) : ids[k] \in Stored
    BY <1>1, Elements DEF ToSet
  <1>5. \A k \in 1..Len(ids) : Place(ids, ids[k]) = k
    BY <1>1, PlaceOf
  <1>6. \A k \in 1..Len(ids) : rank'[ids[k]] = k - 1
    BY <1>1, <1>4, <1>5
  <1>7. InOrder(rank', ids)
    <2> SUFFICES ASSUME NEW k \in 1..Len(ids), NEW l \in 1..Len(ids), k < l
                 PROVE  Before(rank', ids[k], ids[l])
      BY DEF InOrder
    <2>1. rank'[ids[k]] = k - 1 /\ rank'[ids[l]] = l - 1 /\ k - 1 < l - 1
      BY <1>6
    <2> QED
      BY <2>1 DEF Before
  <1>8. DOMAIN rank' = Stored' /\ DOMAIN rank' \subseteq Entries /\ rank' \in [DOMAIN rank' -> Int]
    BY <1>3 DEF TableInv, Stored
  <1>9. Listed(rank') = ids
    BY <1>1, <1>2, <1>7, <1>8, ListedIs
  <1> QED
    BY <1>2, <1>9

(* A tab that is told to show the entries it has in an order shows that    *)
(* order.                                                                  *)
LEMMA OrderTaken ==
  ASSUME NEW current \in Seq(Entries), NEW ids \in Seq(Entries), ToSet(ids) = ToSet(current)
  PROVE  ApplyOrder(current, ids) = ids
  <1>1. Filter(ids, ToSet(current)) = ids
    BY FilterAll
  <1>2. Filter(current, Entries \ ToSet(ids)) = <<>>
    <2>1. ToSet(current) \cap (Entries \ ToSet(ids)) = {}
      OBVIOUS
    <2> QED
      BY <2>1, FilterNone
  <1>3. ids \o <<>> = ids
    BY ConcatEmptySeq
  <1> QED
    BY <1>1, <1>2, <1>3 DEF ApplyOrder

-----------------------------------------------------------------------------
(* Calls                                                                   *)

LEMMA SameTable == TableInv /\ UNCHANGED <<rank, used>> => TableInv'
  BY DEF TableInv, Stored

(* There are more numbers than calls.                                      *)
LEMMA Numbered == IsFiniteSet(calls) => FreeNumber \in Nat
  <1> SUFFICES ASSUME IsFiniteSet(calls) PROVE FreeNumber \in Nat
    OBVIOUS
  <1> DEFINE m == Cardinality(calls)
             taken == {c.n : c \in calls}
             f == [c \in calls |-> c.n]
  <1>1. m \in Nat
    BY FS_CardinalityType
  <1>2. f \in Surjection(calls, taken)
    BY DEF Surjection
  <1>3. IsFiniteSet(taken) /\ Cardinality(taken) <= m
    <2> HIDE DEF f, taken
    <2> QED
      BY <1>2, FS_Surjection
  <1>4. IsFiniteSet(0..m) /\ Cardinality(0..m) = m + 1
    <2>1. 0 \in Int /\ m \in Int /\ ~(0 > m)
      BY <1>1
    <2> HIDE DEF m
    <2>2. IsFiniteSet(0..m) /\ Cardinality(0..m) = m - 0 + 1
      BY <2>1, FS_Interval
    <2> QED
      BY <1>1, <2>2
  <1>5. \E n \in 0..m : n \notin taken
    <2> SUFFICES ASSUME 0..m \subseteq taken PROVE FALSE
      OBVIOUS
    <2> HIDE DEF taken, m
    <2>1. /\ Cardinality(0..m) <= Cardinality(taken)
          /\ Cardinality(0..m) \in Nat /\ Cardinality(taken) \in Nat
      BY <1>3, CardSub
    <2> QED
      BY <1>1, <1>3, <1>4, <2>1
  <1>6. \E n \in 0..m : \A c \in calls : c.n # n
    BY <1>5
  <1>7. FreeNumber \in 0..m
    BY <1>6 DEF FreeNumber
  <1> QED
    BY <1>1, <1>7

LEMMA Sent ==
  ASSUME CallsInv, NEW kind \in Writes \cup {"list"}, NEW id \in Entries \cup {None},
         NEW order, IsList(order), NEW back, IsList(back), Send(kind, id, order, back)
  PROVE  /\ IsFiniteSet(calls')
         /\ drift \subseteq Causes => drift' \subseteq Causes
         /\ \E c \in Call :
              /\ calls' = calls \cup {c}
              /\ c.kind = kind /\ c.id = id /\ c.order = order /\ c.back = back
              /\ c.live /\ c.at = "sent"
  <1> DEFINE c == [n |-> FreeNumber, kind |-> kind, id |-> id, order |-> order,
                   back |-> back, live |-> TRUE, at |-> "sent"]
  <1>1. calls' = calls \cup {c}
    BY DEF Send
  <1>2. FreeNumber \in Nat
    BY Numbered DEF CallsInv
  <1>3. c \in Call
    BY <1>2 DEF Call, IsList
  <1>4. c.kind = kind /\ c.id = id /\ c.order = order /\ c.back = back /\ c.live /\ c.at = "sent"
    OBVIOUS
  <1>5. drift \subseteq Causes => drift' \subseteq Causes
    BY DEF Send, Meets, Causes
  <1> HIDE DEF c
  <1>6. IsFiniteSet(calls')
    BY <1>1, FS_AddElement DEF CallsInv
  <1> QED
    BY <1>1, <1>3, <1>4, <1>5, <1>6

(* A call stays as good as it was when the table grows and the list on the *)
(* screen does not.                                                        *)
LEMMA CallKept ==
  ASSUME NEW c, CallInv(c), screen' = screen, used \subseteq used',
         ToSet(list)' \subseteq ToSet(list)
  PROVE  CallInv(c)'
  BY DEF CallInv

LEMMA CallsKept ==
  ASSUME CallsInv, screen' = screen, used \subseteq used',
         ToSet(list)' \subseteq ToSet(list), calls' \subseteq calls
  PROVE  CallsInv'
  <1>1. IsFiniteSet(calls')
    BY CardSub DEF CallsInv
  <1>2. \A c \in calls' : CallInv(c)'
    BY CallKept DEF CallsInv
  <1> QED
    BY <1>1, <1>2 DEF CallsInv, Alone

(* A new call next to the old ones.                                        *)
LEMMA CallAdded ==
  ASSUME CallsInv, screen' = screen, used' = used, ToSet(list)' = ToSet(list),
         NEW c, calls' = calls \cup {c}, CallInv(c),
         \A d \in calls : ~Alone(c, d) /\ ~Alone(d, c)
  PROVE  CallsInv'
  <1>1. IsFiniteSet(calls')
    BY FS_AddElement DEF CallsInv
  <1>2. \A d \in calls' : CallInv(d)'
    BY CallKept DEF CallsInv
  <1>3. \A d, e \in calls' : Alone(d, e) => d = e
    BY DEF CallsInv
  <1> QED
    BY <1>1, <1>2, <1>3 DEF CallsInv, Alone

LEMMA EmptyList == IsList(<<>>) /\ ToSet(<<>>) = {}
  BY DEF IsList, IsInjective, ToSet

-----------------------------------------------------------------------------
(* What the tab does                                                       *)

LEMMA MountKept == ListInv /\ Mount => ListInv'
  <1> SUFFICES ASSUME ListInv, Mount PROVE ListInv'
    OBVIOUS
  <1> USE DEF Mount
  <1>1. TableInv'
    BY SameTable DEF ListInv
  <1>2. ShownInv'
    BY DEF ListInv, ShownInv, IsList
  <1>3. drag' = None
    BY DEF ListInv, DragInv
  <1>4. IsList(<<>>)
    BY EmptyList
  <1>5. CallsInv /\ Send("list", None, <<>>, <<>>)
    BY DEF ListInv
  <1>6. /\ IsFiniteSet(calls')
        /\ drift \subseteq Causes => drift' \subseteq Causes
        /\ \E c \in Call :
             /\ calls' = calls \cup {c} /\ c.kind = "list" /\ c.order = <<>> /\ c.back = <<>>
             /\ c.live
    <2> DEFINE e == <<>>
               k == "list"
               nobody == None
    <2>1. k \in Writes \cup {"list"} /\ nobody \in Entries \cup {None}
      OBVIOUS
    <2>2. IsList(e) /\ Send(k, nobody, e, e)
      BY <1>4, <1>5
    <2> HIDE DEF e, k, nobody
    <2>3. /\ IsFiniteSet(calls')
          /\ drift \subseteq Causes => drift' \subseteq Causes
          /\ \E c \in Call :
               /\ calls' = calls \cup {c} /\ c.kind = k /\ c.order = e /\ c.back = e
               /\ c.live
      BY <1>5, <2>1, <2>2, Sent
    <2> QED
      BY <2>3 DEF e, k
  <1>7. PICK c \in Call :
          /\ calls' = calls \cup {c} /\ c.kind = "list" /\ c.order = <<>> /\ c.back = <<>>
          /\ c.live
    BY <1>6
  <1>8. CountInv'
    BY <1>6, BoundsAssumption DEF ListInv, CountInv
  <1>9. \A d \in calls : ~d.live /\ d.kind # "list"
    BY <1>5 DEF CallsInv, CallInv
  <1>10. CallInv(c)'
    BY <1>4, <1>7, EmptyList DEF CallInv, IsList
  <1>11. \A d \in calls : CallInv(d)'
    BY <1>5, <1>9 DEF CallsInv, CallInv
  <1>12. \A d, e \in calls' : Alone(d, e) => d = e
    BY <1>7, <1>9 DEF Alone
  <1>13. CallsInv'
    BY <1>6, <1>7, <1>10, <1>11, <1>12 DEF CallsInv, Alone
  <1> QED
    BY <1>1, <1>2, <1>3, <1>8, <1>13 DEF ListInv, DragInv

LEMMA ClearedKept == ListInv /\ KeyCleared => ListInv'
  <1> SUFFICES ASSUME ListInv, KeyCleared PROVE ListInv'
    OBVIOUS
  <1> USE DEF KeyCleared
  <1>1. TableInv'
    BY SameTable DEF ListInv
  <1>2. ShownInv' /\ ToSet(list)' = {}
    BY EmptyList DEF ShownInv, IsList
  <1>3. CallsInv'
    <2>1. \A c \in calls : CallInv(c)'
      BY <1>2 DEF ListInv, CallsInv, CallInv
    <2> QED
      BY <2>1 DEF ListInv, CallsInv, Alone
  <1> QED
    BY <1>1, <1>2, <1>3 DEF ListInv, DragInv, CountInv

LEMMA UnmountKept == ListInv /\ Unmount => ListInv'
  <1> SUFFICES ASSUME ListInv, Unmount PROVE ListInv'
    OBVIOUS
  <1> USE DEF Unmount
  <1>1. TableInv'
    BY SameTable DEF ListInv
  <1>2. ShownInv' /\ ToSet(list)' = {}
    BY EmptyList DEF ShownInv, IsList
  <1>3. CountInv'
    BY DEF ListInv, CountInv
  <1> DEFINE kept == {d \in calls : d.kind \in Writes}
             Dead(c) == [c EXCEPT !.live = FALSE]
             f == [c \in kept |-> Dead(c)]
  <1>4. calls' = {Dead(c) : c \in kept}
    OBVIOUS
  <1>5. IsFiniteSet(calls')
    <2>1. f \in Surjection(kept, calls')
      BY <1>4 DEF Surjection
    <2>2. kept \subseteq calls /\ IsFiniteSet(calls)
      BY DEF ListInv, CallsInv
    <2> HIDE DEF kept, f
    <2> QED
      BY <2>1, <2>2, CardSub, FS_Surjection
  <1>6. ASSUME NEW c \in kept
        PROVE  CallInv(Dead(c))' /\ ~Dead(c).live /\ Dead(c).kind # "list"
    <2>1. c \in Call /\ c.kind \in Writes /\ CallInv(c)
      BY DEF ListInv, CallsInv, CallInv
    <2>2. /\ Dead(c) \in Call /\ Dead(c).live = FALSE /\ Dead(c).kind = c.kind
          /\ Dead(c).id = c.id /\ Dead(c).order = c.order /\ Dead(c).back = c.back
          /\ Dead(c).at = c.at
      BY <2>1 DEF Call
    <2>3. c.kind # "list"
      BY <2>1 DEF Writes
    <2> HIDE DEF Dead
    <2> QED
      BY <2>1, <2>2, <2>3 DEF CallInv
  <1> HIDE DEF kept, Dead
  <1>7. \A c \in calls' : CallInv(c)' /\ ~c.live /\ c.kind # "list"
    BY <1>4, <1>6
  <1>8. CallsInv'
    BY <1>5, <1>7 DEF CallsInv, Alone
  <1> QED
    BY <1>1, <1>2, <1>3, <1>8 DEF ListInv, DragInv

LEMMA ModalKept ==
  ASSUME ListInv, NEW kind \in Writes \ {"reorder"}, NEW i \in Entries, StartModal(kind, i)
  PROVE  ListInv'
  <1> USE DEF StartModal
  <1>1. TableInv'
    BY SameTable DEF ListInv
  <1>2. ShownInv' /\ ToSet(list)' = ToSet(list) /\ screen' = screen /\ used' = used
    BY DEF ListInv, ShownInv, IsList, tabVars
  <1>3. DragInv'
    BY DEF ListInv, DragInv, tabVars
  <1>4. CallsInv /\ Send(kind, i, <<>>, list) /\ IsList(list) /\ IsList(<<>>)
    BY EmptyList DEF ListInv, ShownInv
  <1>5. PICK c \in Call :
          /\ calls' = calls \cup {c} /\ c.kind = kind /\ c.id = i
          /\ c.order = <<>> /\ c.back = list /\ c.live /\ c.at = "sent"
    BY <1>4, Sent
  <1>6. drift \subseteq Causes => drift' \subseteq Causes
    BY <1>4, Sent
  <1>7. CountInv'
    BY <1>6, BoundsAssumption DEF ListInv, CountInv, tabVars
  <1>8. screen = "ready" /\ ~\E d \in calls : d.live /\ d.kind \in Writes \ {"reorder"}
    BY DEF ModalFree, Rendered
  <1>9. kind = "create" => i \notin ToSet(list)
    BY DEF ListInv, ShownInv
  <1>10. kind # "list"
    BY DEF Writes
  <1>11. CallInv(c)
    BY <1>4, <1>5, <1>8, <1>9, <1>10 DEF CallInv, IsList
  <1>12. \A d \in calls : ~Alone(c, d) /\ ~Alone(d, c)
    <2> SUFFICES ASSUME NEW d \in calls PROVE ~Alone(c, d) /\ ~Alone(d, c)
      OBVIOUS
    <2>1. d.kind # "list"
      BY <1>4, <1>8 DEF CallsInv, CallInv
    <2> QED
      BY <1>5, <1>8, <1>10, <2>1 DEF Alone
  <1>13. CallsInv'
    BY <1>2, <1>4, <1>5, <1>11, <1>12, CallAdded
  <1> QED
    BY <1>1, <1>2, <1>3, <1>7, <1>13 DEF ListInv

LEMMA Persisted ==
  ASSUME ListInv, screen = "ready", NEW all, NEW ordered, IsList(all), IsList(ordered),
         PersistOrder(all, ordered), UNCHANGED <<rank, used, screen, others, mounts>>
  PROVE  TableInv' /\ ShownInv' /\ CallsInv' /\ CountInv'
  <1>1. TableInv'
    BY SameTable DEF ListInv
  <1>2. CASE UNCHANGED <<list, busy, calls, drift, ops>>
    BY <1>1, <1>2, CallsKept DEF ListInv, ShownInv, IsList, CountInv
  <1>3. CASE /\ ops < MaxOps
             /\ ops' = ops + 1
             /\ busy' = TRUE
             /\ list' = ApplyOrder(list, ordered)
             /\ Send("reorder", None, ordered, all)
    <2> DEFINE nobody == None
               kind == "reorder"
    <2>1. IsList(list') /\ ToSet(list)' = ToSet(list)
      BY <1>3, Ordered DEF ListInv, ShownInv, IsList
    <2>2. ShownInv'
      BY <2>1 DEF ListInv, ShownInv, IsList
    <2>3. kind \in Writes \cup {"list"} /\ nobody \in Entries \cup {None}
      BY DEF Writes
    <2>4. CallsInv /\ Send(kind, nobody, ordered, all)
      BY <1>3 DEF ListInv
    <2> HIDE DEF kind, nobody
    <2>5. /\ drift \subseteq Causes => drift' \subseteq Causes
          /\ \E c \in Call :
               /\ calls' = calls \cup {c} /\ c.kind = kind /\ c.order = ordered
               /\ c.back = all /\ c.live
      BY <2>3, <2>4, Sent
    <2>6. PICK c \in Call :
               /\ calls' = calls \cup {c} /\ c.kind = "reorder" /\ c.order = ordered
               /\ c.back = all /\ c.live
      BY <2>5 DEF kind
    <2>7. CallInv(c)
      BY <2>6 DEF CallInv, IsList
    <2>8. \A d \in calls : ~Alone(c, d) /\ ~Alone(d, c)
      <3> SUFFICES ASSUME NEW d \in calls PROVE ~Alone(c, d) /\ ~Alone(d, c)
        OBVIOUS
      <3>1. d.kind # "list"
        BY <2>4 DEF CallsInv, CallInv
      <3> QED
        BY <2>6, <3>1 DEF Alone
    <2>9. CallsInv'
      BY <2>1, <2>4, <2>6, <2>7, <2>8, CallAdded
    <2>10. CountInv'
      BY <1>3, <2>5, BoundsAssumption DEF ListInv, CountInv
    <2> QED
      BY <1>1, <2>2, <2>9, <2>10
  <1> QED
    BY <1>2, <1>3 DEF PersistOrder

(* What a drop or an arrow key makes of a list is a list.                  *)
LEMMA DropIsList ==
  ASSUME NEW all, IsList(all), NEW S, NEW i \in ToSet(Filter(all, S)),
         NEW target \in ToSet(Filter(all, S))
  PROVE  IsList(DropVisibleEntry(all, Filter(all, S), i, target))
  <1>1. all \in Seq(Entries) /\ IsInjective(all)
    BY DEF IsList
  <1> DEFINE r == DropVisibleEntry(all, Filter(all, S), i, target)
  <1>2. r \in Seq(Entries) /\ IsInjective(r)
    BY <1>1, Dropped
  <1> QED
    BY <1>2 DEF IsList

LEMMA MovePersists ==
  ASSUME ListInv, NEW i, NEW delta, NEW shown \in Filters, MoveWithKeyboard(i, delta, shown)
  PROVE  /\ screen = "ready" /\ UNCHANGED <<rank, used, screen, drag, others, mounts>>
         /\ \E ordered \in Seq(Entries) : IsList(ordered) /\ PersistOrder(list, ordered)
  <1> DEFINE visible == Visible(shown)
             at == Place(visible, i)
             target == visible[at + delta]
             ordered == DropVisibleEntry(list, visible, i, target)
  <1>1. /\ screen = "ready" /\ at # 0 /\ at + delta \in DOMAIN visible
        /\ PersistOrder(list, ordered)
        /\ UNCHANGED <<rank, used, screen, drag, others, mounts>>
    BY DEF MoveWithKeyboard, Rendered
  <1>2. IsList(list)
    BY DEF ListInv, ShownInv
  <1>3. visible = Filter(list, shown) /\ visible \in Seq(Entries)
    BY <1>2, FilterFacts DEF Visible, IsList
  <1>4. i \in ToSet(visible) /\ target \in ToSet(visible)
    <2> HIDE DEF visible
    <2>1. i \in ToSet(visible)
      BY <1>1, <1>3, PlaceFacts
    <2> QED
      BY <1>1, <2>1 DEF ToSet
  <1>5. IsList(ordered)
    <2> HIDE DEF visible, target
    <2> QED
      BY <1>2, <1>3, <1>4, DropIsList
  <1> HIDE DEF ordered, visible, at
  <1> QED
    BY <1>1, <1>5 DEF IsList

LEMMA MovedKept ==
  ASSUME ListInv, NEW i, NEW delta, NEW shown \in Filters, MoveWithKeyboard(i, delta, shown)
  PROVE  ListInv'
  <1>1. /\ screen = "ready" /\ UNCHANGED <<rank, used, screen, drag, others, mounts>>
        /\ \E ordered \in Seq(Entries) : IsList(ordered) /\ PersistOrder(list, ordered)
    BY MovePersists
  <1>2. PICK ordered \in Seq(Entries) : IsList(ordered) /\ PersistOrder(list, ordered)
    BY <1>1
  <1>3. IsList(list)
    BY DEF ListInv, ShownInv
  <1>4. TableInv' /\ ShownInv' /\ CallsInv' /\ CountInv'
    BY <1>1, <1>2, <1>3, Persisted
  <1>5. DragInv'
    BY <1>1 DEF ListInv, DragInv
  <1> QED
    BY <1>4, <1>5 DEF ListInv

LEMMA StartKept ==
  ASSUME ListInv, NEW i \in Entries, NEW shown \in Filters, StartDrag(i, shown)
  PROVE  ListInv'
  <1> USE DEF StartDrag
  <1>1. TableInv'
    BY SameTable DEF ListInv
  <1>2. ShownInv' /\ CallsInv' /\ CountInv'
    BY CallsKept DEF ListInv, ShownInv, IsList, CountInv
  <1>3. IsList(list) /\ screen = "ready"
    BY DEF ListInv, ShownInv, ModalFree, Rendered
  <1>4. Visible(shown) \in Seq(Entries) /\ Visible(shown) = Filter(list, shown)
    BY <1>3, FilterFacts DEF Visible, IsList
  <1>5. DragInv'
    <2> DEFINE d == [id |-> i, all |-> list, visible |-> Visible(shown)]
    <2>1. d \in [id : Entries, all : Seq(Entries), visible : Seq(Entries)]
      BY <1>3, <1>4 DEF IsList
    <2>2. /\ d.all = list /\ d.visible = Visible(shown) /\ d.id = i
          /\ drag' = d /\ i \in ToSet(Visible(shown)) /\ screen' = "ready"
      BY <1>3
    <2> HIDE DEF d
    <2> QED
      BY <1>3, <1>4, <2>1, <2>2 DEF DragInv, IsList
  <1> QED
    BY <1>1, <1>2, <1>5 DEF ListInv

LEMMA DropPersists ==
  ASSUME ListInv, NEW target, Drop(target)
  PROVE  /\ screen = "ready" /\ drag' = None /\ UNCHANGED <<rank, used, screen, others, mounts>>
         /\ \E all, ordered \in Seq(Entries) :
              IsList(all) /\ IsList(ordered) /\ PersistOrder(all, ordered)
  <1>1. /\ drag # None /\ target \in ToSet(drag.visible) /\ drag' = None
        /\ PersistOrder(drag.all, DropVisibleEntry(drag.all, drag.visible, drag.id, target))
        /\ UNCHANGED <<rank, used, screen, others, mounts>>
    BY DEF Drop
  <1>2. /\ screen = "ready" /\ IsList(drag.all) /\ drag.id \in ToSet(drag.visible)
        /\ \E shown \in Filters : drag.visible = Filter(drag.all, shown)
    BY <1>1 DEF ListInv, DragInv, IsList
  <1>3. PICK shown \in Filters : drag.visible = Filter(drag.all, shown)
    BY <1>2
  <1>4. IsList(DropVisibleEntry(drag.all, drag.visible, drag.id, target))
    BY <1>1, <1>2, <1>3, DropIsList
  <1> QED
    BY <1>1, <1>2, <1>4 DEF IsList

LEMMA DropKept ==
  ASSUME ListInv, NEW target, Drop(target)
  PROVE  ListInv'
  <1>1. /\ screen = "ready" /\ drag' = None /\ UNCHANGED <<rank, used, screen, others, mounts>>
        /\ \E all, ordered \in Seq(Entries) :
             IsList(all) /\ IsList(ordered) /\ PersistOrder(all, ordered)
    BY DropPersists
  <1>2. PICK all \in Seq(Entries), ordered \in Seq(Entries) :
          IsList(all) /\ IsList(ordered) /\ PersistOrder(all, ordered)
    BY <1>1
  <1>3. TableInv' /\ ShownInv' /\ CallsInv' /\ CountInv'
    BY <1>1, <1>2, Persisted
  <1> QED
    BY <1>1, <1>3 DEF ListInv, DragInv

LEMMA CancelKept == ListInv /\ CancelDrag => ListInv'
  <1> SUFFICES ASSUME ListInv, CancelDrag PROVE ListInv'
    OBVIOUS
  <1> USE DEF CancelDrag
  <1>1. TableInv'
    BY SameTable DEF ListInv
  <1>2. ShownInv' /\ CallsInv' /\ CountInv'
    BY CallsKept DEF ListInv, ShownInv, IsList, CountInv
  <1> QED
    BY <1>1, <1>2 DEF ListInv, DragInv

-----------------------------------------------------------------------------
(* What the server and the network do                                      *)

LEMMA ServeKept ==
  ASSUME ListInv, NEW c \in calls, Serve(c)
  PROVE  ListInv'
  <1> USE DEF Serve
  <1>1. CallsInv /\ CallInv(c) /\ c \in Call
    BY DEF ListInv, CallsInv, CallInv
  <1>2. /\ UNCHANGED <<screen, list, drag, busy, ops, others, mounts>>
        /\ UNCHANGED drag
    BY DEF tabVars
  <1>3. CASE ServeList(c)
    <2>1. rank' = rank /\ used' = used /\ drift' = {} /\ c.kind = "list"
      BY <1>3 DEF ServeList
    <2>2. TableInv /\ TableInv'
      BY <2>1, SameTable DEF ListInv
    <2>3. /\ Listed(rank) \in Seq(Entries) /\ IsInjective(Listed(rank))
          /\ ToSet(Listed(rank)) \subseteq used
      <3>1. DOMAIN rank \subseteq Entries /\ rank \in [DOMAIN rank -> Int] /\ DOMAIN rank \subseteq used
        BY <2>2 DEF TableInv, Stored
      <3> QED
        BY <3>1, ListedFacts
    <2>4. PICK d \in Call :
            /\ calls' = (calls \ {c}) \cup {d}
            /\ d.kind = c.kind /\ d.live = c.live /\ d.id = c.id /\ d.back = c.back
            /\ d.order = Listed(rank)
      <3> DEFINE d == [c EXCEPT !.at = "served", !.order = Listed(rank)]
      <3>1. /\ d \in Call /\ d.kind = c.kind /\ d.live = c.live /\ d.id = c.id /\ d.back = c.back
            /\ d.order = Listed(rank)
        BY <1>1, <2>3 DEF Call
      <3>2. calls' = (calls \ {c}) \cup {d}
        BY <1>3 DEF ServeList
      <3> HIDE DEF d
      <3> QED
        BY <3>1, <3>2
    <2>5. CallInv(d)'
      <3>1. IsInjective(d.order) /\ IsInjective(d.back) /\ ToSet(d.order) \subseteq used'
        BY <1>1, <2>1, <2>3, <2>4 DEF CallInv
      <3>2. d.live /\ screen' = "loading"
        BY <1>1, <1>2, <2>1, <2>4 DEF CallInv
      <3>3. d.kind = "list" /\ d.kind # "create"
        BY <2>1, <2>4
      <3> QED
        BY <2>4, <3>1, <3>2, <3>3 DEF CallInv
    <2>6. \A e \in calls : CallInv(e)'
      BY <1>1, <1>2, <2>1, CallKept DEF CallsInv
    <2>7. IsFiniteSet(calls')
      <3>1. IsFiniteSet(calls \ {c})
        BY <1>1, FS_RemoveElement DEF CallsInv
      <3> QED
        BY <2>4, <3>1, FS_AddElement
    <2>8. \A e, g \in calls' : Alone(e, g) => e = g
      <3>1. \A e \in calls \ {c} : ~Alone(c, e) /\ ~Alone(e, c)
        BY <1>1 DEF CallsInv
      <3>2. \A e \in calls \ {c} : ~Alone(d, e) /\ ~Alone(e, d)
        BY <2>4, <3>1 DEF Alone
      <3> QED
        BY <1>1, <2>4, <3>2 DEF CallsInv
    <2>9. CallsInv'
      <3>1. \A e \in calls' : CallInv(e)'
        BY <2>4, <2>5, <2>6
      <3> QED
        BY <2>7, <2>8, <3>1 DEF CallsInv, Alone
    <2> QED
      BY <1>2, <2>1, <2>2, <2>9 DEF ListInv, ShownInv, IsList, DragInv, CountInv
  <1>4. CASE ServeWrite(c)
    <2> DEFINE d == [c EXCEPT !.at = "served"]
    <2>1. /\ calls' = (calls \ {c}) \cup (IF c.live THEN {d} ELSE {})
          /\ drift' = drift \cup (IF c.live THEN {} ELSE {"late"})
          /\ c.kind \in Writes /\ Accepts(c)
      BY <1>4 DEF ServeWrite
    <2>2. c.kind # "list"
      BY <2>1 DEF Writes
    <2>3. TableInv' /\ used \subseteq used' /\ (c.kind = "create" => c.id \in used')
      <3>1. TableInv
        BY DEF ListInv
      <3>2. CASE c.kind = "create"
        <4>1. InsertEntry(c.id) /\ c.id \in Entries
          BY <1>1, <2>1, <3>2 DEF Accepts, CallInv
        <4> QED
          BY <3>1, <4>1, Inserted
      <3>3. CASE c.kind = "update"
        <4>1. UNCHANGED <<rank, used>>
          BY <2>1, <3>3 DEF Accepts
        <4> QED
          BY <3>1, <3>3, <4>1, SameTable
      <3>4. CASE c.kind = "delete"
        <4>1. DeleteEntry(c.id)
          BY <2>1, <3>4 DEF Accepts
        <4> QED
          BY <3>1, <3>4, <4>1, Deleted
      <3>5. CASE c.kind = "reorder"
        <4>1. Reorder(c.order) /\ c.order \in Seq(Entries)
          BY <1>1, <2>1, <3>5 DEF Accepts, Call
        <4> QED
          BY <3>1, <3>5, <4>1, Permuted
      <3> QED
        BY <2>1, <3>2, <3>3, <3>4, <3>5 DEF Writes
    <2>4. /\ d \in Call /\ d.kind = c.kind /\ d.live = c.live /\ d.id = c.id /\ d.back = c.back
          /\ d.order = c.order
      BY <1>1 DEF Call
    <2> HIDE DEF d
    <2>5. CallInv(d)'
      BY <1>1, <1>2, <2>2, <2>3, <2>4 DEF CallInv
    <2>6. \A e \in calls : CallInv(e)'
      BY <1>1, <1>2, <2>3, CallKept DEF CallsInv
    <2>7. IsFiniteSet(calls')
      <3>1. IsFiniteSet(calls \ {c})
        BY <1>1, FS_RemoveElement DEF CallsInv
      <3> QED
        BY <2>1, <3>1, FS_AddElement
    <2>8. \A e, g \in calls' : Alone(e, g) => e = g
      <3>1. \A e \in calls \ {c} : ~Alone(c, e) /\ ~Alone(e, c)
        BY <1>1 DEF CallsInv
      <3>2. \A e \in calls \ {c} : ~Alone(d, e) /\ ~Alone(e, d)
        BY <2>4, <3>1 DEF Alone
      <3>3. calls' \subseteq (calls \ {c}) \cup {d}
        BY <2>1
      <3> QED
        BY <1>1, <3>2, <3>3 DEF CallsInv
    <2>9. CallsInv'
      <3>1. \A e \in calls' : CallInv(e)'
        BY <2>1, <2>5, <2>6
      <3> QED
        BY <2>7, <2>8, <3>1 DEF CallsInv, Alone
    <2>10. ShownInv' /\ DragInv'
      BY <1>2, <2>3 DEF ListInv, ShownInv, IsList, DragInv
    <2>11. CountInv'
      BY <1>2, <2>1 DEF ListInv, CountInv, Causes
    <2> QED
      BY <2>3, <2>9, <2>10, <2>11 DEF ListInv
  <1> QED
    BY <1>3, <1>4

(* Nothing is on its way to a tab whose list has just arrived.             *)
LEMMA ListAnswerKept ==
  ASSUME ListInv, NEW c \in calls, NEW ok \in BOOLEAN, c.live, ListAnswered(c, ok),
         calls' = calls \ {c}, UNCHANGED <<rank, used>>
  PROVE  TableInv' /\ ShownInv' /\ CallsInv' /\ DragInv'
  <1> USE DEF ListAnswered
  <1>1. TableInv' /\ CallsInv /\ CallInv(c)
    BY SameTable DEF ListInv, CallsInv
  <1>2. screen = "loading" /\ ToSet(c.order) \subseteq used /\ IsList(c.order)
    BY <1>1 DEF CallInv, IsList, Call
  <1>3. ShownInv'
    BY <1>2 DEF ListInv, ShownInv, IsList
  <1>4. drag' = None
    BY <1>2 DEF ListInv, DragInv
  <1>5. \A d \in calls' : d \in calls /\ ~d.live /\ d.kind # "list"
    BY <1>1 DEF CallsInv, CallInv, Alone
  <1>6. \A d \in calls' : CallInv(d)'
    BY <1>1, <1>5 DEF CallsInv, CallInv
  <1>7. IsFiniteSet(calls')
    BY <1>1, CardSub DEF CallsInv
  <1>8. \A d, e \in calls' : ~Alone(d, e)
    BY <1>5 DEF Alone
  <1> QED
    BY <1>1, <1>3, <1>4, <1>6, <1>7, <1>8 DEF CallsInv, DragInv, Alone

LEMMA ModalAnswerKept ==
  ASSUME ListInv, NEW c \in calls, NEW ok \in BOOLEAN, c.live, ModalAnswered(c, ok),
         ok => c.at = "served", calls' = calls \ {c}, UNCHANGED <<rank, used>>
  PROVE  TableInv' /\ ShownInv' /\ CallsInv' /\ DragInv'
  <1>1. TableInv' /\ CallsInv /\ CallInv(c) /\ IsList(list) /\ ToSet(list) \subseteq used
    BY SameTable DEF ListInv, CallsInv, ShownInv
  <1>2. /\ c.kind \in Writes \ {"reorder"} /\ list' = Shown(c, ok)
        /\ UNCHANGED <<screen, drag, busy>>
    BY DEF ModalAnswered
  <1>3. DragInv'
    BY <1>2 DEF ListInv, DragInv
  <1>4. CASE ok /\ c.kind = "create"
    <2>1. list' = <<c.id>> \o list
      BY <1>2, <1>4 DEF Shown
    <2>2. c.id \in Entries /\ c.id \in used /\ c.id \notin ToSet(list)
      BY <1>1, <1>4 DEF CallInv
    <2>3. IsList(list') /\ ToSet(list)' = {c.id} \cup ToSet(list)
      BY <1>1, <2>1, <2>2, Prepended DEF IsList
    <2>4. ShownInv'
      BY <1>1, <1>2, <2>2, <2>3 DEF ListInv, ShownInv, IsList
    <2>5. \A d \in calls' : d \in calls /\ ~(d.live /\ d.kind = "create")
      BY <1>1, <1>4 DEF CallsInv, Alone, Writes
    <2>6. \A d \in calls' : CallInv(d)'
      BY <1>1, <1>2, <2>5 DEF CallsInv, CallInv
    <2>7. IsFiniteSet(calls')
      BY <1>1, CardSub DEF CallsInv
    <2>8. \A d, e \in calls' : Alone(d, e) => d = e
      BY <1>1, <2>5 DEF CallsInv
    <2>9. CallsInv'
      BY <2>6, <2>7, <2>8 DEF CallsInv, Alone
    <2> QED
      BY <1>1, <1>3, <2>4, <2>9
  <1>5. CASE ok /\ c.kind = "delete"
    <2>1. list' = Filter(list, Entries \ {c.id})
      BY <1>2, <1>5 DEF Shown
    <2>2. /\ IsList(Filter(list, Entries \ {c.id}))
          /\ ToSet(Filter(list, Entries \ {c.id})) = ToSet(list) \cap (Entries \ {c.id})
      <3>1. list \in Seq(Entries) /\ IsInjective(list)
        BY <1>1 DEF IsList
      <3> QED
        BY <3>1, FilterFacts, FilterSets DEF IsList
    <2>3. IsList(list') /\ ToSet(list)' \subseteq ToSet(list)
      BY <2>1, <2>2
    <2>4. ShownInv'
      BY <1>1, <1>2, <2>3 DEF ListInv, ShownInv, IsList
    <2>5. CallsInv'
      BY <1>1, <1>2, <2>3, CallsKept
    <2> QED
      BY <1>1, <1>3, <2>4, <2>5
  <1>6. CASE ~(ok /\ c.kind \in {"create", "delete"})
    <2>1. list' = list
      BY <1>2, <1>6 DEF Shown
    <2>2. ShownInv'
      BY <1>2, <2>1 DEF ListInv, ShownInv, IsList
    <2>3. CallsInv'
      BY <1>1, <1>2, <2>1, CallsKept
    <2> QED
      BY <1>1, <1>3, <2>2, <2>3
  <1> QED
    BY <1>4, <1>5, <1>6

LEMMA OrderAnswerKept ==
  ASSUME ListInv, NEW c \in calls, NEW ok \in BOOLEAN, ReorderAnswered(c, ok),
         calls' = calls \ {c}, UNCHANGED <<rank, used>>
  PROVE  TableInv' /\ ShownInv' /\ CallsInv' /\ DragInv'
  <1>1. TableInv' /\ CallsInv /\ CallInv(c) /\ IsList(list)
    BY SameTable DEF ListInv, CallsInv, ShownInv
  <1>2. list' = ApplyOrder(list, Settled(c, ok)) /\ UNCHANGED <<screen, drag>>
    BY DEF ReorderAnswered
  <1>3. IsList(Settled(c, ok))
    <2>1. IsList(c.order) /\ IsList(c.back)
      BY <1>1 DEF CallInv, Call, IsList
    <2> QED
      BY <2>1 DEF Settled
  <1>4. IsList(list') /\ ToSet(list)' = ToSet(list)
    BY <1>1, <1>2, <1>3, Ordered DEF IsList
  <1>5. ShownInv' /\ DragInv'
    BY <1>2, <1>4 DEF ListInv, ShownInv, IsList, DragInv
  <1>6. CallsInv'
    BY <1>1, <1>2, <1>4, CallsKept
  <1> QED
    BY <1>1, <1>5, <1>6

LEMMA AnswerKept ==
  ASSUME ListInv, NEW c \in calls, NEW ok \in BOOLEAN, Answer(c, ok)
  PROVE  ListInv'
  <1>1. /\ calls' = calls \ {c} /\ UNCHANGED <<rank, used, ops, others, mounts>>
        /\ ok => c.at = "served"
        /\ drift' = drift \cup
             (IF ~ok /\ c.at = "served" /\ c.kind \in Writes THEN {"lost"} ELSE {})
    BY DEF Answer
  <1>2. TableInv' /\ ShownInv' /\ CallsInv' /\ DragInv'
    <2>1. CASE c.live /\ ListAnswered(c, ok)
      BY <1>1, <2>1, ListAnswerKept
    <2>2. CASE c.live /\ ModalAnswered(c, ok)
      BY <1>1, <2>2, ModalAnswerKept
    <2>3. CASE c.live /\ ReorderAnswered(c, ok)
      BY <1>1, <2>3, OrderAnswerKept
    <2>4. CASE ~c.live /\ UNCHANGED tabVars
      <3>1. UNCHANGED <<screen, list, drag>>
        BY <2>4 DEF tabVars
      <3>2. TableInv' /\ CallsInv'
        BY <1>1, <3>1, SameTable, CallsKept DEF ListInv
      <3> QED
        BY <1>1, <3>1, <3>2 DEF ListInv, ShownInv, IsList, DragInv
    <2> QED
      BY <2>1, <2>2, <2>3, <2>4 DEF Answer
  <1>3. busy' \in BOOLEAN
    BY DEF Answer, ListAnswered, ModalAnswered, ReorderAnswered, tabVars, ListInv, CountInv
  <1>4. CountInv'
    BY <1>1, <1>3 DEF ListInv, CountInv, Causes
  <1> QED
    BY <1>2, <1>4 DEF ListInv

LEMMA ElsewhereKept == ListInv /\ Elsewhere => ListInv'
  <1> SUFFICES ASSUME ListInv, Elsewhere PROVE ListInv'
    OBVIOUS
  <1>1. /\ others < MaxOthers /\ others' = others + 1 /\ drift' = drift \cup {"elsewhere"}
        /\ UNCHANGED <<screen, list, drag, busy, calls, ops, mounts>>
    BY DEF Elsewhere, tabVars
  <1>2. TableInv
    BY DEF ListInv
  <1>3. TableInv' /\ used \subseteq used'
    <2>1. ASSUME NEW i \in Entries \ used, InsertEntry(i) PROVE TableInv' /\ used \subseteq used'
      BY <1>2, <2>1, Inserted
    <2>2. ASSUME NEW i \in Stored, DeleteEntry(i) PROVE TableInv' /\ used \subseteq used'
      BY <1>2, <2>2, Deleted
    <2>3. ASSUME NEW i \in Entries, NEW j \in Entries, Import(<<i, j>>)
          PROVE  TableInv' /\ used \subseteq used'
      <3> DEFINE ids == <<i, j>>
      <3>1. ids \in Seq(Entries) /\ Import(ids)
        BY <2>3
      <3> HIDE DEF ids
      <3> QED
        BY <1>2, <3>1, Imported
    <2>4. ASSUME NEW ids \in SetToSeqs(Stored), Reorder(ids)
          PROVE  TableInv' /\ used \subseteq used'
      <3>1. Stored \subseteq Entries /\ IsFiniteSet(Stored)
        BY <1>2, EntriesAssumption, CardSub DEF TableInv
      <3>2. Cardinality(Stored) \in Nat
        BY <3>1, FS_CardinalityType
      <3>3. ids \in [1..Cardinality(Stored) -> Stored]
        BY DEF SetToSeqs
      <3>4. ids \in [1..Cardinality(Stored) -> Entries]
        BY <3>1, <3>3
      <3>5. ids \in Seq(Entries)
        BY <3>2, <3>4, SeqDef
      <3> QED
        BY <1>2, <2>4, <3>5, Permuted
    <2> QED
      BY <2>1, <2>2, <2>3, <2>4 DEF Elsewhere
  <1>4. CallsInv'
    BY <1>1, <1>3, CallsKept DEF ListInv
  <1>5. ShownInv' /\ DragInv'
    BY <1>1, <1>3 DEF ListInv, ShownInv, IsList, DragInv
  <1>6. CountInv'
    BY <1>1, BoundsAssumption DEF ListInv, CountInv, Causes
  <1> QED
    BY <1>3, <1>4, <1>5, <1>6 DEF ListInv

-----------------------------------------------------------------------------
(* Theorems                                                                *)

LEMMA ListInvInit == Init => ListInv
  <1> SUFFICES ASSUME Init PROVE ListInv
    OBVIOUS
  <1> DEFINE Under(i) == {j \in used : j < i}
  <1>1. /\ used \subseteq Entries /\ used \subseteq Nat /\ IsFiniteSet(used)
        /\ rank = [i \in used |-> Cardinality(Under(i))]
    BY EntriesAssumption, CardSub DEF Init
  <1>2. \A i \in used : IsFiniteSet(Under(i)) /\ Cardinality(Under(i)) \in Nat
    BY <1>1, CardSub
  <1>3. Stored = used /\ rank \in [Stored -> Int]
    <2> HIDE DEF Under
    <2> QED
      BY <1>1, <1>2 DEF Stored
  <1>4. ASSUME NEW i \in used, NEW j \in used, rank[i] = rank[j] PROVE i = j
    <2>1. ASSUME NEW k \in used, NEW l \in used, k < l
          PROVE  Cardinality(Under(k)) < Cardinality(Under(l))
      <3>1. k \in Nat /\ l \in Nat /\ \A x \in used : x < k => x < l
        BY <1>1, <2>1
      <3>a. k < l /\ ~(k < k)
        BY <2>1, <3>1
      <3>2. Under(k) \subseteq Under(l) /\ k \in Under(l) /\ k \notin Under(k)
        BY <3>1, <3>a
      <3> HIDE DEF Under
      <3> QED
        BY <1>2, <3>2, CardLess
    <2>2. Cardinality(Under(i)) = Cardinality(Under(j))
      BY <1>1, <1>4
    <2>3. i \in Nat /\ j \in Nat
      BY <1>1
    <2>4. Cardinality(Under(i)) \in Nat /\ Cardinality(Under(j)) \in Nat
      BY <1>2
    <2> HIDE DEF Under
    <2>5. ~(i < j) /\ ~(j < i)
      BY <2>1, <2>2, <2>4
    <2> QED
      BY <2>3, <2>5
  <1>5. TableInv
    BY <1>1, <1>3, <1>4 DEF TableInv, IsInjective, Stored
  <1>6. ShownInv /\ CallsInv
    <2>1. IsFiniteSet({})
      BY FS_EmptySet
    <2> QED
      BY <2>1, EmptyList DEF Init, ShownInv, IsList, CallsInv
  <1>7. DragInv /\ CountInv
    <2>1. drag = None /\ busy = FALSE /\ drift = {} /\ ops = 0 /\ others = 0 /\ mounts = 0
      BY DEF Init
    <2>2. DragInv /\ busy \in BOOLEAN /\ drift \subseteq Causes
      BY <2>1 DEF DragInv
    <2>3. ops \in 0..MaxOps /\ others \in 0..MaxOthers /\ mounts \in 0..MaxMounts
      BY <2>1, BoundsAssumption
    <2> QED
      BY <2>2, <2>3 DEF CountInv
  <1> QED
    BY <1>5, <1>6, <1>7 DEF ListInv

LEMMA ListInvStep == ListInv /\ [Next]_vars => ListInv'
  <1> SUFFICES ASSUME ListInv, [Next]_vars PROVE ListInv'
    OBVIOUS
  <1>1. CASE Mount
    BY <1>1, MountKept
  <1>2. CASE KeyCleared
    BY <1>2, ClearedKept
  <1>3. CASE Unmount
    BY <1>3, UnmountKept
  <1>4. CASE Modal
    BY <1>4, ModalKept DEF Modal
  <1>5. CASE Pointer
    <2>1. \A i \in ToSet(list) : i \in Entries
      BY Elements DEF ListInv, ShownInv, IsList, ToSet
    <2>2. ASSUME NEW i \in ToSet(list), NEW shown \in Filters,
                 StartDrag(i, shown) \/ \E delta \in {-1, 1} : MoveWithKeyboard(i, delta, shown)
          PROVE  ListInv'
      BY <2>1, <2>2, StartKept, MovedKept
    <2>3. ASSUME NEW i \in Entries, Drop(i) PROVE ListInv'
      BY <2>3, DropKept
    <2>4. CASE CancelDrag
      BY <2>4, CancelKept
    <2> QED
      BY <1>5, <2>2, <2>3, <2>4 DEF Pointer
  <1>6. CASE Network
    BY <1>6, ServeKept, AnswerKept DEF Network
  <1>7. CASE Elsewhere
    BY <1>7, ElsewhereKept
  <1>8. CASE UNCHANGED vars
    <2>1. UNCHANGED <<rank, used, screen, list, drag, busy, calls, drift, ops, others, mounts>>
      BY <1>8 DEF vars, tabVars
    <2>2. TableInv' /\ CallsInv'
      BY <2>1, SameTable, CallsKept DEF ListInv
    <2> QED
      BY <2>1, <2>2 DEF ListInv, ShownInv, IsList, DragInv, CountInv
  <1> QED
    BY <1>1, <1>2, <1>3, <1>4, <1>5, <1>6, <1>7, <1>8 DEF Next

-----------------------------------------------------------------------------
(* The list and the server                                                 *)

Misses == {"elsewhere", "lost", "late"}

(* What modals have made on the server and not yet in the tab.             *)
Served(kind) == {c.id : c \in {d \in calls : d.live /\ d.at = "served" /\ d.kind = kind}}

SetInv ==
  drift \cap Misses = {} =>
    /\ \A c \in calls : c.kind = "list" /\ c.at = "served" => ToSet(c.order) = Stored
    /\ screen = "ready" => Stored = (ToSet(list) \cup Served("create")) \ Served("delete")

(* What the only write under way does to the server's order.               *)
Shows(c) ==
  IF c.kind = "reorder"
  THEN Listed(rank) = IF c.at = "sent" THEN c.back ELSE c.order
  ELSE Listed(rank) = IF c.at = "sent" THEN list ELSE Shown(c, TRUE)

LiveWrite(c) == c.live /\ c.kind \in Writes

OrderInv ==
  drift = {} =>
    /\ \A c \in calls : c.kind = "list" /\ c.at = "served" => c.order = Listed(rank)
    /\ screen = "ready" =>
         /\ \A c, d \in calls : LiveWrite(c) /\ d.kind \in Writes => c = d
         /\ \A c \in calls : LiveWrite(c) => Shows(c)
         /\ (\A c \in calls : ~LiveWrite(c)) => list = Listed(rank)

StepInv == ListInv /\ SetInv /\ OrderInv

LEMMA Expected ==
  ASSUME StepInv
  PROVE  /\ TableInv /\ CallsInv /\ IsList(list) /\ ToSet(list) \subseteq Entries
         /\ \A c \in calls : CallInv(c)
         /\ \A c, d \in calls : Alone(c, d) => c = d
         /\ screen = "ready" => \A c \in calls : c.kind # "list"
  <1>1. IsList(list) => ToSet(list) \subseteq Entries
    BY Elements DEF IsList, ToSet
  <1>2. TableInv /\ CallsInv /\ IsList(list)
    BY DEF StepInv, ListInv, ShownInv
  <1>3. screen = "ready" => \A c \in calls : c.kind # "list"
    BY <1>2 DEF CallsInv, CallInv
  <1> QED
    BY <1>1, <1>2, <1>3 DEF CallsInv

(* Steps that leave the list's screen, or do not touch what is compared.   *)
LEMMA AwayKept ==
  ASSUME StepInv, screen' # "ready", rank' = rank, drift \subseteq drift',
         \A c \in calls' : c.kind = "list" /\ c.at = "served" => c \in calls
  PROVE  SetInv' /\ OrderInv'
  <1>1. Stored' = Stored
    BY DEF Stored
  <1>2. drift' \cap Misses = {} => drift \cap Misses = {}
    OBVIOUS
  <1>3. drift' = {} => drift = {}
    OBVIOUS
  <1>4. SetInv'
    BY <1>1, <1>2 DEF StepInv, SetInv
  <1>5. OrderInv'
    BY <1>3 DEF StepInv, OrderInv
  <1> QED
    BY <1>4, <1>5

LEMMA QuietKept ==
  ASSUME StepInv, UNCHANGED <<rank, screen, list, calls, drift>>
  PROVE  SetInv' /\ OrderInv'
  <1>1. Stored' = Stored /\ \A kind : Served(kind)' = Served(kind)
    BY DEF Stored, Served
  <1>2. \A c : Shows(c)' = Shows(c)
    BY DEF Shows, Shown
  <1>3. SetInv'
    BY <1>1 DEF StepInv, SetInv
  <1>4. OrderInv'
    BY <1>2 DEF StepInv, OrderInv, LiveWrite
  <1> QED
    BY <1>3, <1>4

(* A write begins.                                                         *)
LEMMA WriteBegun ==
  ASSUME StepInv, screen = "ready", screen' = "ready", rank' = rank,
         ToSet(list)' = ToSet(list), NEW c, calls' = calls \cup {c}, c.live, c.at = "sent",
         c.kind \in Writes, c.kind = "reorder" \/ list' = list,
         drift' = drift \cup Meets(c.back)
  PROVE  SetInv' /\ OrderInv'
  <1>1. Stored' = Stored
    BY DEF Stored
  <1>2. c.kind # "list"
    BY DEF Writes
  <1>3. \A kind : Served(kind)' = Served(kind)
    BY DEF Served
  <1>4. drift' \cap Misses = {} => drift \cap Misses = {}
    OBVIOUS
  <1>5. SetInv'
    <2> SUFFICES ASSUME drift' \cap Misses = {}
                 PROVE  /\ \A d \in calls' : d.kind = "list" /\ d.at = "served" => ToSet(d.order) = Stored'
                        /\ Stored' = (ToSet(list)' \cup Served("create")') \ Served("delete")'
      BY DEF SetInv
    <2>1. /\ \A d \in calls : d.kind = "list" /\ d.at = "served" => ToSet(d.order) = Stored
          /\ Stored = (ToSet(list) \cup Served("create")) \ Served("delete")
      BY <1>4 DEF StepInv, SetInv
    <2> QED
      BY <1>1, <1>2, <1>3, <2>1
  <1>6. ASSUME drift' = {}
        PROVE  /\ \A d \in calls' : d.kind = "list" /\ d.at = "served" => d.order = Listed(rank')
               /\ \A d, e \in calls' : LiveWrite(d) /\ e.kind \in Writes => d = e
               /\ \A d \in calls' : LiveWrite(d) => Shows(d)'
               /\ ~\A d \in calls' : ~LiveWrite(d)
    <2>1. drift = {} /\ (\A d \in calls : d.kind \notin Writes) /\ c.back = list
      BY <1>6 DEF Meets
    <2>2. \A d \in calls : d.kind = "list" /\ d.at = "served" => d.order = Listed(rank)
      BY <2>1 DEF StepInv, OrderInv
    <2>3. list = Listed(rank)
      BY <2>1 DEF StepInv, OrderInv, LiveWrite
    <2>4. Shows(c)'
      BY <2>1, <2>3 DEF Shows
    <2>5. LiveWrite(c)
      BY DEF LiveWrite
    <2>6. \A d \in calls : ~LiveWrite(d)
      BY <2>1 DEF LiveWrite
    <2> QED
      BY <1>2, <2>1, <2>2, <2>4, <2>5, <2>6
  <1>7. OrderInv'
    BY <1>6 DEF OrderInv, LiveWrite
  <1> QED
    BY <1>5, <1>7

LEMMA ModalBegun ==
  ASSUME StepInv, NEW kind \in Writes \ {"reorder"}, NEW i \in Entries, StartModal(kind, i)
  PROVE  SetInv' /\ OrderInv'
  <1> DEFINE e == <<>>
  <1>1. CallsInv /\ IsList(list) /\ IsList(e)
    BY Expected, EmptyList
  <1>2. /\ screen = "ready" /\ Send(kind, i, e, list)
        /\ UNCHANGED <<rank, screen, list>>
    BY DEF StartModal, ModalFree, Rendered, tabVars
  <1> HIDE DEF e
  <1>3. kind \in Writes \cup {"list"} /\ i \in Entries \cup {None}
    OBVIOUS
  <1>4. PICK c \in Call :
          /\ calls' = calls \cup {c} /\ c.kind = kind /\ c.id = i
          /\ c.back = list /\ c.live /\ c.at = "sent"
    BY <1>1, <1>2, <1>3, Sent
  <1>5. drift' = drift \cup Meets(c.back)
    BY <1>2, <1>4 DEF Send
  <1> QED
    BY <1>2, <1>4, <1>5, WriteBegun

LEMMA PersistBegun ==
  ASSUME StepInv, screen = "ready", NEW all, NEW ordered, IsList(all), IsList(ordered),
         PersistOrder(all, ordered), UNCHANGED <<rank, screen>>
  PROVE  SetInv' /\ OrderInv'
  <1>1. CASE UNCHANGED <<list, busy, calls, drift, ops>>
    BY <1>1, QuietKept
  <1>2. CASE /\ list' = ApplyOrder(list, ordered)
             /\ Send("reorder", None, ordered, all)
    <2> DEFINE nobody == None
               kind == "reorder"
    <2>1. CallsInv /\ IsList(list)
      BY Expected
    <2>2. ToSet(list)' = ToSet(list)
      BY <1>2, <2>1, Ordered DEF IsList
    <2>3. kind \in Writes \cup {"list"} /\ nobody \in Entries \cup {None}
      BY DEF Writes
    <2>4. Send(kind, nobody, ordered, all)
      BY <1>2
    <2> HIDE DEF kind, nobody
    <2>5. PICK c \in Call :
               /\ calls' = calls \cup {c} /\ c.kind = kind
               /\ c.back = all /\ c.live /\ c.at = "sent"
      BY <2>1, <2>3, <2>4, Sent
    <2>6. kind = "reorder" /\ kind \in Writes
      BY DEF kind, Writes
    <2>7. drift' = drift \cup Meets(c.back)
      BY <2>4, <2>5, <2>6 DEF Send
    <2> QED
      BY <2>2, <2>5, <2>6, <2>7, WriteBegun
  <1> QED
    BY <1>1, <1>2 DEF PersistOrder

(* The server serves a call.                                               *)
LEMMA ListServed ==
  ASSUME StepInv, NEW c \in calls, Serve(c), ServeList(c)
  PROVE  SetInv' /\ OrderInv'
  <1>1. /\ c.kind = "list" /\ rank' = rank /\ drift' = {} /\ screen' = screen
        /\ calls' = (calls \ {c}) \cup {[c EXCEPT !.at = "served", !.order = Listed(rank)]}
    BY DEF ServeList, Serve, tabVars
  <1>2. screen # "ready" /\ c \in Call /\ c.live
    BY <1>1, Expected DEF CallInv
  <1>3. \A d \in calls \ {c} : d.kind # "list"
    BY <1>1, <1>2, Expected DEF Alone, CallInv
  <1>4. Stored' = Stored /\ ToSet(Listed(rank)) = Stored
    BY <1>1, Expected, Listing DEF Stored
  <1>5. [c EXCEPT !.at = "served", !.order = Listed(rank)].order = Listed(rank)
    BY <1>2 DEF Call
  <1>6. \A d \in calls' : d.kind = "list" => d.order = Listed(rank)
    BY <1>1, <1>3, <1>5
  <1> QED
    BY <1>1, <1>2, <1>4, <1>6 DEF SetInv, OrderInv

LEMMA WriteServed ==
  ASSUME StepInv, NEW c \in calls, Serve(c), ServeWrite(c)
  PROVE  SetInv' /\ OrderInv'
  <1> DEFINE d == [c EXCEPT !.at = "served"]
  <1>1. /\ c.kind \in Writes /\ Accepts(c) /\ c.at = "sent" /\ UNCHANGED <<screen, list>>
        /\ calls' = (calls \ {c}) \cup (IF c.live THEN {d} ELSE {})
        /\ drift' = drift \cup (IF c.live THEN {} ELSE {"late"})
    BY DEF ServeWrite, Serve, tabVars
  <1>2. TableInv /\ CallInv(c) /\ c \in Call /\ IsList(list)
    BY Expected DEF CallInv
  <1>3. CASE ~c.live
    <2>1. "late" \in drift'
      BY <1>1, <1>3
    <2> QED
      BY <2>1 DEF SetInv, OrderInv, Misses
  <1>4. CASE c.live
    <2>1. /\ d.kind = c.kind /\ d.live /\ d.id = c.id /\ d.back = c.back
          /\ d.order = c.order /\ d.at = "served"
      BY <1>2, <1>4 DEF Call
    <2>2. calls' = (calls \ {c}) \cup {d} /\ drift' = drift
      BY <1>1, <1>4
    <2> HIDE DEF d
    <2>3. c.kind # "list" /\ d.kind # "list"
      BY <1>1, <2>1 DEF Writes
    <2>4. \A e \in calls : e.kind # "list"
      BY <1>2, <1>4, <2>3, Expected DEF Alone
    <2>5. \A e \in calls' : e.kind # "list"
      BY <2>2, <2>3, <2>4
    <2>6. \A e \in calls \ {c} :
            e.live /\ {e.kind, c.kind} \subseteq Writes \ {"reorder"} => FALSE
      BY <1>4, Expected DEF Alone
    <2>7. ASSUME c.kind = "create"
          PROVE  /\ Listed(rank)' = <<c.id>> \o Listed(rank) /\ Stored' = Stored \cup {c.id}
      <3>1. InsertEntry(c.id) /\ c.id \in Entries
        BY <1>1, <1>2, <2>7 DEF Accepts, CallInv
      <3> QED
        BY <1>2, <3>1, InsertedFirst
    <2>8. ASSUME c.kind = "delete"
          PROVE  /\ Listed(rank)' = Filter(Listed(rank), Entries \ {c.id})
                 /\ Stored' = Stored \ {c.id}
      <3>1. DeleteEntry(c.id)
        BY <1>1, <2>8 DEF Accepts
      <3> QED
        BY <1>2, <3>1, DeletedOrder
    <2>9. ASSUME c.kind = "update" PROVE rank' = rank /\ Stored' = Stored
      BY <1>1, <2>9 DEF Accepts, Stored
    <2>10. ASSUME c.kind = "reorder" PROVE Listed(rank)' = c.order /\ Stored' = Stored
      <3>1. Reorder(c.order) /\ c.order \in Seq(Entries)
        BY <1>1, <1>2, <2>10 DEF Accepts, Call
      <3> QED
        BY <1>2, <3>1, PermutedOrder
    <2>11. SetInv'
      <3> SUFFICES ASSUME drift \cap Misses = {}, screen = "ready"
                   PROVE  Stored' = (ToSet(list) \cup Served("create")') \ Served("delete")'
        BY <1>1, <2>2, <2>5 DEF SetInv
      <3>1. Stored = (ToSet(list) \cup Served("create")) \ Served("delete")
        BY DEF StepInv, SetInv
      <3>2. CASE c.kind = "create"
        <4>1. Served("create")' = Served("create") \cup {c.id}
          BY <1>1, <2>1, <2>2, <3>2 DEF Served
        <4>2. Served("delete")' = {} /\ Served("delete") = {}
          BY <2>1, <2>2, <2>6, <3>2 DEF Served, Writes
        <4> QED
          BY <2>7, <3>1, <3>2, <4>1, <4>2
      <3>3. CASE c.kind = "delete"
        <4>1. Served("delete")' = Served("delete") \cup {c.id}
          BY <1>1, <2>1, <2>2, <3>3 DEF Served
        <4>2. Served("create")' = Served("create")
          BY <2>1, <2>2, <3>3 DEF Served
        <4> QED
          BY <2>8, <3>1, <3>3, <4>1, <4>2
      <3>4. CASE c.kind \in {"update", "reorder"}
        <4>1. Served("create")' = Served("create") /\ Served("delete")' = Served("delete")
          BY <2>1, <2>2, <3>4 DEF Served
        <4> QED
          BY <2>9, <2>10, <3>1, <3>4, <4>1
      <3> QED
        BY <1>1, <3>2, <3>3, <3>4 DEF Writes
    <2>12. ASSUME drift = {}, screen = "ready"
           PROVE  /\ \A e, g \in calls' : LiveWrite(e) /\ g.kind \in Writes => e = g
                  /\ \A e \in calls' : LiveWrite(e) => Shows(e)'
                  /\ ~\A e \in calls' : ~LiveWrite(e)
      <3>1. LiveWrite(c) /\ LiveWrite(d)
        BY <1>1, <1>4, <2>1 DEF LiveWrite
      <3>2. \A g \in calls \ {c} : g.kind \notin Writes
        BY <2>12, <3>1 DEF StepInv, OrderInv
      <3>3. \A e \in calls' : e.kind \in Writes => e = d
        BY <2>2, <3>2
      <3>4. Shows(c)
        BY <2>12, <3>1 DEF StepInv, OrderInv
      <3>5. CASE c.kind = "reorder"
        <4>1. Shows(d)'
          BY <2>1, <2>10, <3>5 DEF Shows
        <4> QED
          BY <2>2, <3>1, <3>3, <4>1 DEF LiveWrite
      <3>6. CASE c.kind # "reorder"
        <4>1. Listed(rank) = list
          BY <1>1, <3>4, <3>6 DEF Shows
        <4>2. Listed(rank)' = Shown(d, TRUE)'
          BY <1>1, <2>1, <2>7, <2>8, <2>9, <3>6, <4>1 DEF Shown, Writes
        <4>3. Shows(d)'
          BY <2>1, <3>6, <4>2 DEF Shows
        <4> QED
          BY <2>2, <3>1, <3>3, <4>3 DEF LiveWrite
      <3> QED
        BY <3>5, <3>6
    <2>13. OrderInv'
      BY <1>1, <2>2, <2>5, <2>12 DEF OrderInv, LiveWrite
    <2> QED
      BY <2>11, <2>13
  <1> QED
    BY <1>3, <1>4

(* The tab hears of a call, or that it failed.                             *)
LEMMA ListHeard ==
  ASSUME StepInv, NEW c \in calls, NEW ok \in BOOLEAN, c.live, ListAnswered(c, ok),
         ok => c.at = "served", calls' = calls \ {c}, rank' = rank, drift \subseteq drift'
  PROVE  SetInv' /\ OrderInv'
  <1>1. c.kind = "list" /\ (screen' = "ready" => ok /\ list' = c.order)
    BY DEF ListAnswered
  <1>2. CASE ~ok
    <2>1. screen' # "ready"
      BY <1>1, <1>2
    <2> QED
      BY <2>1, AwayKept
  <1>3. CASE ok
    <2>1. c.at = "served" /\ list' = c.order /\ Stored' = Stored
      BY <1>3 DEF ListAnswered, Stored
    <2>2. \A d \in calls' : ~d.live /\ d.kind # "list"
      BY <1>1, Expected DEF Alone, CallInv
    <2>3. Served("create")' = {} /\ Served("delete")' = {}
      BY <2>2 DEF Served
    <2>4. SetInv'
      <3> SUFFICES ASSUME drift' \cap Misses = {} PROVE Stored' = ToSet(list)'
        BY <2>2, <2>3 DEF SetInv
      <3>1. drift \cap Misses = {}
        OBVIOUS
      <3> QED
        BY <1>1, <2>1, <3>1 DEF StepInv, SetInv
    <2>5. OrderInv'
      <3> SUFFICES ASSUME drift' = {} PROVE list' = Listed(rank)'
        BY <2>2 DEF OrderInv, LiveWrite
      <3>1. drift = {}
        OBVIOUS
      <3> QED
        BY <1>1, <2>1, <3>1 DEF StepInv, OrderInv
    <2> QED
      BY <2>4, <2>5
  <1> QED
    BY <1>2, <1>3

LEMMA ModalHeard ==
  ASSUME StepInv, NEW c \in calls, NEW ok \in BOOLEAN, c.live, ModalAnswered(c, ok),
         ok => c.at = "served", calls' = calls \ {c}, rank' = rank,
         drift' = drift \cup
           (IF ~ok /\ c.at = "served" /\ c.kind \in Writes THEN {"lost"} ELSE {})
  PROVE  SetInv' /\ OrderInv'
  <1>1. /\ c.kind \in {"create", "update", "delete"} /\ list' = Shown(c, ok)
        /\ screen' = screen /\ Stored' = Stored
    BY DEF ModalAnswered, Writes, Stored
  <1>2. CallInv(c) /\ IsList(list) /\ ToSet(list) \subseteq Entries
    BY Expected
  <1>3. \A d \in calls : d.kind # "list"
    BY <1>1, Expected DEF Alone
  <1>4. \A d \in calls' : ~(d.live /\ d.kind \in {"create", "update", "delete"})
    BY <1>1, Expected DEF Alone, Writes
  <1>5. Served("create")' = {} /\ Served("delete")' = {}
    BY <1>4 DEF Served
  <1>6. CASE ~ok /\ c.at = "served"
    <2>1. "lost" \in drift'
      BY <1>1, <1>6 DEF Writes
    <2> QED
      BY <2>1 DEF SetInv, OrderInv, Misses
  <1>7. CASE ok \/ c.at # "served"
    <2>1. drift' = drift
      BY <1>7
    <2>2. SetInv'
      <3> SUFFICES ASSUME drift \cap Misses = {}, screen = "ready" PROVE Stored = ToSet(list)'
        BY <1>1, <1>3, <1>5, <2>1 DEF SetInv
      <3>1. Stored = (ToSet(list) \cup Served("create")) \ Served("delete")
        BY DEF StepInv, SetInv
      <3>2. CASE ~ok
        <4>1. list' = list
          BY <1>1, <3>2 DEF Shown
        <4>2. \A d \in calls : d.live /\ d.at = "served" => d.kind \notin {"create", "delete"}
          BY <1>4, <1>7, <3>2
        <4>3. Served("create") = {} /\ Served("delete") = {}
          BY <4>2 DEF Served
        <4> QED
          BY <3>1, <4>1, <4>3
      <3>3. CASE ok /\ c.kind = "create"
        <4>1. list' = <<c.id>> \o list /\ c.at = "served"
          BY <1>1, <3>3 DEF Shown
        <4>2. Served("create") = {c.id} /\ Served("delete") = {}
          BY <1>4, <3>3, <4>1 DEF Served
        <4>3. ToSet(<<c.id>> \o list) = {c.id} \cup ToSet(list)
          <5>1. c.id \in Entries /\ c.id \notin ToSet(list)
            BY <1>2, <3>3 DEF CallInv
          <5> QED
            BY <1>2, <5>1, Prepended DEF IsList
        <4> QED
          BY <3>1, <4>1, <4>2, <4>3
      <3>4. CASE ok /\ c.kind = "delete"
        <4>1. list' = Filter(list, Entries \ {c.id}) /\ c.at = "served"
          BY <1>1, <3>4 DEF Shown
        <4>2. Served("create") = {} /\ Served("delete") = {c.id}
          BY <1>4, <3>4, <4>1 DEF Served
        <4>3. ToSet(Filter(list, Entries \ {c.id})) = ToSet(list) \cap (Entries \ {c.id})
          BY <1>2, FilterSets DEF IsList
        <4> QED
          BY <1>2, <3>1, <4>1, <4>2, <4>3
      <3>5. CASE ok /\ c.kind = "update"
        <4>1. list' = list
          BY <1>1, <3>5 DEF Shown
        <4>2. Served("create") = {} /\ Served("delete") = {}
          BY <1>4, <3>5 DEF Served
        <4> QED
          BY <3>1, <4>1, <4>2
      <3> QED
        BY <1>1, <3>2, <3>3, <3>4, <3>5
    <2>3. ASSUME drift = {}, screen = "ready"
          PROVE  (\A d \in calls' : ~LiveWrite(d)) /\ list' = Listed(rank)
      <3>1. LiveWrite(c)
        BY <1>1 DEF LiveWrite, Writes
      <3>2. \A d \in calls' : ~LiveWrite(d)
        BY <2>3, <3>1 DEF StepInv, OrderInv, LiveWrite
      <3>3. Shows(c)
        BY <2>3, <3>1 DEF StepInv, OrderInv
      <3>4. Listed(rank) = IF c.at = "sent" THEN list ELSE Shown(c, TRUE)
        BY <1>1, <3>3 DEF Shows
      <3>5. c.at \in {"sent", "served"}
        BY <1>2 DEF CallInv, Call
      <3>6. CASE ok
        BY <1>1, <3>2, <3>4, <3>6
      <3>7. CASE ~ok
        BY <1>1, <1>7, <3>2, <3>4, <3>5, <3>7 DEF Shown
      <3> QED
        BY <3>6, <3>7
    <2>4. OrderInv'
      BY <1>1, <1>3, <2>1, <2>3 DEF OrderInv, LiveWrite
    <2> QED
      BY <2>2, <2>4
  <1> QED
    BY <1>6, <1>7

LEMMA OrderHeard ==
  ASSUME StepInv, NEW c \in calls, NEW ok \in BOOLEAN, c.live, ReorderAnswered(c, ok),
         ok => c.at = "served", calls' = calls \ {c}, rank' = rank,
         drift' = drift \cup
           (IF ~ok /\ c.at = "served" /\ c.kind \in Writes THEN {"lost"} ELSE {})
  PROVE  SetInv' /\ OrderInv'
  <1>1. /\ c.kind = "reorder" /\ list' = ApplyOrder(list, Settled(c, ok))
        /\ screen' = screen /\ Stored' = Stored
    BY DEF ReorderAnswered, Stored
  <1>2. CallInv(c) /\ IsList(list) /\ TableInv
    BY Expected
  <1>3. IsList(Settled(c, ok)) /\ c.at \in {"sent", "served"}
    BY <1>2 DEF CallInv, Call, IsList, Settled
  <1>4. ToSet(list)' = ToSet(list)
    BY <1>1, <1>2, <1>3, Ordered DEF IsList
  <1>5. \A d \in calls : d.kind # "list"
    BY <1>1, Expected DEF Alone
  <1>6. \A kind \in {"create", "delete"} : Served(kind)' = Served(kind)
    BY <1>1 DEF Served
  <1>7. CASE ~ok /\ c.at = "served"
    <2>1. "lost" \in drift'
      BY <1>1, <1>7 DEF Writes
    <2> QED
      BY <2>1 DEF SetInv, OrderInv, Misses
  <1>8. CASE ok \/ c.at # "served"
    <2>1. drift' = drift
      BY <1>8
    <2>2. SetInv'
      BY <1>1, <1>4, <1>5, <1>6, <2>1 DEF StepInv, SetInv
    <2>3. ASSUME drift = {}, screen = "ready"
          PROVE  (\A d \in calls' : ~LiveWrite(d)) /\ list' = Listed(rank)
      <3>1. LiveWrite(c)
        BY <1>1 DEF LiveWrite, Writes
      <3>2. \A d \in calls : d.kind \in Writes => d = c
        BY <2>3, <3>1 DEF StepInv, OrderInv
      <3>3. \A d \in calls' : ~LiveWrite(d)
        BY <3>2 DEF LiveWrite
      <3>4. Shows(c)
        BY <2>3, <3>1 DEF StepInv, OrderInv
      <3>5. Listed(rank) = Settled(c, ok)
        BY <1>1, <1>3, <1>8, <3>4 DEF Shows, Settled
      <3>6. ToSet(list) = Stored
        <4>1. Served("create") = {} /\ Served("delete") = {}
          BY <1>1, <3>2 DEF Served, Writes
        <4> QED
          BY <2>3, <4>1 DEF StepInv, SetInv
      <3>7. ToSet(Settled(c, ok)) = ToSet(list)
        BY <1>2, <3>5, <3>6, Listing
      <3>8. list' = Settled(c, ok)
        BY <1>1, <1>2, <1>3, <3>7, OrderTaken DEF IsList
      <3> QED
        BY <3>3, <3>5, <3>8
    <2>4. OrderInv'
      BY <1>1, <1>5, <2>1, <2>3 DEF OrderInv, LiveWrite
    <2> QED
      BY <2>2, <2>4
  <1> QED
    BY <1>7, <1>8

LEMMA LateHeard ==
  ASSUME StepInv, NEW c \in calls, ~c.live, calls' = calls \ {c},
         UNCHANGED <<rank, screen, list>>, drift \subseteq drift'
  PROVE  SetInv' /\ OrderInv'
  <1>1. Stored' = Stored /\ \A kind : Served(kind)' = Served(kind)
    BY DEF Stored, Served
  <1>2. \A d : Shows(d)' = Shows(d)
    BY DEF Shows, Shown
  <1>3. drift' \cap Misses = {} => drift \cap Misses = {}
    OBVIOUS
  <1>4. SetInv'
    BY <1>1, <1>3 DEF StepInv, SetInv
  <1>5. drift' = {} => drift = {}
    OBVIOUS
  <1>6. \A d \in calls : LiveWrite(d) => d \in calls'
    BY DEF LiveWrite
  <1>7. OrderInv'
    BY <1>2, <1>5, <1>6 DEF StepInv, OrderInv, LiveWrite
  <1> QED
    BY <1>4, <1>7

LEMMA StepInvInit == Init => StepInv
  BY ListInvInit DEF Init, StepInv, SetInv, OrderInv

LEMMA StepInvStep == StepInv /\ [Next]_vars => StepInv'
  <1> SUFFICES ASSUME StepInv, [Next]_vars PROVE SetInv' /\ OrderInv'
    BY ListInvStep DEF StepInv
  <1>1. CASE Mount
    <2>1. screen' = "loading" /\ rank' = rank
      BY <1>1 DEF Mount
    <2>2. /\ drift \subseteq drift'
          /\ \A c \in calls' : c.at = "served" => c \in calls
      BY <1>1 DEF Mount, Send
    <2> QED
      BY <2>1, <2>2, AwayKept
  <1>2. CASE KeyCleared
    BY <1>2, AwayKept DEF KeyCleared
  <1>3. CASE Unmount
    <2>1. screen' = "off" /\ rank' = rank /\ drift' = drift
      BY <1>3 DEF Unmount
    <2>2. \A c \in calls' : c.kind # "list"
      <3> SUFFICES ASSUME NEW d \in calls, d.kind \in Writes
                   PROVE  [d EXCEPT !.live = FALSE].kind # "list"
        BY <1>3 DEF Unmount
      <3>1. d \in Call
        BY Expected DEF CallInv
      <3> QED
        BY <3>1 DEF Call, Writes
    <2> QED
      BY <2>1, <2>2, AwayKept
  <1>4. CASE Modal
    BY <1>4, ModalBegun DEF Modal
  <1>5. CASE Pointer
    <2>1. ListInv /\ IsList(list)
      BY Expected DEF StepInv
    <2>2. ASSUME NEW i, NEW shown \in Filters, StartDrag(i, shown) PROVE SetInv' /\ OrderInv'
      BY <2>2, QuietKept DEF StartDrag
    <2>3. ASSUME NEW i, NEW shown \in Filters, NEW delta, MoveWithKeyboard(i, delta, shown)
          PROVE  SetInv' /\ OrderInv'
      <3>1. /\ screen = "ready" /\ UNCHANGED <<rank, screen>>
            /\ \E ordered \in Seq(Entries) : IsList(ordered) /\ PersistOrder(list, ordered)
        BY <2>1, <2>3, MovePersists
      <3> QED
        BY <2>1, <3>1, PersistBegun
    <2>4. ASSUME NEW i, Drop(i) PROVE SetInv' /\ OrderInv'
      <3>1. /\ screen = "ready" /\ UNCHANGED <<rank, screen>>
            /\ \E all, ordered \in Seq(Entries) :
                 IsList(all) /\ IsList(ordered) /\ PersistOrder(all, ordered)
        BY <2>1, <2>4, DropPersists
      <3> QED
        BY <3>1, PersistBegun
    <2>5. CASE CancelDrag
      BY <2>5, QuietKept DEF CancelDrag
    <2> QED
      BY <1>5, <2>2, <2>3, <2>4, <2>5 DEF Pointer
  <1>6. CASE Network
    <2>1. ASSUME NEW c \in calls, Serve(c) PROVE SetInv' /\ OrderInv'
      BY <2>1, ListServed, WriteServed DEF Serve
    <2>2. ASSUME NEW c \in calls, NEW ok \in BOOLEAN, Answer(c, ok)
          PROVE  SetInv' /\ OrderInv'
      <3>1. /\ calls' = calls \ {c} /\ rank' = rank /\ (ok => c.at = "served")
            /\ drift' = drift \cup
                 (IF ~ok /\ c.at = "served" /\ c.kind \in Writes THEN {"lost"} ELSE {})
            /\ drift \subseteq drift'
        BY <2>2 DEF Answer
      <3>2. CASE c.live /\ ListAnswered(c, ok)
        BY <3>1, <3>2, ListHeard
      <3>3. CASE c.live /\ ModalAnswered(c, ok)
        BY <3>1, <3>3, ModalHeard
      <3>4. CASE c.live /\ ReorderAnswered(c, ok)
        BY <3>1, <3>4, OrderHeard
      <3>5. CASE ~c.live /\ UNCHANGED tabVars
        <4>1. UNCHANGED <<screen, list>>
          BY <3>5 DEF tabVars
        <4> QED
          BY <3>1, <3>5, <4>1, LateHeard
      <3> QED
        BY <2>2, <3>2, <3>3, <3>4, <3>5 DEF Answer
    <2> QED
      BY <1>6, <2>1, <2>2 DEF Network
  <1>7. CASE Elsewhere
    <2>1. "elsewhere" \in drift'
      BY <1>7 DEF Elsewhere
    <2> QED
      BY <2>1 DEF SetInv, OrderInv, Misses
  <1>8. CASE UNCHANGED vars
    BY <1>8, QuietKept DEF vars, tabVars
  <1> QED
    BY <1>1, <1>2, <1>3, <1>4, <1>5, <1>6, <1>7, <1>8 DEF Next

(* The invariant holds in every state, for any number of entries, writes   *)
(* and visits (key-entry-repo.ts, useKeyEntries.ts).                       *)
THEOREM ListKept == Spec => []ListInv
  BY ListInvInit, ListInvStep, PTL DEF Spec

(* The types hold: no two entries share a sort_order, and the dashboard    *)
(* shows no entry twice, whichever answers meet (reload, persistOrder).    *)
THEOREM ListTypesKept == Spec => []TypeOK
  <1>1. ListInv => TypeOK
    BY DEF ListInv, TableInv, ShownInv, IsList, CallsInv, CallInv, DragInv, CountInv, TypeOK
  <1> QED
    BY <1>1, ListKept, PTL

(* A drop does what the list showed while the pointer hovered, and moves   *)
(* nothing that the filter hides (applyVisibleReorder, sortableShift).     *)
THEOREM DropsArePreviewed == Spec => []DropAsPreviewed
  <1>1. ListInv => DropAsPreviewed
    <2> SUFFICES ASSUME ListInv, drag # None, NEW target \in ToSet(drag.visible)
                 PROVE  /\ Len(DropOn(target)) = Len(drag.all)
                        /\ ToSet(DropOn(target)) = ToSet(drag.all)
                        /\ \A k \in DOMAIN drag.all : drag.all[k] \notin ToSet(drag.visible) =>
                             DropOn(target)[k] = drag.all[k]
                        /\ LET after == Filter(DropOn(target), ToSet(drag.visible))
                               from == Place(drag.visible, drag.id)
                               to == Place(drag.visible, target)
                           IN \A k \in DOMAIN drag.visible :
                                after[IF k = from THEN to ELSE k + SortableShift(from, to, k)]
                                  = drag.visible[k]
      BY DEF DropAsPreviewed, HiddenStay, PreviewMatchesDrop
    <2>1. /\ drag.all \in Seq(Entries) /\ IsInjective(drag.all)
          /\ drag.visible \in Seq(Entries) /\ drag.id \in ToSet(drag.visible)
          /\ \E shown \in Filters : drag.visible = Filter(drag.all, shown)
      BY DEF ListInv, DragInv
    <2>2. PICK shown \in Filters : drag.visible = Filter(drag.all, shown)
      BY <2>1
    <2>3. /\ DOMAIN drag.all = 1..Len(drag.all)
          /\ DOMAIN drag.visible = 1..Len(drag.visible)
      BY <2>1, LenProperties
    <2> DEFINE visible == Filter(drag.all, shown)
               r == DropVisibleEntry(drag.all, visible, drag.id, target)
               from == Place(visible, drag.id)
               to == Place(visible, target)
    <2>4. /\ Len(r) = Len(drag.all) /\ ToSet(r) = ToSet(drag.all)
          /\ \A k \in 1..Len(drag.all) : drag.all[k] \notin ToSet(visible) => r[k] = drag.all[k]
          /\ \A k \in 1..Len(visible) :
               Filter(r, ToSet(visible))[IF k = from THEN to ELSE k + SortableShift(from, to, k)]
                 = visible[k]
      BY <2>1, <2>2, Dropped
    <2>5. DropOn(target) = r /\ drag.visible = visible
      BY <2>2 DEF DropOn
    <2> HIDE DEF r, visible
    <2> QED
      BY <2>3, <2>4, <2>5
  <1> QED
    BY <1>1, ListKept, PTL

(* With all answers in, the dashboard shows what the server has, in its    *)
(* order, whatever was refused and rolled back on the way, unless the      *)
(* entries were written elsewhere, or behind the list's back               *)
(* (useKeyEntries.ts, reorderKeyEntries).                                  *)
THEOREM ListStaysInStep == Spec => []InStep
  <1>1. Spec => []StepInv
    BY StepInvInit, StepInvStep, PTL DEF Spec
  <1>2. StepInv => InStep
    <2> SUFFICES ASSUME StepInv, screen = "ready",
                        ~\E c \in calls : c.live \/ c.kind \in Writes
                 PROVE  /\ drift \cap Misses = {} => ToSet(list) = Stored
                        /\ drift = {} => list = Listed(rank)
      BY DEF InStep, Misses
    <2>1. Served("create") = {} /\ Served("delete") = {}
      BY DEF Served
    <2>2. drift \cap Misses = {} => ToSet(list) = Stored
      BY <2>1 DEF StepInv, SetInv
    <2>3. drift = {} => list = Listed(rank)
      BY DEF StepInv, OrderInv, LiveWrite
    <2> QED
      BY <2>2, <2>3
  <1> QED
    BY <1>1, <1>2, PTL
=============================================================================
