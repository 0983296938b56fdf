----------------------------- MODULE Queues_proofs ----------------------------
(***************************************************************************)
(* What the operators of Queues return.                                    *)
(***************************************************************************)
EXTENDS Queues, SequenceTheorems, FiniteSetTheorems, WellFoundedInduction, TLAPS

\* A sequence is one of what its elements are.
LEMMA SeqOfElements ==
  ASSUME NEW T, NEW s \in Seq(T), NEW S, \A i \in 1..Len(s) : s[i] \in S
  PROVE  s \in Seq(S)
OBVIOUS

\* LastN drops the oldest elements only: it has at most n, and the i-th of them
\* is the i-th after those dropped.
LEMMA LastNProperties ==
  ASSUME NEW S, NEW s \in Seq(S), NEW n \in Nat
  PROVE  /\ LastN(s, n) \in Seq(S)
         /\ Len(LastN(s, n)) = IF Len(s) > n THEN n ELSE Len(s)
         /\ \A i \in 1..Len(LastN(s, n)) :
              LastN(s, n)[i] = s[Len(s) - Len(LastN(s, n)) + i]
<1>1. CASE Len(s) > n
  <2>. DEFINE m == Len(s) - n + 1
  <2>1. \A i \in m..Len(s) : s[i] \in S
    BY <1>1
  <2>2. m \in Int /\ Len(s) \in Int
    OBVIOUS
  <2>3. /\ SubSeq(s, m, Len(s)) \in Seq(S)
        /\ Len(SubSeq(s, m, Len(s))) = IF m <= Len(s) THEN Len(s) - m + 1 ELSE 0
        /\ \A i \in 1..(Len(s) - m + 1) : SubSeq(s, m, Len(s))[i] = s[m + i - 1]
    BY <2>1, <2>2, SubSeqProperties
  <2>4. LastN(s, n) = SubSeq(s, m, Len(s))
    BY <1>1 DEF LastN
  <2>. QED  BY <1>1, <2>3, <2>4
<1>2. CASE ~(Len(s) > n)
  BY <1>2 DEF LastN
<1>. QED  BY <1>1, <1>2

\* Without drops one element and keeps the order of the others.
LEMMA WithoutProperties ==
  ASSUME NEW S, NEW s \in Seq(S), NEW i \in 1..Len(s)
  PROVE  /\ Without(s, i) \in Seq(S)
         /\ Len(Without(s, i)) = Len(s) - 1
         /\ \A j \in 1..(Len(s) - 1) :
              Without(s, i)[j] = IF j < i THEN s[j] ELSE s[j + 1]
<1>. DEFINE a == SubSeq(s, 1, i - 1)
            b == SubSeq(s, i + 1, Len(s))
<1>1. /\ a \in Seq(S) /\ Len(a) = i - 1
      /\ \A j \in 1..(i - 1) : a[j] = s[j]
  <2>1. \A j \in 1..(i - 1) : s[j] \in S
    OBVIOUS
  <2>. QED  BY <2>1, SubSeqProperties
<1>2. /\ b \in Seq(S) /\ Len(b) = Len(s) - i
      /\ \A j \in 1..(Len(s) - i) : b[j] = s[i + j]
  <2>1. \A j \in (i + 1)..Len(s) : s[j] \in S
    OBVIOUS
  <2>2. i + 1 \in Int /\ Len(s) \in Int
    OBVIOUS
  <2>3. /\ b \in Seq(S)
        /\ Len(b) = IF i + 1 <= Len(s) THEN Len(s) - (i + 1) + 1 ELSE 0
        /\ \A j \in 1..(Len(s) - (i + 1) + 1) : b[j] = s[(i + 1) + j - 1]
    BY <2>1, <2>2, SubSeqProperties
  <2>. QED  BY <2>3
<1>3. /\ a \o b \in Seq(S) /\ Len(a \o b) = Len(a) + Len(b)
      /\ \A j \in 1..(Len(a) + Len(b)) :
           (a \o b)[j] = IF j <= Len(a) THEN a[j] ELSE b[j - Len(a)]
  BY <1>1, <1>2, ConcatProperties
<1>4. Without(s, i) = a \o b
  BY DEF Without
<1>. HIDE DEF a, b
<1>5. ASSUME NEW j \in 1..(Len(s) - 1)
      PROVE  (a \o b)[j] = IF j < i THEN s[j] ELSE s[j + 1]
  <2>1. CASE j < i
    BY <1>1, <1>2, <1>3, <2>1
  <2>2. CASE ~(j < i)
    <3>1. j - Len(a) \in 1..(Len(s) - i) /\ i + (j - Len(a)) = j + 1
      BY <1>1, <2>2
    <3>2. (a \o b)[j] = b[j - Len(a)]
      BY <1>1, <1>2, <1>3, <2>2
    <3>. QED  BY <1>2, <2>2, <3>1, <3>2
  <2>. QED  BY <2>1, <2>2
<1>6. Len(a \o b) = Len(s) - 1
  BY <1>1, <1>2, <1>3
<1>. QED  BY <1>3, <1>4, <1>5, <1>6

\* A nonempty set of naturals has a least element.
LEMMA LeastNatural ==
  ASSUME NEW T \in SUBSET Nat, T # {}
  PROVE  \E m \in T : \A n \in T : m <= n
<1>1. PICK m \in T : \A n \in T : ~(<<n, m>> \in OpToRel(<, Nat))
  BY NatLessThanWellFounded, WFMin
<1>2. OpToRel(<, Nat) = {p \in Nat \X Nat : p[1] < p[2]}
  BY Zenon DEF OpToRel
<1>3. ASSUME NEW n \in T
      PROVE  m <= n
  <2>1. <<n, m>> \in Nat \X Nat
    OBVIOUS
  <2>2. ~(<<n, m>>[1] < <<n, m>>[2])
    BY <1>1, <1>2, <2>1, Zenon
  <2>. QED  BY <2>2
<1>. QED  BY <1>3

\* A bounded nonempty set of naturals has a greatest element.
LEMMA GreatestNatural ==
  ASSUME NEW T \in SUBSET Nat, T # {}, NEW b \in Nat, \A t \in T : t <= b
  PROVE  \E m \in T : \A t \in T : t <= m
<1>. DEFINE D == {b - t : t \in T}
<1>1. D \in SUBSET Nat /\ D # {}
  <2>1. \A t \in T : b - t \in Nat
    OBVIOUS
  <2>2. PICK t \in T : TRUE
    OBVIOUS
  <2>3. b - t \in D
    BY <2>2
  <2>. QED  BY <2>1, <2>3
<1>2. PICK d \in D : \A e \in D : d <= e
  <2>. HIDE DEF D
  <2>. QED  BY <1>1, LeastNatural
<1>3. PICK m \in T : d = b - m
  BY <1>2
<1>4. ASSUME NEW t \in T PROVE t <= m
  <2>1. b - t \in D
    OBVIOUS
  <2>2. d <= b - t
    BY <1>2, <2>1
  <2>. QED  BY <2>2, <1>3
<1>. QED  BY <1>4

\* In a finite set of positions there is one of each place.
LEMMA PlaceExists ==
  ASSUME NEW L \in Nat, NEW K \in SUBSET (1..L), NEW n \in 1..Cardinality(K)
  PROVE  \E i \in K : Cardinality({j \in K : j <= i}) = n
<1>. DEFINE Low(i) == {j \in K : j <= i}
            T == {i \in Nat : Cardinality(Low(i)) >= n}
<1>1. IsFiniteSet(K) /\ Cardinality(K) \in Nat
  <2>1. IsFiniteSet(1..L)
    BY FS_Interval
  <2>. QED  BY <2>1, FS_Subset, FS_CardinalityType
<1>2. \A i : IsFiniteSet(Low(i)) /\ Cardinality(Low(i)) \in Nat
  BY <1>1, FS_Subset, FS_CardinalityType
<1>. \A j \in K : j \in 1..L
  OBVIOUS
<1>3. Low(L) = K
  <2>1. \A j \in K : j <= L
    OBVIOUS
  <2>. QED  BY <2>1, Zenon
<1>4. L \in T
  BY <1>1, <1>3
<1>5. PICK m \in T : \A i \in T : m <= i
  <2>1. T \in SUBSET Nat /\ T # {}
    BY <1>4
  <2>. HIDE DEF T
  <2>. QED  BY <2>1, LeastNatural
<1>6. m # 0
  <2>1. Low(0) = {}
    <3>1. \A j \in K : ~(j <= 0)
      OBVIOUS
    <3>. QED  BY <3>1, Zenon
  <2>2. Cardinality(Low(0)) = 0
    BY <2>1, FS_EmptySet
  <2>. QED  BY <2>2, <1>1
<1>7. m - 1 \in Nat /\ Cardinality(Low(m - 1)) < n
  <2>1. m \in Nat /\ m - 1 \in Nat /\ ~(m <= m - 1)
    BY <1>5, <1>6
  <2>2. m - 1 \notin T
    BY <1>5, <2>1, Zenon
  <2>3. ~(Cardinality(Low(m - 1)) >= n)
    BY <2>1, <2>2, Zenon
  <2>4. Cardinality(Low(m - 1)) \in Nat
    BY <1>2, Zenon
  <2>. HIDE DEF Low
  <2>. QED  BY <2>1, <2>3, <2>4, <1>1
<1>8. m \in Nat /\ Cardinality(Low(m)) >= n
  BY <1>5
<1>9. \A j \in K : j <= m <=> j <= m - 1 \/ j = m
  BY <1>8
<1>10. m \in K
  <2>1. SUFFICES ASSUME m \notin K PROVE FALSE
    OBVIOUS
  <2>2. Low(m) = Low(m - 1)
    BY <2>1, <1>9, Zenon
  <2>3. Cardinality(Low(m - 1)) \in Nat
    BY <1>2, Zenon
  <2>. HIDE DEF Low
  <2>. QED  BY <2>2, <2>3, <1>1, <1>7, <1>8
<1>11. Cardinality(Low(m)) = Cardinality(Low(m - 1)) + 1
  <2>1. Low(m) = Low(m - 1) \cup {m}
    BY <1>9, <1>10, Zenon
  <2>2. ~(m <= m - 1)
    BY <1>8
  <2>3. m \notin Low(m - 1)
    BY <2>2, Zenon
  <2>4. IsFiniteSet(Low(m - 1))
    BY <1>2, Zenon
  <2>. HIDE DEF Low
  <2>. QED  BY <2>1, <2>3, <2>4, FS_AddElement
<1>12. Cardinality(Low(m)) = n
  <2>1. Cardinality(Low(m)) \in Nat /\ Cardinality(Low(m - 1)) \in Nat
    BY <1>2, Zenon
  <2>. HIDE DEF Low
  <2>. QED  BY <2>1, <1>1, <1>7, <1>8, <1>11
<1>13. Cardinality({j \in K : j <= m}) = n
  BY <1>12, Zenon
<1>. HIDE DEF Low, T
<1>. QED  BY <1>10, <1>13

\* Kept makes up nothing and grows nothing.
LEMMA KeptProperties ==
  ASSUME NEW S, NEW s \in Seq(S), NEW K \in SUBSET (1..Len(s))
  PROVE  /\ Kept(s, K) \in Seq(S)
         /\ Len(Kept(s, K)) <= Len(s)
         /\ \A n \in 1..Len(Kept(s, K)) : \E i \in K : Kept(s, K)[n] = s[i]
<1>. DEFINE At(n) == CHOOSE i \in K : Cardinality({j \in K : j <= i}) = n
<1>1. Cardinality(K) \in Nat /\ Cardinality(K) <= Len(s)
  <2>1. Len(s) \in Nat /\ 1 \in Int /\ Len(s) \in Int
    OBVIOUS
  <2>2. /\ IsFiniteSet(1..Len(s))
        /\ Cardinality(1..Len(s)) = IF 1 <= Len(s) THEN Len(s) - 1 + 1 ELSE 0
    BY <2>1, FS_Interval
  <2>3. Cardinality(1..Len(s)) = Len(s)
    BY <2>1, <2>2
  <2>4. /\ IsFiniteSet(K)
        /\ Cardinality(K) <= Cardinality(1..Len(s))
    BY <2>2, FS_Subset, Zenon
  <2>. QED  BY <2>3, <2>4, FS_CardinalityType
<1>2. \A n \in 1..Cardinality(K) : At(n) \in K
  <2>1. TAKE n \in 1..Cardinality(K)
  <2>2. Len(s) \in Nat
    OBVIOUS
  <2>3. \E i \in K : Cardinality({j \in K : j <= i}) = n
    BY <2>1, <2>2, PlaceExists, Zenon
  <2>. QED  BY <2>3, Zenon
<1>3. Kept(s, K) = [n \in 1..Cardinality(K) |-> s[At(n)]]
  BY DEF Kept
<1>. HIDE DEF At
<1>4. \A n \in 1..Cardinality(K) : s[At(n)] \in S
  <2>1. \A i \in K : s[i] \in S
    OBVIOUS
  <2>. QED  BY <2>1, <1>2, Zenon
<1>5. Kept(s, K) \in [1..Cardinality(K) -> S]
  BY <1>3, <1>4
<1>6. Kept(s, K) \in Seq(S) /\ Len(Kept(s, K)) = Cardinality(K)
  BY <1>1, <1>5
<1>. QED  BY <1>1, <1>2, <1>3, <1>6

\* Sets of positions in a sequence.
Positions(K) == \E L \in Nat : K \in SUBSET (1..L)

LEMMA PositionsOf ==
  ASSUME NEW S, NEW s \in Seq(S), NEW K \in SUBSET (1..Len(s))
  PROVE  Positions(K)
<1>1. Len(s) \in Nat
  OBVIOUS
<1>. QED  BY <1>1, Zenon DEF Positions

LEMMA PositionsCount ==
  ASSUME NEW K, Positions(K)
  PROVE  \A j \in K : j \in Nat
BY DEF Positions

\* How many of the positions in K come no later than i.
Upto(K, i) == {j \in K : j <= i}
Place(K, i) == Cardinality(Upto(K, i))

\* The positions, those up to one of them and their places are finite.
LEMMA PlaceTypes ==
  ASSUME NEW K, Positions(K), NEW i
  PROVE  /\ IsFiniteSet(K) /\ Cardinality(K) \in Nat
         /\ IsFiniteSet(Upto(K, i)) /\ Place(K, i) \in Nat
         /\ Place(K, i) <= Cardinality(K)
<1>1. PICK L \in Nat : K \in SUBSET (1..L)
  BY DEF Positions
<1>0. IsFiniteSet(1..L)
  BY FS_Interval
<1>2. IsFiniteSet(K) /\ Cardinality(K) \in Nat
  BY <1>0, <1>1, FS_Subset, FS_CardinalityType
<1>3. Upto(K, i) \in SUBSET K
  BY DEF Upto
<1>4. IsFiniteSet(Upto(K, i)) /\ Cardinality(Upto(K, i)) <= Cardinality(K)
  BY <1>2, <1>3, FS_Subset
<1>. QED  BY <1>2, <1>4, FS_CardinalityType DEF Place

\* The later of two positions has the greater place.
LEMMA PlaceGrows ==
  ASSUME NEW K, Positions(K), NEW i \in K, NEW h \in K, h < i
  PROVE  Place(K, h) < Place(K, i)
<1>1. h \in Nat /\ i \in Nat /\ \A j \in K : j \in Nat
  BY PositionsCount
<1>2. i \notin Upto(K, h) /\ \A j \in Upto(K, h) \cup {i} : j \in Upto(K, i)
  BY <1>1 DEF Upto
<1>3. /\ IsFiniteSet(Upto(K, h)) /\ IsFiniteSet(Upto(K, i))
      /\ Place(K, h) \in Nat /\ Place(K, i) \in Nat
  BY PlaceTypes
<1>4. Cardinality(Upto(K, h) \cup {i}) = Place(K, h) + 1
  BY <1>2, <1>3, FS_AddElement DEF Place
<1>5. Upto(K, h) \cup {i} \in SUBSET Upto(K, i)
  BY <1>2, Zenon
<1>6. Cardinality(Upto(K, h) \cup {i}) <= Place(K, i)
  BY <1>3, <1>5, FS_Subset, Zenon DEF Place
<1>. QED  BY <1>3, <1>4, <1>6

\* A position is found by its place.
LEMMA KeptAt ==
  ASSUME NEW K, Positions(K), NEW s, NEW i \in K
  PROVE  Place(K, i) \in 1..Cardinality(K) /\ Kept(s, K)[Place(K, i)] = s[i]
<1>1. \A j \in K : j \in Nat
  BY PositionsCount
<1>2. /\ Place(K, i) \in Nat /\ Place(K, i) <= Cardinality(K) /\ Cardinality(K) \in Nat
      /\ IsFiniteSet(Upto(K, i))
  BY PlaceTypes
<1>3. Place(K, i) # 0
  <2>1. i \in Upto(K, i)
    BY <1>1 DEF Upto
  <2>. QED  BY <1>2, <2>1, FS_EmptySet DEF Place
<1>4. ASSUME NEW h \in K, Place(K, h) = Place(K, i)
      PROVE  h = i
  <2>1. ASSUME h < i
        PROVE  FALSE
    <3>1. Place(K, h) < Place(K, i)
      BY <2>1, PlaceGrows
    <3>. QED  BY <1>2, <1>4, <3>1
  <2>2. ASSUME i < h
        PROVE  FALSE
    <3>1. Place(K, i) < Place(K, h)
      BY <2>2, PlaceGrows
    <3>. QED  BY <1>2, <1>4, <3>1
  <2>. QED  BY <1>1, <2>1, <2>2
<1>5. (CHOOSE h \in K : Place(K, h) = Place(K, i)) = i
  BY <1>4
<1>6. Kept(s, K) = [n \in 1..Cardinality(K) |-> s[CHOOSE h \in K : Place(K, h) = n]]
  BY DEF Kept, Place, Upto
<1>7. Place(K, i) \in 1..Cardinality(K)
  BY <1>2, <1>3
<1>. HIDE DEF Place
<1>. QED  BY <1>5, <1>6, <1>7

\* Every element of Kept(s, K) is at one of the positions, in the place it has.
LEMMA KeptFrom ==
  ASSUME NEW K, Positions(K), NEW s, NEW n \in 1..Cardinality(K)
  PROVE  \E i \in K : Place(K, i) = n /\ Kept(s, K)[n] = s[i]
<1>1. \E i \in K : Cardinality({j \in K : j <= i}) = n
  <2>1. PICK L \in Nat : K \in SUBSET (1..L)
    BY DEF Positions
  <2>. QED  BY <2>1, PlaceExists, Zenon
<1>2. PICK i \in K : Place(K, i) = n
  BY <1>1, Zenon DEF Place, Upto
<1>. QED  BY <1>2, KeptAt

LEMMA KeptDomain ==
  ASSUME NEW S, NEW s \in Seq(S), NEW K \in SUBSET (1..Len(s))
  PROVE  /\ DOMAIN Kept(s, K) = 1..Cardinality(K) /\ Len(Kept(s, K)) = Cardinality(K)
         /\ Cardinality(K) \in Nat
<1>1. Positions(K)
  BY PositionsOf
<1>2. Cardinality(K) \in Nat
  BY <1>1, PlaceTypes
<1>3. DOMAIN Kept(s, K) = 1..Cardinality(K)
  BY DEF Kept
<1>4. Kept(s, K) \in Seq(S)
  BY KeptProperties
<1>. QED  BY <1>2, <1>3, <1>4

\* Whoever keeps all changes nothing.
LEMMA KeptAll ==
  ASSUME NEW S, NEW s \in Seq(S)
  PROVE  Kept(s, 1..Len(s)) = s
<1>. DEFINE K == 1..Len(s)
<1>1. Len(s) \in Nat /\ K \in SUBSET (1..Len(s)) /\ \A i \in K : i \in Nat
  OBVIOUS
<1>2. Cardinality(K) = Len(s)
  BY <1>1, FS_Interval
<1>3. ASSUME NEW i \in K
      PROVE  Place(K, i) = i
  <2>1. Upto(K, i) = 1..i
    BY <1>1 DEF Upto
  <2>. QED  BY <1>1, <2>1, FS_Interval DEF Place
<1>. HIDE DEF K
<1>4. ASSUME NEW i \in K
      PROVE  Kept(s, K)[i] = s[i]
  <2>1. Positions(K)
    BY <1>1, PositionsOf
  <2>. QED  BY <1>3, <2>1, KeptAt
<1>5. Kept(s, K) \in Seq(S) /\ Len(Kept(s, K)) = Len(s)
  BY <1>1, <1>2, KeptProperties, KeptDomain
<1>6. Kept(s, K) = s
  BY <1>4, <1>5, SeqEqual DEF K
<1>. QED  BY <1>6 DEF K

\* An element appended is not kept, or it is kept at the end.
LEMMA KeptAppend ==
  ASSUME NEW S, NEW s \in Seq(S), NEW x \in S, NEW K \in SUBSET (1..Len(s))
  PROVE  /\ Kept(Append(s, x), K) = Kept(s, K)
         /\ Kept(Append(s, x), K \cup {Len(s) + 1}) = Append(Kept(s, K), x)
<1>. DEFINE L == Len(s)
            t == Append(s, x)
            M == K \cup {L + 1}
            size == Cardinality(K)
<1>1. /\ L \in Nat /\ t \in Seq(S) /\ Len(t) = L + 1 /\ t[L + 1] = x
      /\ \A i \in 1..L : t[i] = s[i]
      /\ K \in SUBSET (1..L) /\ \A i \in K : i \in 1..L
  OBVIOUS
<1>2. /\ K \in SUBSET (1..(L + 1)) /\ M \in SUBSET (1..(L + 1)) /\ L + 1 \notin K
      /\ Positions(K) /\ Positions(M)
  <2>1. K \in SUBSET (1..(L + 1))
    <3>1. \A i \in 1..L : i \in 1..(L + 1)
      BY <1>1
    <3>. QED  BY <1>1, <3>1, Zenon
  <2>2. L + 1 \in 1..(L + 1) /\ L + 1 \notin 1..L /\ L + 1 \in Nat
    BY <1>1
  <2>3. M \in SUBSET (1..(L + 1))
    BY <2>1, <2>2, Zenon
  <2>. QED  BY <1>1, <2>1, <2>2, <2>3, Zenon DEF Positions
<1>3. IsFiniteSet(K) /\ size \in Nat
  BY <1>2, PlaceTypes
<1>4. Cardinality(M) = size + 1
  BY <1>2, <1>3, FS_AddElement
<1>5. Len(t) \in Nat
  BY <1>1
<1>6. /\ Kept(s, K) \in Seq(S) /\ Len(Kept(s, K)) = size
      /\ Kept(t, K) \in Seq(S) /\ Len(Kept(t, K)) = size
      /\ Kept(t, M) \in Seq(S) /\ Len(Kept(t, M)) = size + 1
  <2>1. K \in SUBSET (1..Len(t)) /\ M \in SUBSET (1..Len(t))
    BY <1>1, <1>2
  <2>. HIDE DEF t, M
  <2>. QED  BY <1>1, <1>4, <2>1, KeptProperties, KeptDomain
<1>. HIDE DEF L, t, M, size
<1>7. ASSUME NEW m \in 1..size
      PROVE  \E i \in K : Place(K, i) = m /\ Kept(s, K)[m] = s[i]
  <2>1. m \in 1..Cardinality(K)
    BY <1>7 DEF size
  <2>2. Positions(K)
    BY <1>2
  <2>3. \A z : \A p \in 1..Cardinality(K) :
          \E i \in K : Place(K, i) = p /\ Kept(z, K)[p] = z[i]
    BY <2>2, KeptFrom
  <2>4. \A p \in 1..Cardinality(K) :
          \E i \in K : Place(K, i) = p /\ Kept(s, K)[p] = s[i]
    BY <2>3, Zenon
  <2>. QED  BY <2>1, <2>4, Zenon
<1>8. Kept(t, K) = Kept(s, K)
  <2>1. ASSUME NEW m \in 1..size
        PROVE  Kept(t, K)[m] = Kept(s, K)[m]
    <3>1. PICK i \in K : Place(K, i) = m /\ Kept(s, K)[m] = s[i]
      BY <1>7, <2>1
    <3>2. Kept(t, K)[m] = t[i]
      BY <1>2, <3>1, KeptAt
    <3>3. i \in 1..L
      BY <1>1
    <3>. QED  BY <1>1, <3>1, <3>2, <3>3
  <2>. QED  BY <1>6, <2>1, SeqEqual
<1>9. ASSUME NEW m \in 1..size
      PROVE  Kept(t, M)[m] = Kept(s, K)[m]
  <2>1. PICK i \in K : Place(K, i) = m /\ Kept(s, K)[m] = s[i]
    BY <1>7, <1>9
  <2>2. i \in 1..L /\ i \in M
    BY <1>1 DEF M
  <2>3. Upto(M, i) = Upto(K, i)
    BY <1>1, <2>2 DEF M, Upto
  <2>4. Place(M, i) = m
    BY <2>1, <2>3 DEF Place
  <2>5. Kept(t, M)[m] = t[i]
    BY <1>2, <2>2, <2>4, KeptAt
  <2>. QED  BY <1>1, <2>1, <2>2, <2>5
<1>10. Kept(t, M)[size + 1] = x
  <2>1. Upto(M, L + 1) = M /\ L + 1 \in M
    <3>1. L + 1 \in M /\ \A j \in M : j <= L + 1
      BY <1>1 DEF M
    <3>. QED  BY <3>1, Zenon DEF Upto
  <2>2. Place(M, L + 1) = size + 1
    BY <1>4, <2>1 DEF Place
  <2>3. Kept(t, M)[size + 1] = t[L + 1]
    BY <1>2, <2>1, <2>2, KeptAt
  <2>. QED  BY <1>1, <2>3
<1>11. Kept(t, M) = Append(Kept(s, K), x)
  <2>1. /\ Append(Kept(s, K), x) \in Seq(S) /\ Len(Append(Kept(s, K), x)) = size + 1
        /\ Append(Kept(s, K), x)[size + 1] = x
        /\ \A m \in 1..size : Append(Kept(s, K), x)[m] = Kept(s, K)[m]
    BY <1>3, <1>6, AppendProperties
  <2>2. ASSUME NEW m \in 1..(size + 1)
        PROVE  Kept(t, M)[m] = Append(Kept(s, K), x)[m]
    <3>1. m \in 1..size \/ m = size + 1
      BY <1>3, <2>2
    <3>. QED  BY <1>9, <1>10, <2>1, <3>1
  <2>. QED  BY <1>6, <2>1, <2>2, SeqEqual
<1>. QED  BY <1>8, <1>11 DEF t, M, L
=============================================================================
