---------------------------- MODULE QueueProofs ----------------------------
(***************************************************************************)
(* Proof that the index stays at its track and the modes agree, and that   *)
(* the queue sheet tells what plays next, for any tracks, sources,         *)
(* stations, suggestions and bounds.                                       *)
(***************************************************************************)
EXTENDS Queue, SequenceTheorems, FiniteSetTheorems, TLAPS

-----------------------------------------------------------------------------
\* Sub: the elements of a sequence at some of its positions.

\* Sets of positions are finite.
LEMMA PositionsFinite ==
  ASSUME NEW m \in Nat, NEW K \in SUBSET (1..m)
  PROVE  IsFiniteSet(K) /\ Cardinality(K) \in Nat
<1>1. IsFiniteSet(1..m)
  BY FS_Interval
<1>2. IsFiniteSet(K)
  BY <1>1, FS_Subset
<1> QED
  BY <1>2, FS_CardinalityType

\* Two positions have different ranks.
LEMMA RanksDiffer ==
  ASSUME NEW m \in Nat, NEW K \in SUBSET (1..m), NEW i \in K, NEW j \in K, i < j
  PROVE  Rank(K, i) # Rank(K, j)
<1> DEFINE I == {k \in K : k <= i}
           J == {k \in K : k <= j}
<1>1. ASSUME NEW k \in K, k <= i PROVE k <= j
  <2>1. k \in Int /\ i \in Int /\ j \in Int
    OBVIOUS
  <2> QED
    BY <1>1, <2>1
<1>2. I \in SUBSET J
  BY <1>1
<1>3. j \in J /\ j \notin I
  <2>1. i \in Int /\ j \in Int
    OBVIOUS
  <2>2. j <= j /\ ~(j <= i)
    BY <2>1
  <2> QED
    BY <2>2
<1>4. IsFiniteSet(J)
  <2>1. J \in SUBSET (1..m)
    OBVIOUS
  <2> QED
    BY <2>1, PositionsFinite
<1> HIDE DEF I, J
<1>5. Cardinality(I) # Cardinality(J)
  BY <1>2, <1>3, <1>4, FS_Subset
<1> QED
  BY <1>5 DEF I, J, Rank

\* Every number up to the size of a set of positions is the rank of one of them.
LEMMA PlaceHasRank ==
  ASSUME NEW m \in Nat, NEW K \in SUBSET (1..m), NEW n \in 1..Cardinality(K)
  PROVE  Place(K, n) \in K /\ Rank(K, Place(K, n)) = n
<1> DEFINE Upto(i) == {j \in K : j <= i}
           N == 1..Cardinality(K)
           f == [i \in K |-> Rank(K, i)]
<1>1. IsFiniteSet(K) /\ Cardinality(K) \in Nat
  BY PositionsFinite
<1>2. ASSUME NEW i \in K
      PROVE  IsFiniteSet(Upto(i)) /\ Rank(K, i) \in N
  <2>1. Upto(i) \in SUBSET K
    OBVIOUS
  <2>2. IsFiniteSet(Upto(i)) /\ Cardinality(Upto(i)) <= Cardinality(K)
    BY <1>1, <2>1, FS_Subset
  <2>3. i \in Upto(i)
    OBVIOUS
  <2>4. Cardinality(Upto(i)) \in Nat /\ Cardinality(Upto(i)) # 0
    BY <2>2, <2>3, FS_CardinalityType, FS_EmptySet
  <2> QED
    BY <1>1, <2>2, <2>4 DEF Rank
<1>4. f \in Injection(K, N)
  <2>1. f \in [K -> N]
    BY <1>2
  <2>2. ASSUME NEW i \in K, NEW j \in K, f[i] = f[j]
        PROVE  i = j
    <3>1. Rank(K, i) = Rank(K, j)
      BY <2>2
    <3>2. i \in Int /\ j \in Int
      OBVIOUS
    <3>3. ~(i < j) /\ ~(j < i)
      BY <3>1, RanksDiffer
    <3> QED
      BY <3>2, <3>3
  <2> QED
    BY <2>1, <2>2 DEF Injection, IsInjective
<1>5. IsFiniteSet(N) /\ Cardinality(N) = Cardinality(K)
  BY <1>1, FS_Interval
<1>6. f \in Surjection(K, N)
  BY <1>4, <1>5, FS_Injection
<1>7. \E i \in K : Rank(K, i) = n
  BY <1>6 DEF Surjection
<1> QED
  BY <1>7 DEF Place

\* A position comes at the place its rank gives.
LEMMA RankOfPlace ==
  ASSUME NEW m \in Nat, NEW K \in SUBSET (1..m), NEW i \in K
  PROVE  Rank(K, i) \in 1..Cardinality(K) /\ Place(K, Rank(K, i)) = i
<1> DEFINE Upto(k) == {j \in K : j <= k}
<1>1. IsFiniteSet(K) /\ Cardinality(K) \in Nat
  BY PositionsFinite
<1>2. ASSUME NEW k \in K PROVE IsFiniteSet(Upto(k))
  BY <1>1, FS_Subset
<1>3. Rank(K, i) \in 1..Cardinality(K)
  <2>1. Cardinality(Upto(i)) \in Nat /\ Cardinality(Upto(i)) <= Cardinality(K)
    BY <1>1, <1>2, FS_Subset, FS_CardinalityType
  <2>2. Cardinality(Upto(i)) # 0
    BY <1>2, FS_EmptySet
  <2> QED
    BY <1>1, <2>1, <2>2 DEF Rank
<1>4. ASSUME NEW k \in K, Rank(K, k) = Rank(K, i) PROVE k = i
  <2>1. i \in Int /\ k \in Int
    OBVIOUS
  <2>2. ~(i < k) /\ ~(k < i)
    BY <1>4, RanksDiffer
  <2> QED
    BY <2>1, <2>2
<1>5. Place(K, Rank(K, i)) \in K /\ Rank(K, Place(K, Rank(K, i))) = Rank(K, i)
  BY <1>3, PlaceHasRank
<1> QED
  BY <1>3, <1>4, <1>5

\* What Sub gives is a sequence of elements of s, with all those at K.
LEMMA SubIsSeq ==
  ASSUME NEW S, NEW s \in Seq(S), NEW K \in SUBSET (DOMAIN s)
  PROVE  /\ Sub(s, K) \in Seq(S) /\ Len(Sub(s, K)) = Cardinality(K)
         /\ \A i \in K : Contains(Sub(s, K), s[i])
<1>1. DOMAIN s = 1..Len(s) /\ Len(s) \in Nat
  BY LenProperties
<1>2. IsFiniteSet(K) /\ Cardinality(K) \in Nat
  BY <1>1, PositionsFinite
<1>3. \A n \in 1..Cardinality(K) : s[Place(K, n)] \in S
  <2> TAKE n \in 1..Cardinality(K)
  <2>1. Place(K, n) \in K
    BY <1>1, PlaceHasRank
  <2> QED
    BY <1>1, <2>1, ElementOfSeq
<1>4. Sub(s, K) \in Seq(S) /\ Len(Sub(s, K)) = Cardinality(K)
  <2> DEFINE sub == [n \in 1..Cardinality(K) |-> s[Place(K, n)]]
  <2>1. sub \in [1..Cardinality(K) -> S]
    BY <1>3
  <2>2. sub \in Seq(S) /\ Len(sub) = Cardinality(K)
    <3> HIDE DEF sub
    <3> QED
      BY <1>2, <2>1
  <2> QED
    BY <2>2 DEF Sub
<1>5. ASSUME NEW i \in K PROVE Contains(Sub(s, K), s[i])
  <2>1. Rank(K, i) \in 1..Cardinality(K) /\ Place(K, Rank(K, i)) = i
    BY <1>1, RankOfPlace
  <2> QED
    BY <1>4, <2>1 DEF Contains, Sub
<1> QED
  BY <1>4, <1>5

\* All the positions give the sequence itself.
LEMMA SubOfAll ==
  ASSUME NEW S, NEW s \in Seq(S)
  PROVE  Sub(s, DOMAIN s) = s
<1>1. DOMAIN s = 1..Len(s) /\ Len(s) \in Nat
  BY LenProperties
<1> DEFINE K == 1..Len(s)
<1>2. Cardinality(K) = Len(s)
  BY <1>1, FS_Interval
<1>3. ASSUME NEW n \in K PROVE Place(K, n) = n
  <2>1. {j \in K : j <= n} = 1..n
    BY <1>1
  <2>2. Rank(K, n) = n
    <3>1. n \in Nat /\ n >= 1
      BY <1>1
    <3>2. Cardinality(1..n) = n
      BY <3>1, FS_Interval
    <3> QED
      BY <2>1, <3>2 DEF Rank
  <2>3. Place(K, Rank(K, n)) = n
    BY <1>1, RankOfPlace
  <2> QED
    BY <2>2, <2>3
<1>4. Sub(s, K) = [n \in K |-> s[n]]
  BY <1>2, <1>3 DEF Sub
<1>5. s = [n \in DOMAIN s |-> s[n]]
  BY SMT
<1> QED
  BY <1>1, <1>4, <1>5

-----------------------------------------------------------------------------
\* The other operators on sequences.

\* findIndex finds a track that is there, and without it the index is 0.
LEMMA FoundAt ==
  ASSUME NEW S, NEW s \in Seq(S), NEW x
  PROVE  LET i == AtLeast0(IndexOf(s, x)) IN
         /\ i \in Nat
         /\ s # <<>> => InRange(s, i)
         /\ Contains(s, x) => InRange(s, i) /\ At(s, i) = x
<1>1. Len(s) \in Nat /\ (s # <<>> => Len(s) > 0)
  BY LenProperties, EmptySeq
<1>2. CASE ~Contains(s, x)
  <2>1. AtLeast0(IndexOf(s, x)) = 0
    BY <1>2 DEF IndexOf, AtLeast0
  <2> QED
    BY <1>1, <1>2, <2>1 DEF InRange
<1>3. CASE Contains(s, x)
  <2> DEFINE I == {i \in 1..Len(s) : s[i] = x}
  <2>1. I \in SUBSET Nat /\ I # {}
    BY <1>3 DEF Contains
  <2>2. \E i \in I : \A j \in I : i <= j
    <3> DEFINE R == OpToRel(<, Nat)
    <3>1. IsWellFoundedOn(R, Nat)
      BY NatLessThanWellFounded
    <3>2. \A i, j \in Nat : j < i => <<j, i>> \in R
      BY DEF OpToRel
    <3> HIDE DEF R, I
    <3>3. PICK i \in I : \A j \in I : ~(<<j, i>> \in R)
      BY <2>1, <3>1, WFMin
    <3>4. ASSUME NEW j \in I PROVE i <= j
      <4>1. i \in Nat /\ j \in Nat
        BY <2>1
      <4>2. ~(j < i)
        BY <3>2, <3>3, <4>1
      <4> QED
        BY <4>1, <4>2
    <3> QED
      BY <3>4
  <2> HIDE DEF I
  <2>3. Min(I) \in I
    BY <2>2 DEF Min
  <2>4. SelectInSeq(s, LAMBDA t : t = x) = Min(I)
    BY <2>1 DEF SelectInSeq, I
  <2>5. IndexOf(s, x) = Min(I) - 1
    BY <1>3, <2>4 DEF IndexOf
  <2>6. Min(I) \in 1..Len(s) /\ s[Min(I)] = x
    BY <2>3 DEF I
  <2>7. AtLeast0(IndexOf(s, x)) = Min(I) - 1
    BY <1>1, <2>5, <2>6 DEF AtLeast0
  <2> QED
    BY <1>1, <2>6, <2>7 DEF InRange, At
<1> QED
  BY <1>2, <1>3

\* An order of a sequence has its elements and its length.
LEMMA OrderIsSeq ==
  ASSUME NEW S, NEW s \in Seq(S), NEW t \in Orders(s)
  PROVE  t \in Seq(S) /\ Len(t) = Len(s)
<1>1. DOMAIN s = 1..Len(s) /\ Len(s) \in Nat
  BY LenProperties
<1>2. PICK p \in [DOMAIN s -> DOMAIN s] : t = [i \in DOMAIN s |-> s[p[i]]]
  BY DEF Orders
<1>3. t \in [1..Len(s) -> S]
  BY <1>1, <1>2, ElementOfSeq
<1> QED
  BY <1>1, <1>3

\* s.slice(0, i) and s.slice(i).
LEMMA SliceIsSeq ==
  ASSUME NEW S, NEW s \in Seq(S), NEW i \in Nat
  PROVE  /\ UpTo(s, i) \in Seq(S) /\ Len(UpTo(s, i)) = (IF i < Len(s) THEN i ELSE Len(s))
         /\ From(s, i) \in Seq(S)
         /\ \A k \in 1..Len(UpTo(s, i)) : UpTo(s, i)[k] = s[k]
<1>1. Len(s) \in Nat /\ DOMAIN s = 1..Len(s)
  BY LenProperties
<1> DEFINE n == IF i < Len(s) THEN i ELSE Len(s)
<1>2. n \in 0..Len(s)
  BY <1>1
<1>3. \A k \in 1..n : s[k] \in S
  BY <1>1, <1>2, ElementOfSeq
<1>4. /\ SubSeq(s, 1, n) \in Seq(S) /\ Len(SubSeq(s, 1, n)) = n
      /\ \A k \in 1..n : SubSeq(s, 1, n)[k] = s[k]
  <2> HIDE DEF n
  <2> QED
    BY <1>2, <1>3, SubSeqProperties
<1>5. SubSeq(s, i + 1, Len(s)) \in Seq(S)
  <2>1. \A k \in i + 1..Len(s) : s[k] \in S
    BY <1>1, ElementOfSeq
  <2> QED
    BY <1>1, <2>1, SubSeqProperties
<1> QED
  BY <1>4, <1>5 DEF UpTo, From

\* What a slice up to an index keeps in front of anything is where it was.
LEMMA PrefixStays ==
  ASSUME NEW S, NEW s \in Seq(S), NEW i \in Nat, NEW t \in Seq(S)
  PROVE  LET q == UpTo(s, i + 1) \o t IN
         /\ q \in Seq(S) /\ Len(q) = Len(UpTo(s, i + 1)) + Len(t)
         /\ InRange(s, i) => InRange(q, i) /\ At(q, i) = At(s, i)
<1> DEFINE u == UpTo(s, i + 1)
<1>1. Len(s) \in Nat /\ Len(t) \in Nat
  BY LenProperties
<1>2. u \in Seq(S) /\ Len(u) = (IF i + 1 < Len(s) THEN i + 1 ELSE Len(s))
      /\ \A k \in 1..Len(u) : u[k] = s[k]
  BY SliceIsSeq
<1> HIDE DEF u
<1>3. u \o t \in Seq(S) /\ Len(u \o t) = Len(u) + Len(t)
      /\ \A k \in 1..Len(u) : (u \o t)[k] = u[k]
  <2>1. u \in Seq(S) /\ Len(u) \in Nat
    BY <1>2, LenProperties
  <2>2. \A k \in 1..Len(u) + Len(t) :
          (u \o t)[k] = IF k <= Len(u) THEN u[k] ELSE t[k - Len(u)]
    BY <2>1, ConcatProperties
  <2> QED
    BY <1>1, <2>1, <2>2, ConcatProperties
<1>4. ASSUME InRange(s, i) PROVE InRange(u \o t, i) /\ At(u \o t, i) = At(s, i)
  <2>1. i + 1 \in 1..Len(u)
    BY <1>1, <1>2, <1>4 DEF InRange
  <2> QED
    BY <1>1, <1>2, <1>3, <2>1 DEF InRange, At
<1> QED
  BY <1>3, <1>4 DEF u

\* Taking out a later element leaves the earlier ones where they are.
LEMMA RemovedIsSeq ==
  ASSUME NEW S, NEW s \in Seq(S), NEW i \in 1..Len(s)
  PROVE  /\ RemoveAt(s, i) \in Seq(S) /\ Len(RemoveAt(s, i)) = Len(s) - 1
         /\ \A k \in 1..i - 1 : RemoveAt(s, i)[k] = s[k]
<1>1. Len(s) \in Nat /\ DOMAIN s = 1..Len(s)
  BY LenProperties
<1>2. \A k \in 1..Len(s) : s[k] \in S
  BY <1>1, ElementOfSeq
<1> DEFINE a == SubSeq(s, 1, i - 1)
           b == SubSeq(s, i + 1, Len(s))
<1>3. a \in Seq(S) /\ Len(a) = i - 1 /\ \A k \in 1..i - 1 : a[k] = s[k]
  BY <1>1, <1>2, SubSeqProperties
<1>4. b \in Seq(S) /\ Len(b) = Len(s) - i
  BY SubSeqProperties
<1> HIDE DEF a, b
<1>5. a \o b \in Seq(S) /\ Len(a \o b) = Len(a) + Len(b)
      /\ \A k \in 1..Len(a) : (a \o b)[k] = a[k]
  <2>1. a \in Seq(S) /\ b \in Seq(S) /\ Len(a) \in Nat /\ Len(b) \in Nat
    BY <1>3, <1>4, LenProperties
  <2>2. \A k \in 1..Len(a) + Len(b) :
          (a \o b)[k] = IF k <= Len(a) THEN a[k] ELSE b[k - Len(a)]
    BY <2>1, ConcatProperties
  <2> QED
    BY <2>1, <2>2, ConcatProperties
<1>6. RemoveAt(s, i) = a \o b
  BY DEF a, b, RemoveAt
<1>7. \A k \in 1..i - 1 : (a \o b)[k] = s[k]
  BY <1>3, <1>5
<1>8. Len(a \o b) = Len(s) - 1
  <2>1. i \in Nat
    BY <1>1
  <2> QED
    BY <1>1, <1>3, <1>4, <1>5, <2>1
<1> QED
  BY <1>5, <1>6, <1>7, <1>8

\* Shuffled puts the kept track first.
LEMMA ShuffledKeeps ==
  ASSUME NEW S, NEW s \in Seq(S), NEW i \in Int, NEW t \in Shuffled(s, i)
  PROVE  t \in Seq(S) /\ (InRange(s, i) => InRange(t, 0) /\ At(t, 0) = At(s, i))
<1> DEFINE K == {k \in DOMAIN s : k # i + 1}
           kept == IF InRange(s, i) THEN <<At(s, i)>> ELSE <<>>
<1>1. Len(s) \in Nat /\ DOMAIN s = 1..Len(s)
  BY LenProperties
<1>2. PICK r \in Orders(Sub(s, K)) : t = kept \o r
  BY DEF Shuffled, Filter
<1>3. r \in Seq(S)
  <2>1. K \in SUBSET (DOMAIN s)
    OBVIOUS
  <2>2. Sub(s, K) \in Seq(S)
    <3> HIDE DEF K
    <3> QED
      BY <2>1, SubIsSeq
  <2> HIDE DEF K
  <2> QED
    BY <2>2, OrderIsSeq
<1>4. CASE InRange(s, i)
  <2>1. At(s, i) \in S
    BY <1>1, <1>4, ElementOfSeq DEF InRange, At
  <2>2. t = <<At(s, i)>> \o r
    BY <1>2, <1>4
  <2>3. <<At(s, i)>> \in Seq(S) /\ Len(<<At(s, i)>>) = 1 /\ <<At(s, i)>>[1] = At(s, i)
    BY <2>1
  <2>4. t \in Seq(S) /\ Len(t) = 1 + Len(r) /\ t[1] = At(s, i) /\ Len(r) \in Nat
    BY <1>3, <2>2, <2>3, ConcatProperties, LenProperties
  <2> QED
    BY <2>4 DEF InRange, At
<1>5. CASE ~InRange(s, i)
  <2>1. t = <<>> \o r
    BY <1>2, <1>5
  <2>2. t = r
    BY <1>3, <2>1, ConcatEmptySeq
  <2> QED
    BY <1>3, <1>5, <2>2
<1> QED
  BY <1>4, <1>5

\* Mixed adds at least one suggestion, and no track from elsewhere.
LEMMA MixedIsSeq ==
  ASSUME NEW S, NEW s \in Seq(S), NEW r \in Seq(S)
  PROVE  Mixed(s, r) \in Seq(S) /\ (r # <<>> => Len(Mixed(s, r)) > 0)
<1> DEFINE n == IF Len(r) < Quota(s) THEN Len(r) ELSE Quota(s)
           third == Len(s) \div 3
           between == IF n < third THEN n ELSE third
           e(k) == CASE k <= 4 * between /\ k % 4 = 0 -> r[k \div 4]
                     [] k <= 4 * between /\ k % 4 # 0 -> s[k - (k \div 4)]
                     [] k > 4 * between /\ k <= Len(s) + between -> s[k - between]
                     [] OTHER -> r[k - Len(s)]
           m == [k \in 1..Len(s) + n |-> e(k)]
<1>1. Len(s) \in Nat /\ DOMAIN s = 1..Len(s) /\ Len(r) \in Nat /\ DOMAIN r = 1..Len(r)
      /\ (r # <<>> => Len(r) > 0)
  BY LenProperties, EmptySeq
<1>2. third \in Nat /\ 3 * third <= Len(s) /\ Quota(s) \in Nat /\ Quota(s) > 0
  BY <1>1 DEF Quota
<1>3. n \in Nat /\ n <= Len(r) /\ (r # <<>> => n > 0)
  BY <1>1, <1>2
<1>4. between \in Nat /\ between <= n /\ 3 * between <= Len(s)
  BY <1>1, <1>2, <1>3
<1> HIDE DEF n, third, between
<1>5. ASSUME NEW k \in 1..Len(s) + n PROVE e(k) \in S
  <2>1. CASE k <= 4 * between /\ k % 4 = 0
    <3>1. k \div 4 \in 1..Len(r)
      BY <1>1, <1>3, <1>4, <2>1
    <3>2. e(k) = r[k \div 4]
      <4>1. ~(k <= 4 * between /\ k % 4 # 0) /\ ~(k > 4 * between)
        BY <1>1, <1>3, <1>4, <2>1
      <4> QED
        BY <2>1, <4>1, Zenon
    <3> QED
      BY <1>1, <3>1, <3>2, ElementOfSeq
  <2>2. CASE k <= 4 * between /\ k % 4 # 0
    <3>1. k - (k \div 4) \in 1..Len(s)
      BY <1>1, <1>3, <1>4, <2>2
    <3>2. e(k) = s[k - (k \div 4)]
      <4>1. ~(k <= 4 * between /\ k % 4 = 0) /\ ~(k > 4 * between)
        BY <1>1, <1>3, <1>4, <2>2
      <4> QED
        BY <2>2, <4>1, Zenon
    <3> QED
      BY <1>1, <3>1, <3>2, ElementOfSeq
  <2>3. CASE k > 4 * between /\ k <= Len(s) + between
    <3>1. k - between \in 1..Len(s)
      BY <1>1, <1>3, <1>4, <2>3
    <3>2. e(k) = s[k - between]
      BY <1>4, <2>3
    <3> QED
      BY <1>1, <3>1, <3>2, ElementOfSeq
  <2>4. CASE k > 4 * between /\ k > Len(s) + between
    <3>1. k - Len(s) \in 1..Len(r)
      BY <1>1, <1>3, <1>4, <2>4
    <3>2. e(k) = r[k - Len(s)]
      BY <1>1, <1>4, <2>4
    <3> QED
      BY <1>1, <3>1, <3>2, ElementOfSeq
  <2>5. k \in Int /\ Len(s) + between \in Int /\ 4 * between \in Int
        /\ 4 * between <= Len(s) + between
    BY <1>1, <1>3, <1>4
  <2> QED
    BY <2>1, <2>2, <2>3, <2>4, <2>5
<1> HIDE DEF e
<1>6. m \in [1..Len(s) + n -> S]
  BY <1>5
<1> HIDE DEF m
<1>7. m \in Seq(S) /\ Len(m) = Len(s) + n
  BY <1>1, <1>3, <1>6
<1>8. Mixed(s, r) = m
  BY DEF Mixed, m, e, n, third, between
<1> QED
  BY <1>1, <1>3, <1>7, <1>8

-----------------------------------------------------------------------------
(* The inductive invariant *)

Repeats == {"off", "all", "one"}
Loads == [track : Tracks, mix : BOOLEAN]
Reads == [queue : Seq(Tracks), manual : Seq(Tracks), index : Nat,
          current : Tracks \cup {None}, playingManual : BOOLEAN, repeat : Repeats]

SourceOK ==
  /\ queue \in Seq(Tracks) /\ manual \in Seq(Tracks) /\ unshuffled \in Seq(Tracks)
  /\ playingManual \in BOOLEAN /\ index \in Nat /\ current \in Tracks \cup {None}
  /\ loads \subseteq Loads
  /\ stations \in Seq([read : Reads, auto : BOOLEAN])

Skips == {NoSkip} \cup [op : {"next", "previous"}, read : Reads]
FadeOK == silent \in BOOLEAN /\ skip \in Skips

ModesOK ==
  /\ shuffle \in BOOLEAN /\ smart \in BOOLEAN /\ autoplay \in BOOLEAN
  /\ smartIds \subseteq Tracks /\ repeat \in Repeats
  /\ mixes \in Seq(SUBSET Tracks)

CountOK == adrift \in BOOLEAN /\ ops \in 0..MaxOps

\* Where the index is, and that an empty source has no call for suggestions waiting: an
\* answer would make the queue longer under a player that plays nothing of it.
Sits(q, i, c, byHand, waiting) ==
  /\ q = <<>> => i = 0 /\ waiting = <<>>
  /\ c = None => q = <<>>
  /\ c # None => InRange(q, i) \/ (q = <<>> /\ byHand)
  /\ c # None /\ ~byHand => c = At(q, i)

Placed == ~adrift => Sits(queue, index, current, playingManual, mixes)

IInv == SourceOK /\ FadeOK /\ ModesOK /\ CountOK /\ Placed

\* The inductive invariant holds more than the invariants of the runs.
LEMMA IInvImplies == IInv => TypeOK /\ SourceInPlace
<1> SUFFICES ASSUME IInv PROVE TypeOK /\ SourceInPlace
  OBVIOUS
<1> USE DEF IInv
<1>1. SourceInPlace
  BY Zenon DEF Placed, Sits, SourceInPlace
<1>2. {playingManual, shuffle, smart, autoplay, silent, adrift} \subseteq BOOLEAN
  BY Zenon DEF SourceOK, FadeOK, Skips, ModesOK, CountOK
<1>3. skip.op \in {"none", "next", "previous"}
  <2>1. CASE skip = NoSkip
    BY <2>1 DEF NoSkip
  <2>2. CASE skip \in [op : {"next", "previous"}, read : Reads]
    BY <2>2
  <2> QED
    BY <2>1, <2>2 DEF FadeOK, Skips
<1>4. \A l \in loads : l.track \in Tracks /\ l.mix \in BOOLEAN
  BY DEF SourceOK, Loads
<1> QED
  BY <1>1, <1>2, <1>3, <1>4 DEF TypeOK, SourceOK, ModesOK, CountOK, Repeats

\* It holds at the start.
LEMMA IInvInit == Init => IInv
<1> SUFFICES ASSUME Init PROVE IInv
  OBVIOUS
<1> USE DEF Init
<1>1. SourceOK
  <2>1. \A S : <<>> \in Seq(S)
    BY EmptySeq
  <2>2. stations = <<>> /\ loads = {} /\ playingManual = FALSE /\ index = 0 /\ current = None
        /\ queue = <<>> /\ manual = <<>> /\ unshuffled = <<>>
    BY Zenon
  <2> QED
    BY <2>1, <2>2, Zenon, 0 \in Nat DEF SourceOK
<1>2. FadeOK
  BY DEF FadeOK, Skips
<1>3. ModesOK
  <2>1. mixes \in Seq(SUBSET Tracks)
    BY EmptySeq
  <2> QED
    BY <2>1, Zenon DEF ModesOK, Repeats
<1>4. CountOK
  <2>1. 0 \in 0..MaxOps
    BY QueueAssumption
  <2> QED
    BY <2>1, Zenon DEF CountOK
<1>5. Placed
  BY DEF Placed, Sits
<1> QED
  BY <1>1, <1>2, <1>3, <1>4, <1>5 DEF IInv

\* A step that touches nothing keeps it.
LEMMA IInvStutter == IInv /\ UNCHANGED vars => IInv'
BY DEF IInv, vars, SourceOK, FadeOK, Skips, ModesOK, CountOK, Placed, Sits, InRange, At

\* What the listener does is counted.
LEMMA Counted ==
  ASSUME CountOK, Act, adrift' \in BOOLEAN
  PROVE  CountOK'
BY QueueAssumption DEF CountOK, Act

\* What a skip reads has the types of the store.
LEMMA ReadTyped == SourceOK /\ ModesOK => Read \in Reads
BY DEF SourceOK, ModesOK, Read, Reads

-----------------------------------------------------------------------------
(* Skips *)

\* A track becomes the current one.
LEMMA BecomesTyped ==
  ASSUME SourceOK, NEW t \in Tracks, NEW i \in Nat, NEW b \in BOOLEAN, Becomes(t, i, b)
  PROVE  index' \in Nat /\ playingManual' \in BOOLEAN /\ current' \in Tracks \cup {None}
         /\ loads' \subseteq Loads
<1>1. [track |-> t, mix |-> FALSE] \in Loads
  BY DEF Loads
<1>2. loads' \subseteq Loads
  BY <1>1, Zenon DEF SourceOK, Becomes
<1> QED
  BY <1>2, Zenon DEF Becomes

\* What next() does on a store it read keeps the types.
LEMMA GoesTyped ==
  ASSUME SourceOK, NEW r \in Reads, NEW auto \in BOOLEAN, Goes(r, auto)
  PROVE  SourceOK'
<1> USE DEF Reads
<1>1. CASE TakeManual(r)
  <2>1. Head(r.manual) \in Tracks /\ Tail(r.manual) \in Seq(Tracks)
    BY <1>1, HeadTailProperties DEF TakeManual
  <2>2. Becomes(Head(r.manual), index, TRUE) /\ index \in Nat
    BY <1>1 DEF TakeManual, SourceOK
  <2>3. index' \in Nat /\ playingManual' \in BOOLEAN /\ current' \in Tracks \cup {None}
        /\ loads' \subseteq Loads
    BY <2>1, <2>2, BecomesTyped
  <2> QED
    BY <1>1, <2>1, <2>3 DEF TakeManual, SourceOK
<1>2. CASE Advance(r)
  <2> DEFINE at == IF IsLast(r) THEN 0 ELSE After(r)
  <2>1. at \in Nat
    BY DEF After
  <2>2. index' \in Nat /\ playingManual' \in BOOLEAN /\ current' \in Tracks \cup {None}
        /\ loads' \subseteq Loads
    <3>1. CASE InRange(r.queue, at)
      <4>1. At(r.queue, at) \in Tracks
        BY <2>1, <3>1, ElementOfSeq DEF InRange, At
      <4>2. Becomes(At(r.queue, at), at, FALSE)
        BY <1>2, <3>1 DEF Advance
      <4> HIDE DEF at
      <4> QED
        BY <2>1, <4>1, <4>2, BecomesTyped
    <3>2. CASE ~InRange(r.queue, at)
      BY <1>2, <3>2 DEF Advance, SourceOK
    <3> QED
      BY <3>1, <3>2
  <2> QED
    BY <1>2, <2>2 DEF Advance, SourceOK
<1>3. CASE AskStation(r, auto)
  <2>1. [read |-> r, auto |-> auto] \in [read : Reads, auto : BOOLEAN]
    OBVIOUS
  <2>2. stations' \in Seq([read : Reads, auto : BOOLEAN])
    BY <1>3, <2>1, AppendProperties DEF AskStation, SourceOK
  <2> QED
    BY <1>3, <2>2 DEF AskStation, SourceOK, source
<1> QED
  BY <1>1, <1>2, <1>3 DEF Goes

\* On a store that has not moved it leaves the index at its track.
LEMMA GoesPlaced ==
  ASSUME SourceOK, Sits(queue, index, current, playingManual, mixes),
         NEW auto \in BOOLEAN, Goes(Read, auto), mixes' = mixes
  PROVE  Sits(queue', index', current', playingManual', mixes')
<1> DEFINE r == Read
<1>1. r.queue = queue /\ r.manual = manual /\ r.index = index
  BY DEF Read
<1>2. CASE TakeManual(r)
  <2>1. index' = index /\ playingManual' = TRUE /\ queue' = queue
    BY <1>2, Zenon DEF TakeManual, Becomes
  <2>2. queue = <<>> \/ InRange(queue, index)
    BY Zenon DEF Sits
  <2>3. current' # None
    <3>1. current' = Head(manual) /\ manual # <<>>
      BY <1>1, <1>2 DEF TakeManual, Becomes
    <3>2. Head(manual) \in Tracks
      BY <3>1, HeadTailProperties DEF SourceOK
    <3> QED
      BY <3>1, <3>2, QueueAssumption DEF None
  <2> QED
    BY <2>1, <2>2, <2>3 DEF Sits, InRange
<1>3. CASE Advance(r)
  <2> DEFINE at == IF IsLast(r) THEN 0 ELSE After(r)
  <2>1. queue' = queue
    BY <1>3 DEF Advance
  <2>2. CASE InRange(queue, at)
    <3>1. index' = at /\ playingManual' = FALSE /\ current' = At(queue, at)
      BY <1>1, <1>3, <2>2 DEF Advance, Becomes
    <3>2. queue # <<>>
      BY <2>2 DEF InRange
    <3>3. InRange(queue', index') /\ current' = At(queue', index') /\ queue' # <<>>
      BY <2>1, <2>2, <3>1, <3>2
    <3>4. current' # None
      <4>1. At(queue, at) \in Tracks
        BY <2>2, ElementOfSeq DEF SourceOK, InRange, At
      <4> QED
        BY <3>1, <4>1, QueueAssumption DEF None
    <3> QED
      BY <3>3, <3>4, Zenon DEF Sits
  <2>3. CASE ~InRange(queue, at)
    <3>1. index' = index /\ playingManual' = playingManual /\ current' = current
      BY <1>1, <1>3, <2>3 DEF Advance
    <3> HIDE DEF at
    <3> QED
      BY <2>1, <3>1 DEF Sits, InRange, At
  <2> QED
    BY <2>2, <2>3
<1>4. CASE AskStation(r, auto)
  BY <1>4, Zenon DEF AskStation, source, Sits
<1> QED
  BY <1>2, <1>3, <1>4, Zenon DEF Goes

\* The modes are left alone.
LEMMA ModesStay == ModesOK /\ UNCHANGED <<modes, mixes>> => ModesOK'
BY DEF ModesOK, modes

\* What comes after the fade-out of a skip, or at the end of a track.
LEMMA ContinueKeeps ==
  ASSUME IInv, NEW r \in Reads, NEW auto \in BOOLEAN, NEW hush \in BOOLEAN,
         NEW waits \in Skips, Continue(r, auto, hush, waits), UNCHANGED <<modes, mixes>>
  PROVE  SourceOK' /\ FadeOK' /\ ModesOK' /\ adrift' \in BOOLEAN /\ Placed'
<1>1. SourceOK /\ FadeOK /\ ModesOK /\ adrift \in BOOLEAN /\ Placed
  BY DEF IInv, CountOK
<1>2. ModesOK'
  BY <1>1, ModesStay
<1>3. CASE Goes(r, auto) /\ silent' = hush /\ skip' = waits /\ adrift' = (adrift \/ Moved(r))
  <2>1. SourceOK'
    BY <1>1, <1>3, GoesTyped
  <2>2. FadeOK'
    BY <1>3 DEF FadeOK, Skips
  <2>3. ASSUME ~adrift' PROVE Sits(queue', index', current', playingManual', mixes')
    <3>1. ~adrift /\ r = Read
      BY <1>1, <1>3, <2>3, Zenon DEF Moved
    <3>2. Goes(Read, auto) /\ mixes' = mixes
      BY <1>3, <3>1, Zenon
    <3> QED
      BY <1>1, <3>1, <3>2, GoesPlaced DEF Placed
  <2> QED
    BY <1>1, <1>2, <1>3, <2>1, <2>2, <2>3, Zenon DEF Placed
<1>4. CASE /\ TheEnd(r, auto) /\ silent' = FALSE /\ skip' = NoSkip
           /\ adrift' = (adrift \/ Moved(r) \/ (auto /\ playingManual))
  <2>1. /\ playingManual' = (playingManual /\ ~auto)
        /\ UNCHANGED <<queue, manual, unshuffled, index, current, stations, loads>>
    BY <1>4 DEF TheEnd
  <2>2. SourceOK'
    BY <1>1, <2>1 DEF SourceOK
  <2>3. FadeOK'
    BY <1>4 DEF FadeOK, Skips
  <2>4. ASSUME ~adrift' PROVE Sits(queue', index', current', playingManual', mixes')
    <3>1. ~adrift /\ (playingManual' <=> playingManual)
      BY <1>1, <1>4, <2>1, <2>4, Zenon
    <3>2. UNCHANGED <<queue, index, current, mixes>>
      BY <2>1
    <3>3. Sits(queue, index, current, playingManual, mixes)
      BY <1>1, <3>1 DEF Placed
    <3> QED
      BY <3>1, <3>2, <3>3, Zenon DEF Sits, InRange, At
  <2> QED
    BY <1>1, <1>2, <1>4, <2>2, <2>3, <2>4, Zenon DEF Placed
<1> QED
  BY <1>3, <1>4 DEF Continue

\* What comes after the fade-out of previous().
LEMMA GoBackKeeps ==
  ASSUME IInv, NEW r \in Reads, GoBack(r), UNCHANGED <<modes, mixes>>
  PROVE  SourceOK' /\ FadeOK' /\ ModesOK' /\ adrift' \in BOOLEAN /\ Placed'
<1> DEFINE at == IF r.playingManual THEN r.index
                 ELSE IF r.index > 0 THEN r.index - 1 ELSE Len(r.queue) - 1
           to == IF r.playingManual THEN index ELSE at
<1>1. SourceOK /\ FadeOK /\ ModesOK /\ adrift \in BOOLEAN /\ Placed
  BY DEF IInv, CountOK
<1>2. ModesOK'
  BY <1>1, ModesStay
<1>3. r.queue \in Seq(Tracks) /\ Len(r.queue) \in Nat /\ r.index \in Nat
  BY LenProperties DEF Reads
<1>4. FadeOK' /\ adrift' = (adrift \/ Moved(r))
      /\ UNCHANGED <<queue, manual, unshuffled, stations>>
  BY DEF GoBack, FadeOK, Skips
<1>5. CASE InRange(r.queue, at)
  <2>1. Becomes(At(r.queue, at), to, FALSE)
    BY <1>5, Zenon DEF GoBack
  <2>2. At(r.queue, at) \in Tracks
    BY <1>3, <1>5, ElementOfSeq DEF InRange, At
  <2>3. at \in Nat /\ to \in Nat
    BY <1>1, <1>3, <1>5 DEF InRange, SourceOK
  <2> HIDE DEF at, to
  <2>4. index' \in Nat /\ playingManual' \in BOOLEAN /\ current' \in Tracks \cup {None}
        /\ loads' \subseteq Loads
    BY <1>1, <2>1, <2>2, <2>3, BecomesTyped
  <2>5. SourceOK'
    BY <1>1, <1>4, <2>4, Zenon DEF SourceOK
  <2>6. ASSUME ~adrift' PROVE Sits(queue', index', current', playingManual', mixes')
    <3>1. r = Read
      BY <1>4, <2>6, Zenon DEF Moved
    <3>2. r.queue = queue /\ r.index = index
      BY <3>1 DEF Read
    <3>3. to = at
      BY <3>2 DEF to, at
    <3>4. InRange(queue', index') /\ current' = At(queue', index')
      BY <1>4, <1>5, <2>1, <3>2, <3>3 DEF Becomes
    <3>5. current' # None
      BY <2>1, <2>2, QueueAssumption DEF Becomes, None
    <3>6. queue' # <<>>
      BY <3>4 DEF InRange
    <3> QED
      BY <3>4, <3>5, <3>6, Zenon DEF Sits
  <2> QED
    BY <1>1, <1>2, <1>4, <2>5, <2>6, Zenon DEF Placed
<1>6. CASE ~InRange(r.queue, at)
  <2>1. UNCHANGED <<index, playingManual, current, loads>>
    BY <1>6, Zenon DEF GoBack
  <2>2. SourceOK'
    BY <1>1, <1>4, <2>1, Zenon DEF SourceOK
  <2>3. ~adrift' => Sits(queue', index', current', playingManual', mixes')
    BY <1>1, <1>4, <2>1 DEF Placed, Sits, InRange, At
  <2> QED
    BY <1>1, <1>2, <1>4, <2>2, <2>3, Zenon DEF Placed
<1> QED
  BY <1>5, <1>6

\* The end of a track.
LEMMA EndedKeeps == IInv /\ Ended => IInv'
<1> SUFFICES ASSUME IInv, Ended PROVE IInv'
  OBVIOUS
<1>1. Read \in Reads /\ silent \in BOOLEAN /\ skip \in Skips
  BY ReadTyped DEF IInv, FadeOK, Skips
<1>2. Continue(Read, TRUE, silent, skip) /\ UNCHANGED <<modes, mixes>> /\ Act
  BY DEF Ended
<1>3. SourceOK' /\ FadeOK' /\ ModesOK' /\ adrift' \in BOOLEAN /\ Placed'
  BY <1>1, <1>2, ContinueKeeps
<1>4. CountOK'
  BY <1>2, <1>3, Counted DEF IInv
<1> QED
  BY <1>3, <1>4 DEF IInv

\* A tap on next or previous that waits for its fade.
LEMMA SkipWaits ==
  ASSUME IInv, NEW op \in {"next", "previous"}, NEW r \in Reads,
         skip' = [op |-> op, read |-> r],
         UNCHANGED <<source, loads, stations, silent, adrift, modes, mixes>>
  PROVE  SourceOK' /\ FadeOK' /\ ModesOK' /\ adrift' \in BOOLEAN /\ Placed'
<1>1. SourceOK /\ FadeOK /\ ModesOK /\ adrift \in BOOLEAN /\ Placed
  BY DEF IInv, CountOK
<1>2. FadeOK'
  <2>1. [op |-> op, read |-> r] \in [op : {"next", "previous"}, read : Reads]
    OBVIOUS
  <2> QED
    BY <1>1, <2>1 DEF FadeOK, Skips
<1>3. SourceOK'
  BY <1>1 DEF SourceOK, source
<1>4. ModesOK'
  BY <1>1, ModesStay
<1>5. Placed'
  BY <1>1 DEF Placed, Sits, InRange, At, source
<1> QED
  BY <1>1, <1>2, <1>3, <1>4, <1>5

\* A tap on next.
LEMMA TapNextKeeps == IInv /\ TapNext => IInv'
<1> SUFFICES ASSUME IInv, TapNext PROVE IInv'
  OBVIOUS
<1>1. Read \in Reads /\ NoSkip \in Skips
  BY ReadTyped DEF IInv, Skips
<1>2. UNCHANGED <<modes, mixes>> /\ Act
  BY DEF TapNext
<1>3. CASE Continue(Read, FALSE, TRUE, NoSkip)
  BY <1>1, <1>2, <1>3, ContinueKeeps, Counted DEF IInv
<1>4. CASE skip' = [op |-> "next", read |-> Read]
           /\ UNCHANGED <<source, loads, stations, silent, adrift>>
  BY <1>1, <1>2, <1>4, SkipWaits, Counted DEF IInv
<1> QED
  BY <1>3, <1>4 DEF TapNext

\* A tap on previous.
LEMMA TapPreviousKeeps == IInv /\ TapPrevious => IInv'
<1> SUFFICES ASSUME IInv, TapPrevious PROVE IInv'
  OBVIOUS
<1>1. Read \in Reads
  BY ReadTyped DEF IInv
<1>2. UNCHANGED <<modes, mixes>> /\ Act
  BY DEF TapPrevious
<1>3. CASE GoBack(Read)
  BY <1>1, <1>2, <1>3, GoBackKeeps, Counted DEF IInv
<1>4. CASE skip' = [op |-> "previous", read |-> Read]
           /\ UNCHANGED <<source, loads, stations, silent, adrift>>
  BY <1>1, <1>2, <1>4, SkipWaits, Counted DEF IInv
<1> QED
  BY <1>3, <1>4 DEF TapPrevious

\* The fade-out of a skip ends.
LEMMA FadeEndsKeeps == IInv /\ FadeEnds => IInv'
<1> SUFFICES ASSUME IInv, FadeEnds PROVE IInv'
  OBVIOUS
<1>1. UNCHANGED <<modes, mixes>> /\ ops' = ops /\ ops \in 0..MaxOps
  BY DEF FadeEnds, IInv, CountOK
<1>2. skip.op # "none" /\ NoSkip \in Skips
  BY DEF FadeEnds, Skips
<1>3. skip.read \in Reads
  <2>1. skip # NoSkip
    BY <1>2 DEF NoSkip
  <2> QED
    BY <2>1 DEF IInv, FadeOK, Skips
<1>4. CASE Continue(skip.read, FALSE, TRUE, NoSkip)
  BY <1>1, <1>2, <1>3, <1>4, ContinueKeeps DEF IInv, CountOK
<1>5. CASE GoBack(skip.read)
  BY <1>1, <1>3, <1>5, GoBackKeeps DEF IInv, CountOK
<1> QED
  BY <1>4, <1>5 DEF FadeEnds

\* A row of the manual queue.
LEMMA TapManualRowKeeps == IInv /\ TapManualRow => IInv'
<1> SUFFICES ASSUME IInv, TapManualRow PROVE IInv'
  OBVIOUS
<1>1. SourceOK /\ FadeOK /\ ModesOK /\ CountOK /\ Placed /\ Act
  BY DEF IInv, TapManualRow
<1>2. UNCHANGED <<queue, unshuffled, modes, silent, stations, mixes, adrift>>
  BY DEF TapManualRow
<1> DEFINE kept(i) == From(manual, i)
           r(i) == [Read EXCEPT !.manual = kept(i)]
<1>3. PICK i \in 1..Len(manual) - 1 :
        \/ silent /\ manual' = Tail(kept(i)) /\ Becomes(Head(kept(i)), index, TRUE)
           /\ UNCHANGED skip
        \/ /\ ~silent /\ manual' = kept(i)
           /\ skip' = [op |-> "next", read |-> r(i)]
           /\ UNCHANGED <<index, playingManual, current, loads>>
  BY DEF TapManualRow
<1>4. manual \in Seq(Tracks) /\ Len(manual) \in Nat
  BY <1>1, LenProperties DEF SourceOK
<1>5. kept(i) \in Seq(Tracks) /\ kept(i) # <<>>
  <2>1. \A k \in i + 1..Len(manual) : manual[k] \in Tracks
    BY <1>4, ElementOfSeq
  <2>2. SubSeq(manual, i + 1, Len(manual)) \in Seq(Tracks)
        /\ Len(SubSeq(manual, i + 1, Len(manual))) = Len(manual) - i
    BY <1>4, <2>1, SubSeqProperties
  <2>3. Len(kept(i)) > 0
    BY <1>4, <2>2 DEF From
  <2>4. kept(i) # <<>>
    BY <2>3
  <2> QED
    BY <2>2, <2>4 DEF From
<1> HIDE DEF kept
<1>6. CountOK'
  BY <1>1, <1>2, Counted DEF CountOK
<1>7. ModesOK'
  BY <1>1, <1>2, ModesStay
<1>8. CASE silent /\ manual' = Tail(kept(i)) /\ Becomes(Head(kept(i)), index, TRUE)
           /\ UNCHANGED skip
  <2>1. Head(kept(i)) \in Tracks /\ Tail(kept(i)) \in Seq(Tracks)
    BY <1>5, HeadTailProperties
  <2>2. index' \in Nat /\ playingManual' \in BOOLEAN /\ current' \in Tracks \cup {None}
        /\ loads' \subseteq Loads
    BY <1>1, <1>8, <2>1, BecomesTyped DEF SourceOK
  <2>3. SourceOK'
    BY <1>1, <1>2, <1>8, <2>1, <2>2, Zenon DEF SourceOK
  <2>4. FadeOK'
    BY <1>1, <1>2, <1>8 DEF FadeOK, Skips
  <2>5. index' = index /\ playingManual' = TRUE /\ current' # None
    BY <1>8, <2>1, QueueAssumption DEF Becomes, None
  <2>6. Placed'
    <3>1. ASSUME ~adrift' PROVE Sits(queue', index', current', playingManual', mixes')
      <4>1. Sits(queue, index, current, playingManual, mixes)
        BY <1>1, <1>2, <3>1 DEF Placed
      <4>2. queue = <<>> \/ InRange(queue, index)
        BY <4>1, Zenon DEF Sits
      <4>3. UNCHANGED <<queue, mixes>>
        BY <1>2
      <4> QED
        BY <2>5, <4>1, <4>2, <4>3 DEF Sits, InRange
    <3> QED
      BY <3>1, Zenon DEF Placed
  <2> QED
    BY <1>6, <1>7, <2>3, <2>4, <2>6 DEF IInv
<1>9. CASE /\ ~silent /\ manual' = kept(i)
           /\ skip' = [op |-> "next", read |-> r(i)]
           /\ UNCHANGED <<index, playingManual, current, loads>>
  <2>1. r(i) \in Reads
    <3>1. Read \in Reads
      BY <1>1, ReadTyped
    <3> QED
      BY <1>5, <3>1 DEF Reads
  <2> HIDE DEF r
  <2>2. FadeOK'
    <3>1. [op |-> "next", read |-> r(i)] \in [op : {"next", "previous"}, read : Reads]
      BY <2>1
    <3> QED
      BY <1>1, <1>2, <1>9, <3>1 DEF FadeOK, Skips
  <2>3. SourceOK'
    BY <1>1, <1>2, <1>5, <1>9, Zenon DEF SourceOK
  <2>4. Placed'
    BY <1>1, <1>2, <1>9 DEF Placed, Sits, InRange, At
  <2> QED
    BY <1>6, <1>7, <2>2, <2>3, <2>4 DEF IInv
<1> QED
  BY <1>3, <1>8, <1>9

\* One of the calls waiting for an answer gets it.
LEMMA Answered ==
  ASSUME NEW S, NEW s \in Seq(S), NEW n \in DOMAIN s
  PROVE  RemoveAt(s, n) \in Seq(S) /\ s[n] \in S /\ s # <<>>
<1>1. DOMAIN s = 1..Len(s) /\ Len(s) \in Nat
  BY LenProperties
<1>2. n \in 1..Len(s)
  BY <1>1
<1>3. s # <<>>
  BY <1>2
<1> QED
  BY <1>2, <1>3, RemovedIsSeq, ElementOfSeq

\* A station is taken in, or there is none.
LEMMA StationArrivesKeeps == IInv /\ StationArrives => IInv'
<1> SUFFICES ASSUME IInv, StationArrives PROVE IInv'
  OBVIOUS
<1>1. SourceOK /\ FadeOK /\ ModesOK /\ CountOK /\ Placed
  BY DEF IInv
<1>2. PICK n \in DOMAIN stations : \E station \in Stations \cup {<<>>} :
        LET r == stations[n].read IN
        /\ stations' = RemoveAt(stations, n)
        /\ \/ /\ station # <<>> /\ Len(r.queue) + Len(station) <= MaxQueue
              /\ queue' = r.queue \o station /\ unshuffled' = <<>>
              /\ Becomes(Head(station), Len(r.queue), FALSE)
              /\ adrift' = (adrift \/ Moved(r))
              /\ UNCHANGED <<manual, fade>>
           \/ /\ station = <<>>
              /\ playingManual' = (playingManual /\ ~stations[n].auto)
              /\ adrift' = (adrift \/ Moved(r) \/ (stations[n].auto /\ playingManual))
              /\ silent' = FALSE /\ skip' = NoSkip
              /\ UNCHANGED <<queue, manual, unshuffled, index, current, loads>>
        /\ UNCHANGED <<modes, mixes, ops>>
  BY Zenon DEF StationArrives
<1> DEFINE r == stations[n].read
<1>3. PICK station \in Stations \cup {<<>>} :
        /\ stations' = RemoveAt(stations, n)
        /\ \/ /\ station # <<>>
              /\ queue' = r.queue \o station /\ unshuffled' = <<>>
              /\ Becomes(Head(station), Len(r.queue), FALSE)
              /\ adrift' = (adrift \/ Moved(r))
              /\ UNCHANGED <<manual, fade>>
           \/ /\ station = <<>>
              /\ playingManual' = (playingManual /\ ~stations[n].auto)
              /\ adrift' = (adrift \/ Moved(r) \/ (stations[n].auto /\ playingManual))
              /\ silent' = FALSE /\ skip' = NoSkip
              /\ UNCHANGED <<queue, manual, unshuffled, index, current, loads>>
        /\ UNCHANGED <<modes, mixes, ops>>
  BY <1>2, Zenon
<1>4. stations' \in Seq([read : Reads, auto : BOOLEAN])
      /\ stations[n] \in [read : Reads, auto : BOOLEAN]
  BY <1>1, <1>3, Answered DEF SourceOK
<1>5. r \in Reads /\ stations[n].auto \in BOOLEAN
  BY <1>4
<1> HIDE DEF r
<1>6. ModesOK'
  BY <1>1, <1>3, ModesStay
<1>7. CASE /\ station # <<>>
           /\ queue' = r.queue \o station /\ unshuffled' = <<>>
           /\ Becomes(Head(station), Len(r.queue), FALSE)
           /\ adrift' = (adrift \/ Moved(r))
           /\ UNCHANGED <<manual, fade>>
  <2>1. station \in Seq(Tracks) /\ r.queue \in Seq(Tracks) /\ Len(r.queue) \in Nat
        /\ Len(station) \in Nat /\ Len(station) > 0
    BY <1>5, <1>7, QueueAssumption, LenProperties, EmptySeq DEF Reads
  <2>2. Head(station) = station[1] /\ Head(station) \in Tracks
    BY <2>1
  <2>3. /\ queue' \in Seq(Tracks) /\ Len(queue') = Len(r.queue) + Len(station)
        /\ queue'[Len(r.queue) + 1] = station[1]
    BY <1>7, <2>1, ConcatProperties
  <2>4. index' \in Nat /\ playingManual' \in BOOLEAN /\ current' \in Tracks \cup {None}
        /\ loads' \subseteq Loads
    BY <1>1, <1>7, <2>1, <2>2, BecomesTyped
  <2>5. unshuffled' \in Seq(Tracks)
    BY <1>7, EmptySeq
  <2>6. SourceOK'
    BY <1>1, <1>4, <1>7, <2>3, <2>4, <2>5, Zenon DEF SourceOK
  <2>7. FadeOK'
    BY <1>1, <1>7 DEF FadeOK, Skips, fade
  <2>8. CountOK'
    BY <1>1, <1>3, <1>7, Zenon DEF CountOK, Moved
  <2>9. Placed'
    <3>1. index' = Len(r.queue) /\ playingManual' = FALSE /\ current' = station[1]
      BY <1>7, <2>2 DEF Becomes
    <3>2. InRange(queue', index') /\ current' = At(queue', index')
      BY <2>1, <2>3, <3>1 DEF InRange, At
    <3>3. current' # None
      BY <2>2, <3>1, QueueAssumption DEF None
    <3>4. queue' # <<>>
      BY <3>2 DEF InRange
    <3> QED
      BY <3>2, <3>3, <3>4, Zenon DEF Placed, Sits
  <2> QED
    BY <1>6, <2>6, <2>7, <2>8, <2>9 DEF IInv
<1>8. CASE /\ playingManual' = (playingManual /\ ~stations[n].auto)
           /\ adrift' = (adrift \/ Moved(r) \/ (stations[n].auto /\ playingManual))
           /\ silent' = FALSE /\ skip' = NoSkip
           /\ UNCHANGED <<queue, manual, unshuffled, index, current, loads>>
  <2>1. SourceOK'
    BY <1>1, <1>4, <1>8 DEF SourceOK
  <2>2. FadeOK'
    BY <1>8 DEF FadeOK, Skips
  <2>3. CountOK'
    BY <1>1, <1>3, <1>5, <1>8 DEF CountOK, Moved
  <2>4. Placed'
    <3>1. ASSUME ~adrift' PROVE Sits(queue', index', current', playingManual', mixes')
      <4>1. ~adrift /\ (playingManual' <=> playingManual)
        BY <1>1, <1>5, <1>8, <3>1, Zenon DEF SourceOK, CountOK
      <4>2. UNCHANGED <<queue, index, current, mixes>>
        BY <1>3, <1>8
      <4>3. Sits(queue, index, current, playingManual, mixes)
        BY <1>1, <4>1 DEF Placed
      <4> QED
        BY <4>1, <4>2, <4>3, Zenon DEF Sits, InRange, At
    <3> QED
      BY <3>1, Zenon DEF Placed
  <2> QED
    BY <1>6, <2>1, <2>2, <2>3, <2>4 DEF IInv
<1> QED
  BY <1>3, <1>7, <1>8

-----------------------------------------------------------------------------
(* Sources *)

\* A source is played from one of its tracks.
LEMMA PlayFromKeeps ==
  ASSUME IInv, NEW list \in Seq(Tracks), NEW at \in 0..Len(list) - 1, PlayFrom(list, at),
         Act, adrift' = FALSE
  PROVE  IInv'
<1>1. SourceOK /\ FadeOK /\ ModesOK /\ CountOK
  BY DEF IInv
<1>2. Len(list) \in Nat /\ InRange(list, at) /\ at \in Nat
  BY LenProperties DEF InRange
<1>3. At(list, at) \in Tracks
  BY <1>2, ElementOfSeq DEF InRange, At
<1>4. queue' \in Seq(Tracks) /\ InRange(queue', index') /\ At(queue', index') = At(list, at)
      /\ index' \in Nat
  <2>1. CASE shuffle
    <3>1. queue' \in Shuffled(list, at) /\ index' = 0
      BY <2>1 DEF PlayFrom
    <3> QED
      BY <1>2, <3>1, ShuffledKeeps
  <2>2. CASE ~shuffle
    <3>1. queue' = list /\ index' = at
      BY <2>2 DEF PlayFrom
    <3> QED
      BY <1>2, <3>1
  <2> QED
    BY <2>1, <2>2
<1>5. /\ playingManual' = FALSE /\ current' = At(list, at)
      /\ loads' = loads \cup {[track |-> At(list, at), mix |-> TRUE]}
      /\ UNCHANGED <<manual, modes, fade, stations, mixes>>
  BY DEF PlayFrom
<1>6. unshuffled' \in Seq(Tracks)
  BY EmptySeq DEF PlayFrom
<1>7. SourceOK'
  <2>1. [track |-> At(list, at), mix |-> TRUE] \in Loads
    BY <1>3 DEF Loads
  <2>2. loads' \subseteq Loads
    BY <1>1, <1>5, <2>1, Zenon DEF SourceOK
  <2> QED
    BY <1>1, <1>3, <1>4, <1>5, <1>6, <2>2, Zenon DEF SourceOK
<1>8. FadeOK'
  BY <1>1, <1>5 DEF FadeOK, Skips, fade
<1>9. ModesOK'
  BY <1>1, <1>5, ModesStay
<1>10. CountOK'
  BY <1>1, Counted
<1>11. Placed'
  <2>1. current' # None
    BY <1>3, <1>5, QueueAssumption DEF None
  <2>2. queue' # <<>>
    BY <1>4 DEF InRange
  <2> QED
    BY <1>4, <1>5, <2>1, <2>2 DEF Placed, Sits
<1> QED
  BY <1>7, <1>8, <1>9, <1>10, <1>11 DEF IInv

\* A list the listener opens.
LEMMA PlayKeeps == IInv /\ Play => IInv'
<1> SUFFICES ASSUME IInv, Play PROVE IInv'
  OBVIOUS
<1>1. PICK list \in Playlists : \E at \in 0..Len(list) - 1 : PlayFrom(list, at)
  BY DEF Play
<1>2. list \in Seq(Tracks)
  BY QueueAssumption
<1> QED
  BY <1>1, <1>2, PlayFromKeeps DEF Play

\* A row of the queue sheet.
LEMMA PlayRowKeeps == IInv /\ PlayRow => IInv'
<1> SUFFICES ASSUME IInv, PlayRow PROVE IInv'
  OBVIOUS
<1>1. queue \in Seq(Tracks) /\ index \in Nat
  BY DEF IInv, SourceOK
<1>2. PICK at \in index + 1..Len(queue) - 1 : PlayFrom(queue, at)
  BY DEF PlayRow
<1>3. at \in 0..Len(queue) - 1
  BY <1>1
<1> QED
  BY <1>1, <1>2, <1>3, PlayFromKeeps DEF PlayRow

\* A queue that is followed.
LEMMA FollowKeeps == IInv /\ Follow => IInv'
<1> SUFFICES ASSUME IInv, Follow PROVE IInv'
  OBVIOUS
<1>1. SourceOK /\ FadeOK /\ ModesOK /\ CountOK /\ Act
  BY DEF IInv, Follow
<1>a. PICK list \in Playlists : \E at \in 0..Len(list) - 1 :
        /\ queue' = list /\ index' = at /\ current' = At(list, at)
        /\ loads' = loads \cup {[track |-> At(list, at), mix |-> FALSE]}
  BY DEF Follow
<1>2. PICK at \in 0..Len(list) - 1 :
        /\ queue' = list /\ index' = at /\ current' = At(list, at)
        /\ loads' = loads \cup {[track |-> At(list, at), mix |-> FALSE]}
  BY <1>a
<1>3. /\ manual' = <<>> /\ unshuffled' = <<>> /\ playingManual' = FALSE
      /\ shuffle' = FALSE /\ adrift' = FALSE
      /\ UNCHANGED <<smart, smartIds, repeat, autoplay, fade, stations, mixes>>
  BY DEF Follow
<1>4. list \in Seq(Tracks) /\ Len(list) \in Nat
  BY QueueAssumption, LenProperties
<1>5. at \in Nat /\ InRange(list, at) /\ At(list, at) \in Tracks
  BY <1>4, ElementOfSeq DEF InRange, At
<1>6. SourceOK'
  <2>1. [track |-> At(list, at), mix |-> FALSE] \in Loads
    BY <1>5 DEF Loads
  <2>2. loads' \subseteq Loads
    BY <1>1, <1>2, <2>1, Zenon DEF SourceOK
  <2>3. <<>> \in Seq(Tracks)
    BY EmptySeq
  <2> QED
    BY <1>1, <1>2, <1>3, <1>4, <1>5, <2>2, <2>3 DEF SourceOK
<1>7. FadeOK' /\ ModesOK'
  BY <1>1, <1>3 DEF FadeOK, Skips, fade, ModesOK
<1>8. CountOK'
  BY <1>1, <1>3, Counted
<1>9. Placed'
  <2>1. current' # None /\ queue' # <<>>
    BY <1>2, <1>5, QueueAssumption DEF None, InRange
  <2> QED
    BY <1>2, <1>3, <1>5, <2>1 DEF Placed, Sits
<1> QED
  BY <1>6, <1>7, <1>8, <1>9 DEF IInv

-----------------------------------------------------------------------------
(* Shuffle and Smart Shuffle *)

\* Shuffle turned on keeps the track that plays at the front.
LEMMA ShuffleOnKeeps == IInv /\ ShuffleOn => IInv'
<1> SUFFICES ASSUME IInv, ShuffleOn PROVE IInv'
  OBVIOUS
<1>1. SourceOK /\ FadeOK /\ ModesOK /\ CountOK /\ Placed /\ Act
  BY DEF IInv, ShuffleOn
<1>2. /\ shuffle' = TRUE
      /\ UNCHANGED <<manual, playingManual, current, smart, smartIds, repeat, autoplay, fade,
                     stations, mixes, loads, adrift>>
  BY DEF ShuffleOn
<1>3. ModesOK' /\ FadeOK'
  BY <1>1, <1>2 DEF ModesOK, FadeOK, Skips, fade
<1>4. CountOK'
  BY <1>1, <1>2, Counted DEF CountOK
<1>5. CASE /\ Len(queue) > 1
           /\ \E order \in Shuffled(queue, index) : queue' = order
           /\ unshuffled' = queue /\ index' = 0
  <2>1. queue \in Seq(Tracks) /\ index \in Int
    BY <1>1 DEF SourceOK
  <2>2. queue' \in Seq(Tracks)
        /\ (InRange(queue, index) => InRange(queue', 0) /\ At(queue', 0) = At(queue, index))
    BY <1>5, <2>1, ShuffledKeeps
  <2>3. SourceOK'
    BY <1>1, <1>2, <1>5, <2>1, <2>2 DEF SourceOK
  <2>4. Placed'
    <3>1. ASSUME ~adrift' PROVE Sits(queue', index', current', playingManual', mixes')
      <4>1. Sits(queue, index, current, playingManual, mixes)
        BY <1>1, <1>2, <3>1 DEF Placed
      <4>2. queue # <<>>
        BY <1>5
      <4>3. current # None /\ InRange(queue, index)
        BY <4>1, <4>2, Zenon DEF Sits
      <4>4. queue' # <<>>
        BY <2>2, <4>3 DEF InRange
      <4> QED
        BY <1>2, <1>5, <2>2, <4>1, <4>3, <4>4, Zenon DEF Sits
    <3> QED
      BY <3>1, Zenon DEF Placed
  <2> QED
    BY <1>3, <1>4, <2>3, <2>4 DEF IInv
<1>6. CASE UNCHANGED <<queue, unshuffled, index>>
  <2>1. SourceOK' /\ Placed'
    BY <1>1, <1>2, <1>6 DEF SourceOK, Placed, Sits, InRange, At
  <2> QED
    BY <1>3, <1>4, <2>1 DEF IInv
<1> QED
  BY <1>5, <1>6 DEF ShuffleOn

\* Shuffle turned off finds the track that plays in the original order.
LEMMA ShuffleOffKeeps == IInv /\ ShuffleOff => IInv'
<1> SUFFICES ASSUME IInv, ShuffleOff PROVE IInv'
  OBVIOUS
<1>1. SourceOK /\ FadeOK /\ ModesOK /\ CountOK /\ Placed /\ Act
  BY DEF IInv, ShuffleOff
<1>2. /\ shuffle' = FALSE /\ smart' = FALSE /\ smartIds' = {}
      /\ UNCHANGED <<manual, playingManual, current, repeat, autoplay, fade, stations, mixes,
                     loads>>
  BY DEF ShuffleOff, SmartOff
<1>3. ModesOK' /\ FadeOK'
  BY <1>1, <1>2 DEF ModesOK, FadeOK, Skips, fade
<1>4. CASE unshuffled # <<>>
  <2>1. /\ queue' = unshuffled /\ unshuffled' = <<>> /\ index' = RestoredAt
        /\ adrift' = (adrift \/ ~Contains(unshuffled, current))
    BY <1>4 DEF ShuffleOff
  <2>2. unshuffled \in Seq(Tracks)
    BY <1>1 DEF SourceOK
  <2>3. /\ RestoredAt \in Nat /\ InRange(unshuffled, RestoredAt)
        /\ Contains(unshuffled, current) => At(unshuffled, RestoredAt) = current
    BY <1>4, <2>2, FoundAt DEF RestoredAt
  <2>4. SourceOK'
    <3>1. unshuffled' \in Seq(Tracks)
      BY <2>1, EmptySeq
    <3> QED
      BY <1>1, <1>2, <2>1, <2>2, <2>3, <3>1, Zenon DEF SourceOK
  <2>5. adrift' \in BOOLEAN
    BY <1>1, <2>1, Zenon DEF CountOK
  <2>6. CountOK'
    BY <1>1, <2>5, Counted
  <2>7. Placed'
    <3>1. ASSUME ~adrift' PROVE Sits(queue', index', current', playingManual', mixes')
      <4>1. ~adrift /\ Contains(unshuffled, current)
        BY <2>1, <3>1, Zenon
      <4>2. InRange(queue', index') /\ At(queue', index') = current
        BY <2>1, <2>3, <4>1
      <4>3. current \in Tracks
        <5>1. \A k \in 1..Len(unshuffled) : unshuffled[k] \in Tracks
          BY <2>2, ElementOfSeq
        <5> QED
          BY <4>1, <5>1, Zenon DEF Contains
      <4>4. current' # None /\ current' = current
        BY <1>2, <4>3, QueueAssumption DEF None
      <4>5. queue' # <<>>
        BY <1>4, <2>1
      <4> QED
        BY <4>2, <4>4, <4>5, Zenon DEF Sits
    <3> QED
      BY <3>1, Zenon DEF Placed
  <2> QED
    BY <1>3, <2>4, <2>6, <2>7 DEF IInv
<1>5. CASE unshuffled = <<>>
  <2>1. UNCHANGED <<queue, unshuffled, index, adrift>>
    BY <1>5 DEF ShuffleOff
  <2>2. SourceOK' /\ Placed'
    BY <1>1, <1>2, <2>1 DEF SourceOK, Placed, Sits, InRange, At
  <2>3. CountOK'
    BY <1>1, <2>1, Counted DEF CountOK
  <2> QED
    BY <1>3, <2>2, <2>3 DEF IInv
<1> QED
  BY <1>4, <1>5

\* What Smart Shuffle leaves when it takes out what it added.
LEMMA StrippedIsSeq ==
  ASSUME SourceOK
  PROVE  /\ Stripped \in Seq(Tracks)
         /\ InRange(queue, index) => Contains(Stripped, At(queue, index))
         /\ smartIds = {} => Stripped = queue
<1> DEFINE K == {i \in DOMAIN queue : i <= index + 1 \/ queue[i] \notin smartIds}
<1>1. queue \in Seq(Tracks) /\ DOMAIN queue = 1..Len(queue) /\ Len(queue) \in Nat
  BY LenProperties DEF SourceOK
<1>2. Stripped = Sub(queue, K)
  BY DEF Stripped, Filter
<1>3. K \in SUBSET (DOMAIN queue)
  OBVIOUS
<1>4. ASSUME InRange(queue, index) PROVE index + 1 \in K
  BY <1>1, <1>4 DEF InRange, SourceOK
<1>5. ASSUME smartIds = {} PROVE K = DOMAIN queue
  BY <1>5
<1> HIDE DEF K
<1>6. Stripped \in Seq(Tracks) /\ \A i \in K : Contains(Stripped, queue[i])
  BY <1>1, <1>2, <1>3, SubIsSeq
<1> QED
  BY <1>1, <1>2, <1>4, <1>5, <1>6, SubOfAll DEF At

\* What is left of the queue when it is stripped has the index in its place.
LEMMA StrippedSits ==
  ASSUME IInv, ~adrift, NEW waiting, Stripped = <<>> => waiting = mixes
  PROVE  Sits(Stripped, StrippedAt, current, playingManual, waiting)
<1>1. SourceOK /\ Placed
  BY DEF IInv
<1>2. Sits(queue, index, current, playingManual, mixes)
  BY <1>1 DEF Placed
<1>3. /\ Stripped \in Seq(Tracks)
      /\ InRange(queue, index) => Contains(Stripped, At(queue, index))
      /\ smartIds = {} => Stripped = queue
  BY <1>1, StrippedIsSeq
<1> DEFINE at == AtLeast0(IndexOf(Stripped, current))
<1>4. /\ Stripped # <<>> => InRange(Stripped, at)
      /\ Contains(Stripped, current) => InRange(Stripped, at) /\ At(Stripped, at) = current
  BY <1>3, FoundAt
<1>5. Stripped = <<>> => at = 0
  <2>1. ASSUME Stripped = <<>> PROVE ~Contains(Stripped, current)
    BY <2>1 DEF Contains
  <2> QED
    BY <2>1 DEF IndexOf, AtLeast0
<1> HIDE DEF at
<1>6. StrippedAt = IF smartIds = {} THEN index ELSE at
  BY DEF StrippedAt, at
<1>7. CASE queue = <<>>
  <2>1. Stripped = queue
    <3> DEFINE K == {i \in DOMAIN queue : i <= index + 1 \/ queue[i] \notin smartIds}
    <3>1. K = {} /\ K = DOMAIN queue
      BY <1>7
    <3>2. Stripped = Sub(queue, K)
      BY DEF Stripped, Filter
    <3> QED
      BY <1>1, <1>7, <3>1, <3>2, SubOfAll DEF SourceOK
  <2>2. index = 0 /\ mixes = <<>>
    BY <1>2, <1>7, Zenon DEF Sits
  <2>3. StrippedAt = index /\ waiting = mixes
    BY <1>5, <1>6, <1>7, <2>1, <2>2
  <2> QED
    BY <1>2, <2>1, <2>3, Zenon
<1>8. CASE queue # <<>>
  <2>1. current # None /\ InRange(queue, index) /\ (~playingManual => current = At(queue, index))
    BY <1>2, <1>8, Zenon DEF Sits
  <2>2. Contains(Stripped, At(queue, index))
    BY <1>3, <2>1
  <2>3. Stripped # <<>>
    BY <2>2 DEF Contains
  <2>4. InRange(Stripped, StrippedAt)
    BY <1>3, <1>4, <1>6, <2>1, <2>3
  <2>5. ~playingManual => current = At(Stripped, StrippedAt)
    BY <1>3, <1>4, <1>6, <2>1, <2>2
  <2> QED
    BY <2>1, <2>3, <2>4, <2>5, Zenon DEF Sits
<1> QED
  BY <1>7, <1>8

\* Smart Shuffle turned on, or asked again.
LEMMA SmartOnKeeps ==
  ASSUME IInv, SmartOn,
         UNCHANGED <<manual, playingManual, current, repeat, autoplay, stations, adrift>>,
         loads' \subseteq Loads
  PROVE  SourceOK' /\ ModesOK' /\ Placed'
<1>1. SourceOK /\ ModesOK
  BY DEF IInv
<1>2. /\ smartIds' = {} /\ smart' = TRUE /\ shuffle' = TRUE
      /\ mixes' = IF Stripped = <<>> THEN mixes ELSE Append(mixes, ToSet(Stripped))
  BY DEF SmartOn
<1>3. Stripped \in Seq(Tracks) /\ (smartIds = {} => Stripped = queue)
  BY <1>1, StrippedIsSeq
<1>4. StrippedAt \in Nat
  <2>1. AtLeast0(IndexOf(Stripped, current)) \in Nat
    BY <1>3, FoundAt
  <2> QED
    BY <1>1, <2>1 DEF StrippedAt, SourceOK
<1>5. ModesOK'
  <2>1. ToSet(Stripped) \in SUBSET Tracks
    BY <1>3, ElementOfSeq DEF ToSet
  <2>2. mixes' \in Seq(SUBSET Tracks)
    BY <1>1, <1>2, <2>1, AppendProperties DEF ModesOK
  <2> QED
    BY <1>1, <1>2, <2>2 DEF ModesOK
<1>6. ASSUME ~adrift' PROVE Sits(Stripped, StrippedAt, current', playingManual', mixes')
  <2>1. ~adrift /\ current' = current /\ playingManual' = playingManual
    BY <1>6
  <2>2. Stripped = <<>> => mixes' = mixes
    BY <1>2
  <2>3. Sits(Stripped, StrippedAt, current, playingManual, mixes')
    BY <2>1, <2>2, StrippedSits
  <2> QED
    BY <2>1, <2>3, Zenon
<1>7. CASE queue' = Stripped /\ index' = StrippedAt /\ unshuffled' = unshuffled
  <2>1. SourceOK'
    BY <1>1, <1>3, <1>4, <1>7 DEF SourceOK
  <2>2. Placed'
    BY <1>6, <1>7, Zenon DEF Placed
  <2> QED
    BY <1>5, <2>1, <2>2
<1>8. CASE /\ queue' \in Shuffled(Stripped, StrippedAt) /\ Len(Stripped) > 1
           /\ unshuffled' = Stripped /\ index' = 0
  <2>1. /\ queue' \in Seq(Tracks)
        /\ InRange(Stripped, StrippedAt)
           => InRange(queue', 0) /\ At(queue', 0) = At(Stripped, StrippedAt)
    BY <1>3, <1>4, <1>8, ShuffledKeeps
  <2>2. SourceOK'
    BY <1>1, <1>3, <1>8, <2>1 DEF SourceOK
  <2>3. ASSUME ~adrift' PROVE Sits(queue', index', current', playingManual', mixes')
    <3>1. Sits(Stripped, StrippedAt, current', playingManual', mixes')
      BY <1>6, <2>3
    <3>2. Stripped # <<>>
      BY <1>8
    <3>3. current' # None /\ InRange(Stripped, StrippedAt)
      BY <3>1, <3>2, Zenon DEF Sits
    <3>4. InRange(queue', index') /\ At(queue', index') = At(Stripped, StrippedAt)
      BY <1>8, <2>1, <3>3
    <3>5. queue' # <<>>
      BY <3>4 DEF InRange
    <3> QED
      BY <3>1, <3>3, <3>4, <3>5, Zenon DEF Sits
  <2>4. Placed'
    BY <2>3, Zenon DEF Placed
  <2> QED
    BY <1>5, <2>2, <2>4
<1> QED
  BY <1>7, <1>8 DEF SmartOn

\* The third position of the shuffle button.
LEMMA TapSmartKeeps == IInv /\ TapSmart => IInv'
<1> SUFFICES ASSUME IInv, TapSmart PROVE IInv'
  OBVIOUS
<1>1. /\ SmartOn /\ Act
      /\ UNCHANGED <<manual, playingManual, current, repeat, autoplay, fade, stations, loads,
                     adrift>>
  BY DEF TapSmart
<1>2. loads' \subseteq Loads
  BY <1>1 DEF IInv, SourceOK
<1>3. SourceOK' /\ ModesOK' /\ Placed'
  BY <1>1, <1>2, SmartOnKeeps
<1>4. FadeOK'
  BY <1>1 DEF IInv, FadeOK, Skips, fade
<1>5. CountOK'
  BY <1>1, Counted DEF IInv, CountOK
<1> QED
  BY <1>3, <1>4, <1>5 DEF IInv

\* A load ends, and Smart Shuffle is asked again.
LEMMA LoadEndsKeeps == IInv /\ LoadEnds => IInv'
<1> SUFFICES ASSUME IInv, LoadEnds PROVE IInv'
  OBVIOUS
<1>1. SourceOK /\ FadeOK /\ ModesOK /\ CountOK /\ Placed
  BY DEF IInv
<1>2. PICK l \in loads :
        /\ loads' = loads \ {l}
        /\ IF l.track = current THEN skip' = NoSkip /\ silent' = FALSE ELSE UNCHANGED fade
        /\ IF l.mix /\ smart THEN SmartOn
           ELSE UNCHANGED <<queue, index, unshuffled, shuffle, smart, smartIds, mixes>>
        /\ UNCHANGED <<manual, playingManual, current, repeat, autoplay, stations, adrift, ops>>
  BY DEF LoadEnds
<1>3. loads' \subseteq Loads
  BY <1>1, <1>2 DEF SourceOK
<1>4. FadeOK'
  <2>1. CASE l.track = current
    BY <1>2, <2>1 DEF FadeOK, Skips
  <2>2. CASE l.track # current
    BY <1>1, <1>2, <2>2 DEF FadeOK, Skips, fade
  <2> QED
    BY <2>1, <2>2
<1>5. CountOK'
  BY <1>1, <1>2 DEF CountOK
<1>6. CASE SmartOn
  BY <1>2, <1>3, <1>4, <1>5, <1>6, SmartOnKeeps DEF IInv
<1>7. CASE UNCHANGED <<queue, index, unshuffled, shuffle, smart, smartIds, mixes>>
  <2>1. SourceOK' /\ ModesOK' /\ Placed'
    BY <1>1, <1>2, <1>3, <1>7 DEF SourceOK, ModesOK, Placed, Sits, InRange, At
  <2> QED
    BY <1>4, <1>5, <2>1 DEF IInv
<1> QED
  BY <1>2, <1>6, <1>7

\* Suggestions are mixed in after the track the index marks.
LEMMA SuggestionsArriveKeeps == IInv /\ SuggestionsArrive => IInv'
<1> SUFFICES ASSUME IInv, SuggestionsArrive PROVE IInv'
  OBVIOUS
<1>1. SourceOK /\ FadeOK /\ ModesOK /\ CountOK /\ Placed
  BY DEF IInv
<1> DEFINE recs(n, found) == Filter(found, LAMBDA i : found[i] \notin mixes[n])
           rest == From(queue, index + 1)
<1>2. PICK n \in DOMAIN mixes : \E found \in Suggested \cup {<<>>} :
        /\ mixes' = RemoveAt(mixes, n)
        /\ IF smart /\ recs(n, found) # <<>>
           THEN /\ queue' = UpTo(queue, index + 1) \o Mixed(rest, recs(n, found))
                /\ smartIds' = Used(rest, recs(n, found))
           ELSE UNCHANGED <<queue, smartIds>>
        /\ UNCHANGED <<manual, unshuffled, playingManual, index, current, shuffle, smart,
                       repeat, autoplay, fade, stations, loads, adrift, ops>>
  BY Zenon DEF SuggestionsArrive
<1>3. PICK found \in Suggested \cup {<<>>} :
        /\ mixes' = RemoveAt(mixes, n)
        /\ IF smart /\ recs(n, found) # <<>>
           THEN /\ queue' = UpTo(queue, index + 1) \o Mixed(rest, recs(n, found))
                /\ smartIds' = Used(rest, recs(n, found))
           ELSE UNCHANGED <<queue, smartIds>>
        /\ UNCHANGED <<manual, unshuffled, playingManual, index, current, shuffle, smart,
                       repeat, autoplay, fade, stations, loads, adrift, ops>>
  BY <1>2, Zenon
<1> DEFINE new == recs(n, found)
<1>4. new \in Seq(Tracks)
  <2>1. found \in Seq(Tracks)
    BY QueueAssumption, EmptySeq
  <2> DEFINE K == {i \in DOMAIN found : found[i] \notin mixes[n]}
  <2>2. new = Sub(found, K)
    BY DEF Filter
  <2>3. K \in SUBSET (DOMAIN found)
    OBVIOUS
  <2> HIDE DEF K, recs
  <2> QED
    BY <2>1, <2>2, <2>3, SubIsSeq
<1> HIDE DEF recs
<1> HIDE DEF new
<1>5. mixes' \in Seq(SUBSET Tracks) /\ mixes # <<>>
  BY <1>1, <1>3, Answered DEF ModesOK
<1>6. queue \in Seq(Tracks) /\ index \in Nat /\ index + 1 \in Nat
  BY <1>1 DEF SourceOK
<1>7. rest \in Seq(Tracks)
  BY <1>6, SliceIsSeq
<1> HIDE DEF rest
<1>8. FadeOK' /\ CountOK'
  BY <1>1, <1>3 DEF FadeOK, Skips, CountOK, fade
<1>9. CASE smart /\ new # <<>>
  <2> DEFINE mixed == Mixed(rest, new)
  <2>1. queue' = UpTo(queue, index + 1) \o mixed /\ smartIds' = Used(rest, new)
    BY <1>3, <1>9 DEF new
  <2>2. mixed \in Seq(Tracks) /\ Len(mixed) > 0
    BY <1>4, <1>7, <1>9, MixedIsSeq
  <2> HIDE DEF mixed
  <2>3. /\ queue' \in Seq(Tracks) /\ Len(queue') = Len(UpTo(queue, index + 1)) + Len(mixed)
        /\ InRange(queue, index) => InRange(queue', index) /\ At(queue', index) = At(queue, index)
    BY <1>6, <2>1, <2>2, PrefixStays
  <2>4. smartIds' \subseteq Tracks
    <3>1. Quota(rest) \in Nat
      BY <1>7, LenProperties DEF Quota
    <3>2. UpTo(new, Quota(rest)) \in Seq(Tracks)
      BY <1>4, <3>1, SliceIsSeq
    <3> QED
      BY <2>1, <3>2, ElementOfSeq DEF Used, ToSet
  <2>5. SourceOK' /\ ModesOK'
    BY <1>1, <1>3, <1>5, <2>3, <2>4 DEF SourceOK, ModesOK
  <2>6. Placed'
    <3>1. ASSUME ~adrift' PROVE Sits(queue', index', current', playingManual', mixes')
      <4>1. Sits(queue, index, current, playingManual, mixes)
        BY <1>1, <1>3, <3>1 DEF Placed
      <4>2. queue # <<>> /\ current # None /\ InRange(queue, index)
        BY <1>5, <4>1, Zenon DEF Sits
      <4>3. InRange(queue', index') /\ At(queue', index') = At(queue, index)
            /\ current' = current /\ playingManual' = playingManual
        BY <1>3, <2>3, <4>2
      <4>4. queue' # <<>>
        BY <4>3 DEF InRange
      <4> QED
        BY <4>1, <4>2, <4>3, <4>4, Zenon DEF Sits
    <3> QED
      BY <3>1, Zenon DEF Placed
  <2> QED
    BY <1>8, <2>5, <2>6 DEF IInv
<1>10. CASE ~(smart /\ new # <<>>)
  <2>1. UNCHANGED <<queue, smartIds>>
    BY <1>3, <1>10 DEF new
  <2>2. SourceOK' /\ ModesOK'
    BY <1>1, <1>3, <1>5, <2>1 DEF SourceOK, ModesOK
  <2>3. Placed'
    <3>1. ASSUME ~adrift' PROVE Sits(queue', index', current', playingManual', mixes')
      <4>1. Sits(queue, index, current, playingManual, mixes)
        BY <1>1, <1>3, <3>1 DEF Placed
      <4>2. queue # <<>>
        BY <1>5, <4>1, Zenon DEF Sits
      <4>3. UNCHANGED <<queue, index, current, playingManual>>
        BY <1>3, <2>1
      <4> QED
        BY <4>1, <4>2, <4>3, Zenon DEF Sits, InRange, At
    <3> QED
      BY <3>1, Zenon DEF Placed
  <2> QED
    BY <1>8, <2>2, <2>3 DEF IInv
<1> QED
  BY <1>9, <1>10

-----------------------------------------------------------------------------
(* The queue sheet and the controls *)

\* What the queue sheet does to the queues keeps the rest.
LEMMA SheetKeeps ==
  ASSUME IInv, Act, Sheet, manual' \in Seq(Tracks), queue' \in Seq(Tracks), index' = index,
         queue' = queue \/ (InRange(queue, index) /\ InRange(queue', index)
                             /\ At(queue', index) = At(queue, index))
  PROVE  IInv'
<1>1. SourceOK /\ FadeOK /\ ModesOK /\ CountOK /\ Placed
  BY DEF IInv
<1>2. /\ UNCHANGED <<unshuffled, playingManual, current, fade, stations, mixes, loads, adrift>>
      /\ UNCHANGED <<modes, mixes>>
  BY DEF Sheet
<1>3. SourceOK'
  BY <1>1, <1>2 DEF SourceOK
<1>4. FadeOK'
  BY <1>1, <1>2 DEF FadeOK, Skips, fade
<1>5. ModesOK'
  BY <1>1, <1>2, ModesStay
<1>6. CountOK'
  BY <1>1, <1>2, Counted DEF CountOK
<1>7. Placed'
  <2>1. CASE queue' = queue
    BY <1>1, <1>2, <2>1 DEF Placed, Sits, InRange, At
  <2>2. CASE InRange(queue, index) /\ InRange(queue', index)
             /\ At(queue', index) = At(queue, index)
    <3>1. queue # <<>> /\ queue' # <<>>
      BY <2>2 DEF InRange
    <3>2. UNCHANGED <<current, playingManual, index, adrift>>
      BY <1>2
    <3> QED
      BY <1>1, <2>2, <3>1, <3>2, Zenon DEF Placed, Sits
  <2> QED
    BY <2>1, <2>2
<1> QED
  BY <1>3, <1>4, <1>5, <1>6, <1>7 DEF IInv

\* A track queued by hand, at the front or at the end.
LEMMA EnqueueKeeps == IInv /\ Enqueue => IInv'
<1> SUFFICES ASSUME IInv, Enqueue PROVE IInv'
  OBVIOUS
<1>1. queue \in Seq(Tracks) /\ manual \in Seq(Tracks)
  BY DEF IInv, SourceOK
<1>2. PICK t \in Tracks : manual' = <<t>> \o manual \/ manual' = Append(manual, t)
  BY DEF Enqueue
<1>3. manual' \in Seq(Tracks)
  <2>1. <<t>> \in Seq(Tracks)
    OBVIOUS
  <2> QED
    BY <1>1, <1>2, <2>1, ConcatProperties, AppendProperties
<1> QED
  BY <1>1, <1>3, SheetKeeps DEF Enqueue

\* A row taken out of the manual queue.
LEMMA RemoveManualKeeps == IInv /\ RemoveManual => IInv'
<1> SUFFICES ASSUME IInv, RemoveManual PROVE IInv'
  OBVIOUS
<1>1. queue \in Seq(Tracks) /\ manual \in Seq(Tracks)
  BY DEF IInv, SourceOK
<1>2. manual' \in Seq(Tracks)
  BY <1>1, Answered DEF RemoveManual
<1> QED
  BY <1>1, <1>2, SheetKeeps DEF RemoveManual

\* A row of what follows taken out of the source.
LEMMA RemoveFromQueueKeeps == IInv /\ RemoveFromQueue => IInv'
<1> SUFFICES ASSUME IInv, RemoveFromQueue PROVE IInv'
  OBVIOUS
<1>1. queue \in Seq(Tracks) /\ manual \in Seq(Tracks) /\ Len(queue) \in Nat /\ index \in Nat
  BY LenProperties DEF IInv, SourceOK
<1>2. PICK i \in index + 2..Len(queue) : queue' = RemoveAt(queue, i)
  BY DEF RemoveFromQueue
<1>3. i \in 1..Len(queue)
  BY <1>1
<1>4. /\ queue' \in Seq(Tracks) /\ Len(queue') = Len(queue) - 1
      /\ \A k \in 1..i - 1 : queue'[k] = queue[k]
  BY <1>1, <1>2, <1>3, RemovedIsSeq
<1>5. InRange(queue, index) /\ InRange(queue', index) /\ At(queue', index) = At(queue, index)
  <2>1. index + 1 \in 1..i - 1 /\ i <= Len(queue)
    BY <1>1, <1>3
  <2>2. queue'[index + 1] = queue[index + 1]
    BY <1>4, <2>1
  <2>3. index \in 0..Len(queue) - 2
    BY <1>1, <2>1
  <2>4. index \in 0..Len(queue) - 1 /\ index \in 0..Len(queue') - 1
    BY <1>1, <1>4, <2>3
  <2> QED
    BY <2>2, <2>4 DEF InRange, At
<1> QED
  BY <1>1, <1>4, <1>5, SheetKeeps DEF RemoveFromQueue

\* The manual queue in another order.
LEMMA ReorderManualKeeps == IInv /\ ReorderManual => IInv'
<1> SUFFICES ASSUME IInv, ReorderManual PROVE IInv'
  OBVIOUS
<1>1. queue \in Seq(Tracks) /\ manual \in Seq(Tracks)
  BY DEF IInv, SourceOK
<1>2. manual' \in Seq(Tracks)
  BY <1>1, OrderIsSeq DEF ReorderManual
<1> QED
  BY <1>1, <1>2, SheetKeeps DEF ReorderManual

\* What follows in the source in another order.
LEMMA ReorderRestKeeps == IInv /\ ReorderRest => IInv'
<1> SUFFICES ASSUME IInv, ReorderRest PROVE IInv'
  OBVIOUS
<1> DEFINE rest == From(queue, index + 1)
<1>1. /\ queue \in Seq(Tracks) /\ manual \in Seq(Tracks) /\ Len(queue) \in Nat
      /\ index \in Nat /\ index + 1 \in Nat
  BY LenProperties DEF IInv, SourceOK
<1>2. PICK order \in Orders(rest) : queue' = UpTo(queue, index + 1) \o order
  BY DEF ReorderRest
<1>3. rest \in Seq(Tracks)
  BY <1>1, SliceIsSeq
<1>4. order \in Seq(Tracks) /\ Len(order) = Len(rest)
  <2> HIDE DEF rest
  <2> QED
    BY <1>3, OrderIsSeq
<1>5. /\ queue' \in Seq(Tracks)
      /\ InRange(queue, index) => InRange(queue', index) /\ At(queue', index) = At(queue, index)
  BY <1>1, <1>2, <1>4, PrefixStays
<1>6. CASE InRange(queue, index)
  BY <1>1, <1>5, <1>6, SheetKeeps DEF ReorderRest
<1>7. CASE ~InRange(queue, index)
  <2>1. index >= Len(queue)
    BY <1>1, <1>7 DEF InRange
  <2>2. UpTo(queue, index + 1) = queue
    BY <1>1, <2>1, SubSeqFull DEF UpTo
  <2>3. rest = <<>>
    BY <1>1, <2>1, SubSeqEmpty DEF From
  <2>4. order = <<>>
    BY <1>4, <2>3, EmptySeq
  <2>5. queue' = queue
    BY <1>1, <1>2, <2>2, <2>4, ConcatEmptySeq
  <2> QED
    BY <1>1, <2>5, SheetKeeps DEF ReorderRest
<1> QED
  BY <1>6, <1>7

\* The repeat button.
LEMMA CycleRepeatKeeps == IInv /\ CycleRepeat => IInv'
<1> SUFFICES ASSUME IInv, CycleRepeat PROVE IInv'
  OBVIOUS
<1>1. SourceOK /\ FadeOK /\ ModesOK /\ CountOK /\ Placed /\ Act
  BY DEF IInv, CycleRepeat
<1>2. /\ UNCHANGED <<source, shuffle, smart, smartIds, autoplay, fade, stations, mixes, loads,
                     adrift>>
      /\ repeat' \in Repeats
  BY Zenon DEF CycleRepeat, Repeats
<1>3. SourceOK' /\ FadeOK'
  BY <1>1, <1>2 DEF SourceOK, FadeOK, Skips, source, fade
<1>4. ModesOK'
  BY <1>1, <1>2 DEF ModesOK
<1>5. CountOK'
  BY <1>1, <1>2, Counted DEF CountOK
<1>6. Placed'
  BY <1>1, <1>2 DEF Placed, Sits, InRange, At, source
<1> QED
  BY <1>3, <1>4, <1>5, <1>6 DEF IInv

\* The volume, or playing on.
LEMMA CancelFadeKeeps == IInv /\ CancelFade => IInv'
<1> SUFFICES ASSUME IInv, CancelFade PROVE IInv'
  OBVIOUS
<1>1. SourceOK /\ FadeOK /\ ModesOK /\ CountOK /\ Placed /\ Act
  BY DEF IInv, CancelFade
<1>2. /\ skip' = NoSkip /\ silent' = FALSE
      /\ UNCHANGED <<source, modes, stations, mixes, loads, adrift>>
      /\ UNCHANGED <<modes, mixes>>
  BY DEF CancelFade
<1>3. SourceOK'
  BY <1>1, <1>2 DEF SourceOK, source
<1>4. FadeOK'
  BY <1>2 DEF FadeOK, Skips
<1>5. ModesOK'
  BY <1>1, <1>2, ModesStay
<1>6. CountOK'
  BY <1>1, <1>2, Counted DEF CountOK
<1>7. Placed'
  BY <1>1, <1>2 DEF Placed, Sits, InRange, At, source
<1> QED
  BY <1>3, <1>4, <1>5, <1>6, <1>7 DEF IInv

-----------------------------------------------------------------------------
(* The theorems *)

\* Every step keeps the inductive invariant.
LEMMA IInvNext == IInv /\ [Next]_vars => IInv'
<1> SUFFICES ASSUME IInv, [Next]_vars PROVE IInv'
  OBVIOUS
<1>1. CASE Tap
  BY <1>1, PlayKeeps, PlayRowKeeps, FollowKeeps, TapNextKeeps, TapPreviousKeeps, TapManualRowKeeps,
     ShuffleOnKeeps, ShuffleOffKeeps, TapSmartKeeps, CycleRepeatKeeps, CancelFadeKeeps,
     EnqueueKeeps, RemoveManualKeeps, RemoveFromQueueKeeps, ReorderManualKeeps,
     ReorderRestKeeps DEF Tap
<1>2. CASE Ended
  BY <1>2, EndedKeeps
<1>3. CASE FadeEnds
  BY <1>3, FadeEndsKeeps
<1>4. CASE StationArrives
  BY <1>4, StationArrivesKeeps
<1>5. CASE SuggestionsArrive
  BY <1>5, SuggestionsArriveKeeps
<1>6. CASE LoadEnds
  BY <1>6, LoadEndsKeeps
<1>7. CASE UNCHANGED vars
  BY <1>7, IInvStutter
<1> QED
  BY <1>1, <1>2, <1>3, <1>4, <1>5, <1>6, <1>7 DEF Next

\* The inductive invariant of the queues.
LEMMA QueueInductive == Spec => []IInv
<1>1. Init => IInv
  BY IInvInit
<1>2. IInv /\ [Next]_vars => IInv'
  BY IInvNext
<1> QED
  BY <1>1, <1>2, PTL DEF Spec

\* The queues have their types, in every state and for every instance.
THEOREM QueueTyped == Spec => []TypeOK
<1>1. IInv => TypeOK
  BY IInvImplies
<1> QED
  BY <1>1, QueueInductive, PTL

\* index marks the track that plays, or the one the source was interrupted at, through
\* every skip, shuffle, suggestion and edit (player.ts, the comment on the two queues).
THEOREM IndexStays == Spec => []SourceInPlace
<1>1. IInv => SourceInPlace
  BY IInvImplies
<1> QED
  BY <1>1, QueueInductive, PTL

\* What a step may do to the modes.
ModesStep == ModesHold' /\ (SmartAlone' => SmartAlone \/ Follow)

\* Modes: the order before shuffle is remembered only while shuffle is on, suggestions are marked
\* only while Smart Shuffle is on, and Smart Shuffle is left without shuffle by follow() alone:
\* not by a station, a late suggestion, a load that ends or a tap (player.ts setShuffle,
\* setSmartShuffle, follow).
THEOREM ModesAlwaysAgree == Spec => ModesAgree
<1>1. Init => ModesHold
  BY DEF Init, ModesHold
<1>2. ASSUME ModesHold, [Next]_vars PROVE ModesStep
  <2> USE ModesHold
  <2>1. ASSUME NEW list, NEW at, PlayFrom(list, at) PROVE ModesStep
    BY <2>1, Zenon DEF PlayFrom, ModesHold, SmartAlone, ModesStep, modes
  <2>2. CASE Play
    BY <2>1, <2>2, Zenon DEF Play
  <2>3. CASE PlayRow
    BY <2>1, <2>3, Zenon DEF PlayRow
  <2>4. ASSUME NEW r, NEW auto, Goes(r, auto) PROVE unshuffled' = unshuffled
    BY <2>4 DEF Goes, TakeManual, Advance, AskStation, source
  <2>5. ASSUME NEW r, NEW auto, NEW hush, NEW waits, Continue(r, auto, hush, waits)
        PROVE  unshuffled' = unshuffled
    BY <2>4, <2>5, Zenon DEF Continue, TheEnd
  <2>6. ASSUME NEW r, GoBack(r) PROVE unshuffled' = unshuffled
    BY <2>6, Zenon DEF GoBack
  <2>7. ASSUME unshuffled' = unshuffled, UNCHANGED modes PROVE ModesStep
    BY <2>7, Zenon DEF modes, ModesHold, SmartAlone, ModesStep
  <2>8. CASE Ended
    BY <2>5, <2>7, <2>8, Zenon DEF Ended
  <2>9. CASE TapNext
    BY <2>5, <2>7, <2>9, Zenon DEF TapNext, source
  <2>10. CASE TapPrevious
    BY <2>6, <2>7, <2>10, Zenon DEF TapPrevious, source
  <2>11. CASE FadeEnds
    BY <2>5, <2>6, <2>7, <2>11, Zenon DEF FadeEnds
  <2>12. CASE TapManualRow
    BY <2>7, <2>12, Zenon DEF TapManualRow
  <2>13. CASE StationArrives
    <3>1. (unshuffled' = unshuffled \/ unshuffled' = <<>>) /\ UNCHANGED modes
      BY <2>13, Zenon DEF StationArrives
    <3>2. UNCHANGED <<shuffle, smart, smartIds>>
      BY <3>1, Zenon DEF modes
    <3> QED
      BY <3>1, <3>2, Zenon DEF ModesHold, SmartAlone, ModesStep
  <2>14. CASE ShuffleOn
    BY <2>14, Zenon DEF ShuffleOn, ModesHold, SmartAlone, ModesStep
  <2>15. CASE ShuffleOff
    <3>1. unshuffled' = <<>> /\ smart' = FALSE /\ smartIds' = {}
      BY <2>15, Zenon DEF ShuffleOff, SmartOff
    <3> QED
      BY <3>1, Zenon DEF ModesHold, SmartAlone, ModesStep
  <2>16. ASSUME SmartOn PROVE ModesStep
    BY <2>16, Zenon DEF SmartOn, ModesHold, SmartAlone, ModesStep
  <2>17. CASE TapSmart
    BY <2>16, <2>17, Zenon DEF TapSmart
  <2>18. CASE LoadEnds
    <3>1. SmartOn \/ UNCHANGED <<queue, index, unshuffled, shuffle, smart, smartIds, mixes>>
      BY <2>18, Zenon DEF LoadEnds
    <3>2. CASE UNCHANGED <<queue, index, unshuffled, shuffle, smart, smartIds, mixes>>
      BY <3>2, Zenon DEF ModesHold, SmartAlone, ModesStep
    <3> QED
      BY <2>16, <3>1, <3>2, Zenon
  <2>19. CASE SuggestionsArrive
    <3>1. UNCHANGED <<shuffle, smart, unshuffled>> /\ (smart \/ UNCHANGED smartIds)
      BY <2>19, Zenon DEF SuggestionsArrive
    <3> QED
      BY <3>1, Zenon DEF ModesHold, SmartAlone, ModesStep
  <2>20. CASE CycleRepeat
    <3>1. UNCHANGED <<unshuffled, shuffle, smart, smartIds>>
      BY <2>20 DEF CycleRepeat, source
    <3> QED
      BY <3>1, Zenon DEF ModesHold, SmartAlone, ModesStep
  <2>21. CASE CancelFade
    BY <2>7, <2>21, Zenon DEF CancelFade, source
  <2>22. CASE Enqueue \/ RemoveManual \/ RemoveFromQueue \/ ReorderManual \/ ReorderRest
    <3>1. Sheet
      BY <2>22, Zenon DEF Enqueue, RemoveManual, RemoveFromQueue, ReorderManual, ReorderRest
    <3> QED
      BY <2>7, <3>1, Zenon DEF Sheet
  <2>23. CASE UNCHANGED vars
    BY <2>7, <2>23 DEF vars, modes
  <2>24. CASE Follow
    <3>1. unshuffled' = <<>> /\ UNCHANGED <<smart, smartIds>>
      BY <2>24, Zenon DEF Follow
    <3>2. smartIds' # {} => smart'
      BY <3>1 DEF ModesHold
    <3> QED
      BY <2>24, <3>1, <3>2, Zenon DEF ModesHold, ModesStep
  <2> QED
    BY <1>2, <2>24, <2>2, <2>3, <2>8, <2>9, <2>10, <2>11, <2>12, <2>13, <2>14, <2>15, <2>17, <2>18,
       <2>19, <2>20, <2>21, <2>22, <2>23, Zenon DEF Next, Tap
<1>3. ModesHold /\ [Next]_vars => ModesHold' /\ [SmartAlone' => SmartAlone \/ Follow]_vars
  BY <1>2, Zenon DEF ModesStep
<1> QED
  BY <1>1, <1>3, PTL DEF Spec, ModesAgree

\* Without tracks queued by hand the first row is the next track of the source.
LEMMA FirstRow ==
  ASSUME SourceOK, manual = <<>>, Upcoming # <<>>
  PROVE  /\ ~IsLast(Read) /\ InRange(queue, index + 1)
         /\ Head(Upcoming) = At(queue, index + 1)
         /\ Tail(Upcoming) = From(queue, index + 2)
<1>1. queue \in Seq(Tracks) /\ Len(queue) \in Nat /\ index \in Nat
  BY LenProperties DEF SourceOK
<1> DEFINE rest == SubSeq(queue, index + 2, Len(queue))
<1>2. Upcoming = rest
  <2>1. From(queue, index + 1) = rest /\ rest \in Seq(Tracks)
    <3>1. index + 1 + 1 = index + 2
      BY <1>1
    <3>2. From(queue, index + 1) = rest
      BY <3>1 DEF From
    <3> QED
      BY <1>1, <3>2, SliceIsSeq
  <2> QED
    BY <2>1, ConcatEmptySeq DEF Upcoming
<1>3. index + 2 <= Len(queue)
  <2>1. ASSUME Len(queue) < index + 2 PROVE FALSE
    BY <1>1, <1>2, <2>1, SubSeqEmpty
  <2> QED
    BY <1>1, <2>1
<1>4. Head(rest) = queue[index + 2] /\ Tail(rest) = SubSeq(queue, index + 3, Len(queue))
  <2>1. \A k \in index + 2..Len(queue) : queue[k] \in Tracks
    BY <1>1, ElementOfSeq
  <2> QED
    BY <1>1, <1>3, <2>1, HeadTailOfSubSeq
<1>5. index + 1 + 1 = index + 2 /\ index + 2 + 1 = index + 3
  BY <1>1
<1>6. ~IsLast(Read) /\ InRange(queue, index + 1)
  BY <1>1, <1>3 DEF IsLast, Read, InRange
<1> QED
  BY <1>2, <1>4, <1>5, <1>6 DEF At, From

\* What next() does on a store that has not moved plays the first row.
LEMMA GoesToFirstRow ==
  ASSUME SourceOK, NEW auto, NEW hush, NEW waits, Continue(Read, auto, hush, waits),
         Upcoming # <<>>
  PROVE  PlaysFirstRow
<1> DEFINE r == Read
<1>1. r.queue = queue /\ r.manual = manual /\ r.index = index
  BY DEF Read
<1>2. CASE manual # <<>>
  <2>1. TakeManual(r)
    BY <1>1, <1>2 DEF Continue, Goes, TheEnd, Advance, AskStation
  <2>2. /\ current' = Head(manual) /\ manual' = Tail(manual) /\ queue' = queue
        /\ index' = index
    BY <1>1, <2>1 DEF TakeManual, Becomes
  <2> DEFINE rest == From(queue, index + 1)
  <2>3. manual \in Seq(Tracks) /\ rest \in Seq(Tracks)
    BY SliceIsSeq DEF SourceOK
  <2> HIDE DEF rest
  <2>4. Head(manual \o rest) = Head(manual) /\ Tail(manual \o rest) = Tail(manual) \o rest
    BY <1>2, <2>3
  <2>5. Upcoming = manual \o rest /\ Upcoming' = Tail(manual) \o rest
    BY <2>2 DEF Upcoming, rest
  <2> QED
    BY <2>2, <2>4, <2>5 DEF PlaysFirstRow
<1>3. CASE manual = <<>>
  <2>1. /\ ~IsLast(Read) /\ InRange(queue, index + 1)
        /\ Head(Upcoming) = At(queue, index + 1)
        /\ Tail(Upcoming) = From(queue, index + 2)
    BY <1>3, FirstRow
  <2>2. Advance(r)
    BY <1>1, <1>3, <2>1 DEF Continue, Goes, TheEnd, TakeManual, AskStation
  <2>3. /\ index' = index + 1 /\ current' = At(queue, index + 1)
        /\ queue' = queue /\ manual' = <<>>
    BY <1>1, <1>3, <2>1, <2>2 DEF Advance, After, Becomes
  <2>4. Upcoming' = From(queue, index + 2)
    <3>1. index + 1 + 1 = index + 2 /\ index + 2 \in Nat
      BY DEF SourceOK
    <3>2. From(queue, index + 2) \in Seq(Tracks)
      BY <3>1, SliceIsSeq DEF SourceOK
    <3>3. Upcoming' = <<>> \o From(queue, index + 2)
      BY <2>3, <3>1 DEF Upcoming
    <3> QED
      BY <3>2, <3>3, ConcatEmptySeq
  <2> QED
    BY <2>1, <2>3, <2>4 DEF PlaysFirstRow
<1> QED
  BY <1>2, <1>3

\* "What plays next, manual queue first - this is what the queue sheet shows": a skip or the
\* end of a track plays the first row and leaves the others, unless the store moved while
\* the skip was fading out (player.ts upcoming).
THEOREM SheetIsRight == Spec => SheetTellsNext
<1>1. ASSUME IInv, Next, Forward, ~adrift', Upcoming # <<>> PROVE PlaysFirstRow
  <2>1. SourceOK /\ adrift \in BOOLEAN
    BY <1>1 DEF IInv, CountOK
  <2>2. CASE Ended
    <3>1. Continue(Read, TRUE, silent, skip)
      BY <2>2 DEF Ended
    <3> QED
      BY <1>1, <2>1, <3>1, GoesToFirstRow
  <2>3. CASE TapNext /\ silent
    <3>1. Continue(Read, FALSE, TRUE, NoSkip)
      BY <2>3 DEF TapNext
    <3> QED
      BY <1>1, <2>1, <3>1, GoesToFirstRow
  <2>4. CASE FadeEnds /\ skip.op = "next"
    <3>1. Continue(skip.read, FALSE, TRUE, NoSkip)
      BY <2>4 DEF FadeEnds
    <3>2. ~Moved(skip.read)
      BY <1>1, <3>1, Zenon DEF Continue
    <3>3. skip.read = Read
      BY <3>2, Zenon DEF Moved
    <3> QED
      BY <1>1, <2>1, <3>1, <3>3, GoesToFirstRow
  <2> QED
    BY <1>1, <2>2, <2>3, <2>4 DEF Forward
<1>2. IInv /\ [Next]_vars => [Forward /\ ~adrift' /\ Upcoming # <<>> => PlaysFirstRow]_vars
  BY <1>1, Zenon
<1> QED
  BY <1>2, QueueInductive, PTL DEF Spec, SheetTellsNext
=============================================================================
