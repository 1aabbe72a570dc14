-------------------------- MODULE PriceMedianProofs --------------------------
(***************************************************************************)
(* What the median of ingest.rs returns, for every sequence of prices.     *)
(***************************************************************************)
EXTENDS PriceMedian, FiniteSetTheorems, SequenceTheorems,
        TLAPS

\* A nonempty set of naturals has a least element.
LEMMA LeastNatural ==
  ASSUME NEW S \in SUBSET Nat, S # {}
  PROVE  \E m \in S : \A x \in S : m <= x
<1>1. \E m \in S : \A x \in S : ~ (<<x, m>> \in OpToRel(<, Nat))
  BY NatLessThanWellFounded, WFMin
<1>2. ASSUME NEW m \in Nat, NEW x \in Nat, <<x, m>> \notin OpToRel(<, Nat)
      PROVE  m <= x
  <2>1. <<x, m>> \in Nat \X Nat /\ <<x, m>>[1] = x /\ <<x, m>>[2] = m
    OBVIOUS
  <2>2. ~(x < m)
    BY <1>2, <2>1 DEF OpToRel
  <2>3. QED
    BY <2>2
<1>3. QED
  BY <1>1, <1>2

\* The positions of a sequence, and each set of them, are finite.
LEMMA PositionsFinite ==
  ASSUME NEW prices \in Seq(Int), NEW I \in SUBSET DOMAIN prices
  PROVE  /\ IsFiniteSet(I)
         /\ Cardinality(I) \in Nat
         /\ Cardinality(I) <= Len(prices)
<1>1. /\ DOMAIN prices = 1..Len(prices)
      /\ Len(prices) \in Nat
  OBVIOUS
<1>2. /\ IsFiniteSet(DOMAIN prices)
      /\ Cardinality(DOMAIN prices) = Len(prices)
  <2>1. /\ IsFiniteSet(1..Len(prices))
        /\ Cardinality(1..Len(prices)) =
             IF 1 > Len(prices) THEN 0 ELSE Len(prices) - 1 + 1
    BY <1>1, FS_Interval
  <2>2. QED
    BY <1>1, <2>1
<1>3. QED
  BY <1>2, FS_Subset, FS_CardinalityType

\* Among the positions of a nonempty set one holds the largest price.
LEMMA LargestPrice ==
  ASSUME NEW prices \in Seq(Int), NEW I \in SUBSET DOMAIN prices, I # {}
  PROVE  \E i \in I : \A j \in I : prices[j] <= prices[i]
<1> DEFINE UpTo(i) == {j \in I : prices[j] <= prices[i]}
<1> DEFINE Above(i) == Len(prices) - Cardinality(UpTo(i))
<1>1. \A i \in DOMAIN prices : prices[i] \in Int
  OBVIOUS
<1>2. \A i \in I : /\ IsFiniteSet(UpTo(i))
                   /\ Cardinality(UpTo(i)) \in Nat
                   /\ Above(i) \in Nat
  <2> TAKE i \in I
  <2>1. UpTo(i) \in SUBSET DOMAIN prices
    OBVIOUS
  <2>2. /\ IsFiniteSet(UpTo(i))
        /\ Cardinality(UpTo(i)) \in Nat
        /\ Cardinality(UpTo(i)) <= Len(prices)
    BY <2>1, PositionsFinite
  <2>3. Len(prices) \in Nat
    OBVIOUS
  <2> HIDE DEF UpTo
  <2>4. QED
    BY <2>2, <2>3
<1> HIDE DEF Above
<1>3. PICK i \in I : \A j \in I : Above(i) <= Above(j)
  <2>1. {Above(i) : i \in I} \in SUBSET Nat
    BY <1>2
  <2>2. {Above(i) : i \in I} # {}
    OBVIOUS
  <2>3. PICK m \in {Above(i) : i \in I} : \A x \in {Above(i) : i \in I} : m <= x
    BY <2>1, <2>2, LeastNatural
  <2>4. QED
    BY <2>3
<1>4. ASSUME NEW j \in I, prices[j] > prices[i]
      PROVE  FALSE
  <2>1. UpTo(i) \in SUBSET UpTo(j)
    BY <1>1, <1>4
  <2>2. j \in UpTo(j) /\ j \notin UpTo(i)
    BY <1>1, <1>4
  <2> HIDE DEF UpTo
  <2>3. Cardinality(UpTo(i)) < Cardinality(UpTo(j))
    <3>1. /\ IsFiniteSet(UpTo(j))
          /\ Cardinality(UpTo(i)) \in Nat
          /\ Cardinality(UpTo(j)) \in Nat
      BY <1>2
    <3>2. UpTo(i) # UpTo(j)
      BY <2>2
    <3>3. /\ Cardinality(UpTo(i)) <= Cardinality(UpTo(j))
          /\ Cardinality(UpTo(i)) = Cardinality(UpTo(j)) => UpTo(i) = UpTo(j)
      BY <2>1, <3>1, FS_Subset, Zenon
    <3>4. QED
      BY <3>1, <3>2, <3>3
  <2>4. Above(j) < Above(i)
    BY <1>2, <2>3 DEF Above
  <2>5. QED
    BY <1>2, <1>3, <2>4
<1>5. QED
  BY <1>1, <1>3, <1>4

\* Every position of the ascending order is held by a submitted price.
LEMMA RankHolds ==
  ASSUME NEW prices \in Seq(Int), NEW k \in 1..Len(prices)
  PROVE  \E v \in Range(prices) : HasRank(prices, v, k)
<1> DEFINE Count(v) == Cardinality(AtMost(prices, v))
<1> DEFINE Large == {v \in Range(prices) : k <= Count(v)}
<1>1. /\ \A i \in DOMAIN prices : prices[i] \in Int /\ prices[i] \in Range(prices)
      /\ \A v \in Range(prices) : \E i \in DOMAIN prices : v = prices[i]
      /\ Range(prices) \subseteq Int
      /\ DOMAIN prices = 1..Len(prices)
      /\ Len(prices) \in Nat
  BY DEF Range
<1>2. \A v \in Range(prices) :
        /\ AtMost(prices, v) \in SUBSET DOMAIN prices
        /\ Below(prices, v) \in SUBSET DOMAIN prices
  BY DEF AtMost, Below
<1>3. \A v \in Range(prices) :
        /\ IsFiniteSet(AtMost(prices, v))
        /\ Count(v) \in Nat
        /\ Cardinality(Below(prices, v)) \in Nat
        /\ IsFiniteSet(Below(prices, v))
  BY <1>2, PositionsFinite
<1>4. Large # {}
  <2>1. PICK i \in DOMAIN prices :
               \A j \in DOMAIN prices : prices[j] <= prices[i]
    BY <1>1, LargestPrice
  <2>2. AtMost(prices, prices[i]) = 1..Len(prices)
    BY <1>1, <2>1 DEF AtMost
  <2>3. Cardinality(1..Len(prices)) =
          IF 1 > Len(prices) THEN 0 ELSE Len(prices) - 1 + 1
    BY <1>1, FS_Interval
  <2>4. k <= Count(prices[i])
    BY <1>1, <2>2, <2>3
  <2>5. QED
    BY <1>1, <2>4
<1>5. PICK v \in Large : \A w \in Large : Count(v) <= Count(w)
  <2> HIDE DEF Count
  <2>1. {Count(w) : w \in Large} \in SUBSET Nat /\ {Count(w) : w \in Large} # {}
    BY <1>3, <1>4
  <2> HIDE DEF Large
  <2>2. PICK m \in {Count(w) : w \in Large} :
               \A x \in {Count(w) : w \in Large} : m <= x
    BY <2>1, LeastNatural
  <2>3. QED
    BY <2>2
<1>6. Cardinality(Below(prices, v)) < k
  <2> SUFFICES ASSUME k <= Cardinality(Below(prices, v))
               PROVE  FALSE
    BY <1>3
  <2>1. Below(prices, v) # {}
    <3>1. Cardinality({}) = 0
      BY FS_EmptySet
    <3>2. ASSUME Below(prices, v) = {} PROVE FALSE
      BY <3>1, <3>2
    <3>3. QED
      BY <3>2
  <2>2. PICK i \in Below(prices, v) :
               \A j \in Below(prices, v) : prices[j] <= prices[i]
    BY <1>2, <2>1, LargestPrice
  <2> DEFINE w == prices[i]
  <2>3. w \in Range(prices) /\ w < v /\ i \in DOMAIN prices
    BY <1>1, <2>2 DEF Below
  <2>4. Below(prices, v) \in SUBSET AtMost(prices, w)
    BY <2>2 DEF Below, AtMost
  <2>5. Cardinality(Below(prices, v)) <= Count(w)
    BY <1>3, <2>3, <2>4, FS_Subset
  <2>6. w \in Large
    BY <1>3, <2>3, <2>5
  <2>7. PICK j \in DOMAIN prices : prices[j] = v
    BY <1>1
  <2>8. AtMost(prices, w) \in SUBSET AtMost(prices, v)
    <3>1. \A p \in Int : p <= w => p <= v
      BY <1>1, <2>3
    <3>. QED BY <1>1, <3>1 DEF AtMost
  <2>9. j \in AtMost(prices, v) /\ j \notin AtMost(prices, w)
    <3>1. v \in Int /\ w \in Int /\ w < v
      BY <1>1, <2>3
    <3>2. v <= v /\ ~(v <= w)
      BY <3>1
    <3>. QED BY <2>7, <3>2 DEF AtMost
  <2>10. Count(w) < Count(v)
    <3>1. /\ IsFiniteSet(AtMost(prices, v))
          /\ Cardinality(AtMost(prices, w)) \in Nat
          /\ Cardinality(AtMost(prices, v)) \in Nat
      BY <1>3, <2>3
    <3>2. /\ Cardinality(AtMost(prices, w)) <= Cardinality(AtMost(prices, v))
          /\ Cardinality(AtMost(prices, w)) = Cardinality(AtMost(prices, v))
               => AtMost(prices, w) = AtMost(prices, v)
      BY <2>8, <3>1, FS_Subset
    <3>3. AtMost(prices, w) # AtMost(prices, v)
      BY <2>9
    <3>. QED BY <3>1, <3>2, <3>3
  <2>11. QED
    BY <1>3, <1>5, <2>3, <2>6, <2>10
<1>7. QED
  BY <1>5, <1>6 DEF HasRank

\* So the price the code reads at a position of the sorted list is a submitted
\* one, of that rank.
LEMMA SortedPriceRank ==
  ASSUME NEW prices \in Seq(Int), NEW k \in 1..Len(prices)
  PROVE  /\ SortedPrice(prices, k) \in Range(prices)
         /\ SortedPrice(prices, k) \in Int
         /\ HasRank(prices, SortedPrice(prices, k), k)
<1>1. Range(prices) \subseteq Int
  BY DEF Range
<1>2. QED
  BY <1>1, RankHolds DEF SortedPrice

\* The two middle positions exist and come in order.
LEMMA MiddlePrices ==
  ASSUME NEW prices \in Seq(Int), prices # <<>>
  PROVE  /\ LowerMiddle(prices) \in Range(prices)
         /\ UpperMiddle(prices) \in Range(prices)
         /\ LowerMiddle(prices) \in Int
         /\ UpperMiddle(prices) \in Int
         /\ HasRank(prices, LowerMiddle(prices), (Len(prices) + 1) \div 2)
         /\ HasRank(prices, UpperMiddle(prices), (Len(prices) + 2) \div 2)
         /\ LowerMiddle(prices) <= UpperMiddle(prices)
<1> DEFINE n == Len(prices)
<1> DEFINE low == LowerMiddle(prices)
<1> DEFINE high == UpperMiddle(prices)
<1>1. n \in Nat /\ n >= 1
  OBVIOUS
<1> HIDE DEF n
<1>2. (n + 1) \div 2 \in 1..n /\ (n + 2) \div 2 \in 1..n
  BY <1>1
<1>3. /\ low \in Range(prices) /\ low \in Int
      /\ HasRank(prices, low, (n + 1) \div 2)
  BY <1>2, SortedPriceRank DEF LowerMiddle, n
<1>4. /\ high \in Range(prices) /\ high \in Int
      /\ HasRank(prices, high, (n + 2) \div 2)
  BY <1>2, SortedPriceRank DEF UpperMiddle, n
<1>5. low <= high
  <2> HIDE DEF low, high
  <2> SUFFICES ASSUME high < low
               PROVE  FALSE
    BY <1>3, <1>4
  <2>1. \A i \in DOMAIN prices : prices[i] \in Int
    OBVIOUS
  <2>2. AtMost(prices, high) \in SUBSET Below(prices, low)
    BY <1>3, <1>4, <2>1 DEF AtMost, Below
  <2>3. /\ Below(prices, low) \in SUBSET DOMAIN prices
        /\ AtMost(prices, high) \in SUBSET DOMAIN prices
    BY DEF Below, AtMost
  <2>4. /\ IsFiniteSet(Below(prices, low))
        /\ Cardinality(Below(prices, low)) \in Nat
        /\ Cardinality(AtMost(prices, high)) \in Nat
    BY <2>3, PositionsFinite
  <2>5. Cardinality(AtMost(prices, high)) <= Cardinality(Below(prices, low))
    BY <2>2, <2>4, FS_Subset
  <2>6. /\ Cardinality(Below(prices, low)) < (n + 1) \div 2
        /\ (n + 2) \div 2 <= Cardinality(AtMost(prices, high))
    BY <1>3, <1>4 DEF HasRank
  <2>7. QED
    BY <1>1, <2>4, <2>5, <2>6
<1>6. QED
  BY <1>3, <1>4, <1>5 DEF n

\* The median lies between the two middle prices, the average of an even count
\* included.
LEMMA MedianBetween ==
  ASSUME NEW prices \in Seq(Int), prices # <<>>
  PROVE  /\ Median(prices) \in Int
         /\ LowerMiddle(prices) <= Median(prices)
         /\ Median(prices) <= UpperMiddle(prices)
<1> DEFINE low == LowerMiddle(prices)
<1> DEFINE high == UpperMiddle(prices)
<1>1. low \in Int /\ high \in Int /\ low <= high
  BY MiddlePrices
<1>2. Median(prices) = IF Len(prices) % 2 = 1 THEN high ELSE (low + high) \div 2
  BY DEF Median
<1> HIDE DEF low, high
<1>3. low <= (low + high) \div 2 /\ (low + high) \div 2 <= high
  BY <1>1
<1>4. QED
  BY <1>1, <1>2, <1>3 DEF low, high

(***************************************************************************)
(* A median of positive i128 prices is a positive i128 price.              *)
(***************************************************************************)
THEOREM MedianIsPrice ==
  ASSUME NEW prices \in Seq(1..MaxI128), prices # <<>>
  PROVE  Median(prices) \in 1..MaxI128
<1>1. prices \in Seq(Int)
  <2>1. 1..MaxI128 \subseteq Int
    OBVIOUS
  <2>2. QED
    BY <2>1, SeqMonotonic, Zenon
<1>2. Range(prices) \subseteq 1..MaxI128
  <2>1. prices \in [1..Len(prices) -> 1..MaxI128]
    BY LenProperties, Zenon
  <2>2. QED
    BY <2>1 DEF Range
<1>3. /\ LowerMiddle(prices) \in 1..MaxI128
      /\ UpperMiddle(prices) \in 1..MaxI128
  BY <1>1, <1>2, MiddlePrices
<1>4. QED
  BY <1>1, <1>3, MedianBetween, MaxI128Assumption

(***************************************************************************)
(* However the other prices are chosen, the median stays between the       *)
(* prices of any majority of the submissions.                              *)
(***************************************************************************)
THEOREM MajorityBoundsMedian ==
  ASSUME NEW prices \in Seq(Int),
         NEW majority \in SUBSET DOMAIN prices,
         2 * Cardinality(majority) > Len(prices)
  PROVE  /\ \E i \in majority : prices[i] <= Median(prices)
         /\ \E i \in majority : prices[i] >= Median(prices)
<1> DEFINE n == Len(prices)
<1> DEFINE low == LowerMiddle(prices)
<1> DEFINE high == UpperMiddle(prices)
<1>1. /\ n \in Nat
      /\ \A i \in DOMAIN prices : prices[i] \in Int
      /\ Cardinality(majority) \in Nat
      /\ Cardinality(majority) <= n
      /\ IsFiniteSet(majority)
      /\ 2 * Cardinality(majority) > n
  BY PositionsFinite
<1>2. prices # <<>>
  BY <1>1
<1>3. /\ low \in Int /\ high \in Int
      /\ HasRank(prices, low, (n + 1) \div 2)
      /\ HasRank(prices, high, (n + 2) \div 2)
      /\ Median(prices) \in Int
      /\ low <= Median(prices) /\ Median(prices) <= high
  BY <1>2, MiddlePrices, MedianBetween
<1> HIDE DEF n, low, high
<1>4. ASSUME \A i \in majority : ~(prices[i] <= Median(prices))
      PROVE  FALSE
  <2>1. majority \intersect AtMost(prices, low) = {}
    BY <1>1, <1>3, <1>4 DEF AtMost
  <2>2. /\ AtMost(prices, low) \in SUBSET DOMAIN prices
        /\ majority \union AtMost(prices, low) \in SUBSET DOMAIN prices
    BY DEF AtMost
  <2>3. /\ IsFiniteSet(AtMost(prices, low))
        /\ Cardinality(AtMost(prices, low)) \in Nat
        /\ Cardinality(majority \union AtMost(prices, low)) <= n
    BY <2>2, PositionsFinite DEF n
  <2>4. Cardinality(majority) + Cardinality(AtMost(prices, low)) <= n
    <3>1. Cardinality(majority \union AtMost(prices, low)) =
            Cardinality(majority) + Cardinality(AtMost(prices, low))
              - Cardinality(majority \intersect AtMost(prices, low))
      BY <1>1, <2>3, FS_Union
    <3>2. Cardinality(majority \intersect AtMost(prices, low)) = 0
      BY <2>1, FS_EmptySet
    <3>3. QED
      BY <1>1, <2>3, <3>1, <3>2
  <2>5. (n + 1) \div 2 <= Cardinality(AtMost(prices, low))
    BY <1>3 DEF HasRank
  <2>6. QED
    BY <1>1, <2>3, <2>4, <2>5
<1>5. ASSUME \A i \in majority : ~(prices[i] >= Median(prices))
      PROVE  FALSE
  <2>1. majority \in SUBSET Below(prices, high)
    BY <1>1, <1>3, <1>5 DEF Below
  <2>2. Below(prices, high) \in SUBSET DOMAIN prices
    BY DEF Below
  <2>3. /\ IsFiniteSet(Below(prices, high))
        /\ Cardinality(Below(prices, high)) \in Nat
    BY <2>2, PositionsFinite
  <2>4. Cardinality(majority) <= Cardinality(Below(prices, high))
    BY <2>1, <2>3, FS_Subset
  <2>5. Cardinality(Below(prices, high)) < (n + 2) \div 2
    BY <1>3 DEF HasRank
  <2>6. QED
    BY <1>1, <2>3, <2>4, <2>5
<1>6. QED
  BY <1>4, <1>5
=============================================================================
