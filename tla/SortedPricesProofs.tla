------------------------- MODULE SortedPricesProofs -------------------------
(***************************************************************************)
(* The insertion sort and the median of ingest.rs, for any number of       *)
(* submissions: no index is out of bounds, and what is returned is the     *)
(* median that PriceMedian defines.                                        *)
(***************************************************************************)
EXTENDS SortedPrices, PriceMedianProofs

(***************************************************************************)
(* A sequence that is sorted and a rearrangement of another one holds the  *)
(* other one's prices at their ranks.                                      *)
(***************************************************************************)
Rearrangement(f, n) ==
  /\ f \in [1..n -> 1..n]
  /\ \A a, b \in 1..n : f[a] = f[b] => a = b
  /\ \A x \in 1..n : \E a \in 1..n : f[a] = x

Ascending(s) == \A a, b \in 1..Len(s) : a < b => s[a] <= s[b]

\* No two prices have the same rank.
LEMMA RankIsUnique ==
  ASSUME NEW t \in Seq(Int), NEW k \in 1..Len(t),
         NEW v \in Int, HasRank(t, v, k),
         NEW w \in Int, HasRank(t, w, k)
  PROVE  ~(v < w)
<1> SUFFICES ASSUME v < w PROVE FALSE
  OBVIOUS
<1>1. AtMost(t, v) \in SUBSET Below(t, w) /\ Below(t, w) \in SUBSET DOMAIN t
  BY DEF AtMost, Below
<1>2. /\ IsFiniteSet(Below(t, w))
      /\ Cardinality(Below(t, w)) \in Nat
  BY <1>1, PositionsFinite
<1>3. /\ Cardinality(AtMost(t, v)) <= Cardinality(Below(t, w))
      /\ Cardinality(AtMost(t, v)) \in Nat
  BY <1>1, <1>2, FS_Subset, FS_CardinalityType
<1>. QED BY <1>2, <1>3 DEF HasRank

\* The first positions of a rearrangement are as many positions of the other.
LEMMA CountFirst ==
  ASSUME NEW n \in Nat, NEW f, Rearrangement(f, n), NEW k \in 0..n,
         NEW I \in SUBSET (1..n), \A a \in 1..k : f[a] \in I
  PROVE  k <= Cardinality(I)
<1> DEFINE g == [a \in 1..k |-> f[a]]
<1>1. g \in Injection(1..k, I)
  BY DEF Rearrangement, Injection, IsInjective
<1>2. IsFiniteSet(I)
  <2>1. IsFiniteSet(1..n)
    BY FS_Interval
  <2>. QED BY <2>1, FS_Subset
<1>3. Cardinality(1..k) = k
  BY FS_Interval
<1>. QED BY <1>1, <1>2, <1>3, FS_Injection

\* Positions that all come from the first k are at most k.
LEMMA CountAll ==
  ASSUME NEW n \in Nat, NEW f, Rearrangement(f, n), NEW k \in 0..n,
         NEW I \in SUBSET (1..n), \A a \in 1..n : f[a] \in I => a <= k
  PROVE  Cardinality(I) <= k
<1> DEFINE g == [x \in I |-> CHOOSE a \in 1..n : f[a] = x]
<1>1. \A x \in I : g[x] \in 1..n /\ f[g[x]] = x
  BY DEF Rearrangement
<1>2. \A x \in I : g[x] \in 1..k
  BY <1>1
<1>3. g \in [I -> 1..k]
  BY <1>2
<1>4. g \in Injection(I, 1..k)
  BY <1>1, <1>3 DEF Injection, IsInjective
<1>5. IsFiniteSet(1..k) /\ Cardinality(1..k) = k
  BY FS_Interval
<1>. QED BY <1>4, <1>5, FS_Injection

LEMMA SortedHoldsRanks ==
  ASSUME NEW s \in Seq(Int), NEW t \in Seq(Int), Len(s) = Len(t),
         NEW f, Rearrangement(f, Len(s)),
         \A a \in 1..Len(s) : s[a] = t[f[a]],
         Ascending(s),
         NEW k \in 1..Len(s)
  PROVE  SortedPrice(t, k) = s[k]
<1> DEFINE n == Len(s)
<1>1. /\ n \in Nat /\ DOMAIN s = 1..n /\ DOMAIN t = 1..n
      /\ s[k] \in Int
      /\ \A a \in 1..n : f[a] \in 1..n /\ s[a] \in Int
  <2>1. n \in Nat /\ DOMAIN s = 1..n /\ DOMAIN t = 1..n
    OBVIOUS
  <2>2. \A a \in 1..n : s[a] \in Int
    OBVIOUS
  <2>3. \A a \in 1..n : f[a] \in 1..n
    BY DEF Rearrangement
  <2>. QED BY <2>1, <2>2, <2>3
<1>2. Cardinality(AtMost(t, s[k])) >= k
  <2>1. AtMost(t, s[k]) \in SUBSET (1..n)
    BY <1>1 DEF AtMost
  <2>2. \A a \in 1..k : f[a] \in AtMost(t, s[k])
    BY <1>1 DEF AtMost, Ascending
  <2>3. k \in 0..n /\ Cardinality(AtMost(t, s[k])) \in Nat
    BY <1>1, <2>1, PositionsFinite
  <2>. QED BY <1>1, <2>1, <2>2, <2>3, CountFirst
<1>3. Cardinality(Below(t, s[k])) < k
  <2>1. Below(t, s[k]) \in SUBSET (1..n)
    BY <1>1 DEF Below
  <2>2. ASSUME NEW a \in 1..n, f[a] \in Below(t, s[k])
        PROVE  a <= k - 1
    <3>1. s[a] < s[k] /\ s[a] \in Int /\ s[k] \in Int
      BY <1>1, <2>2 DEF Below
    <3>2. ~(k < a) /\ a # k
      BY <1>1, <3>1 DEF Ascending
    <3>. QED BY <1>1, <3>2
  <2>3. k - 1 \in 0..n /\ Cardinality(Below(t, s[k])) \in Nat
    BY <1>1, <2>1, PositionsFinite
  <2>4. Cardinality(Below(t, s[k])) <= k - 1
    BY <1>1, <2>1, <2>2, <2>3, CountAll
  <2>. QED BY <2>3, <2>4
<1>4. HasRank(t, s[k], k)
  BY <1>2, <1>3, PositionsFinite, <1>1 DEF HasRank, AtMost
<1>5. /\ SortedPrice(t, k) \in Int
      /\ HasRank(t, SortedPrice(t, k), k)
  BY SortedPriceRank
<1>. QED BY <1>1, <1>4, <1>5, RankIsUnique
-----------------------------------------------------------------------------
(***************************************************************************)
(* The loops.  While a price is on its way to its place, its copy in key   *)
(* counts for the position j that it will be placed at.                    *)
(***************************************************************************)
Filled == IF pc = "inner" THEN [prices EXCEPT ![j + 1] = key] ELSE prices

\* The submitted prices in another order.
Rearranged ==
  \E f : /\ Rearrangement(f, N)
         /\ \A a \in 1..N : Filled[a] = submitted[f[a]]

Counters ==
  pc = "inner" => /\ i < N
                  /\ j <= i
                  /\ key \in Prices

\* The first i prices are sorted, or the first i + 1 but for the gap at j,
\* behind which all are greater than the key.
PrefixSorted ==
  /\ pc # "inner" =>
       \A a, b \in 1..i : a < b => prices[a] <= prices[b]
  /\ pc = "inner" =>
       /\ \A a, b \in (1..(i + 1)) \ {j + 1} : a < b => prices[a] <= prices[b]
       /\ \A b \in (j + 2)..(i + 1) : key <= prices[b]

IInv == TypeOK /\ Counters /\ Rearranged /\ PrefixSorted /\ ComputesMedian

\* What the type invariant says of the numbers.
LEMMA Numbers ==
  ASSUME TypeOK
  PROVE  /\ N \in Nat /\ i \in 1..N /\ j \in 0..N /\ i \in Nat /\ j \in Nat
         /\ DOMAIN prices = 1..N /\ DOMAIN submitted = 1..N
         /\ \A a \in 1..N : /\ prices[a] \in Prices
                            /\ prices[a] \in 1..MaxI128
                            /\ submitted[a] \in Prices
         /\ prices \in Seq(Int) /\ submitted \in Seq(Int)
         /\ MaxI128 \in Nat /\ Prices \subseteq 1..MaxI128
<1>1. N \in Nat /\ DOMAIN prices = 1..N /\ DOMAIN submitted = 1..N
  BY DEF TypeOK, N
<1>2. i \in 1..N /\ j \in 0..N /\ i \in Nat /\ j \in Nat
  BY <1>1 DEF TypeOK
<1>3. MaxI128 \in Nat /\ Prices \subseteq 1..MaxI128
  BY MaxI128Assumption, SortedPricesAssumption
<1>4. \A a \in 1..N : prices[a] \in Prices /\ submitted[a] \in Prices
  BY <1>1 DEF TypeOK
<1>5. Prices \subseteq Int
  BY <1>3
<1>6. prices \in Seq(Int) /\ submitted \in Seq(Int)
  <2>1. prices \in Seq(Prices) /\ submitted \in Seq(Prices)
    BY DEF TypeOK
  <2>. QED BY <1>5, <2>1, SeqMonotonic
<1>. QED BY <1>1, <1>2, <1>3, <1>4, <1>6

\* Writing one price keeps the vector one of prices, of the same length.
LEMMA SetKeepsType ==
  ASSUME TypeOK, NEW index \in 0..(N - 1), NEW p \in Prices
  PROVE  /\ Set(index, p) \in Seq(Prices)
         /\ Len(Set(index, p)) = N
         /\ DOMAIN Set(index, p) = 1..N
         /\ Set(index, p)[index + 1] = p
         /\ \A a \in 1..N : a # index + 1 => Set(index, p)[a] = prices[a]
<1>1. index + 1 \in 1..N /\ DOMAIN prices = 1..N
  BY Numbers
<1>2. /\ Set(index, p) \in Seq(Prices)
      /\ Len(Set(index, p)) = N
  BY <1>1 DEF Set, TypeOK, N
<1>. QED BY <1>1, <1>2 DEF Set

LEMMA InitIInv == Init => IInv
<1> SUFFICES ASSUME Init PROVE IInv
  OBVIOUS
<1>1. PICK n \in 1..MaxSubmissions : submitted \in [1..n -> Prices]
  BY DEF Init
<1>2. n \in Nat /\ n >= 1
  BY <1>1, SortedPricesAssumption
<1>3. submitted \in Seq(Prices) /\ Len(submitted) = n
  BY <1>1, <1>2
<1>4. TypeOK
  BY <1>2, <1>3 DEF Init, TypeOK, N
<1>5. Counters /\ PrefixSorted /\ ComputesMedian
  BY DEF Init, Counters, PrefixSorted, ComputesMedian
<1>6. Rearranged
  <2> DEFINE f == [a \in 1..N |-> a]
  <2>1. Rearrangement(f, N)
    BY DEF Rearrangement
  <2>2. \A a \in 1..N : Filled[a] = submitted[f[a]]
    BY DEF Filled, Init
  <2>. QED BY <2>1, <2>2 DEF Rearranged
<1>. QED BY <1>4, <1>5, <1>6 DEF IInv

LEMMA TakeKeyStep == IInv /\ TakeKey => IInv'
<1> SUFFICES ASSUME IInv, TakeKey PROVE IInv'
  OBVIOUS
<1>0. TypeOK
  BY DEF IInv
<1>1. /\ pc = "outer" /\ pc' = "inner" /\ i < N
      /\ key' = prices[i + 1] /\ j' = i
      /\ prices' = prices /\ i' = i /\ submitted' = submitted
      /\ result' = result /\ N' = N
  BY DEF TakeKey, Unsorted, Get, N
<1>2. i + 1 \in 1..N /\ key' \in Prices
  BY <1>0, <1>1, Numbers
<1>3. TypeOK' /\ Counters'
  BY <1>0, <1>1, <1>2, Numbers DEF TypeOK, Counters
<1>4. Filled' = Filled
  BY <1>0, <1>1, <1>2, Numbers DEF Filled
<1>5. Rearranged'
  BY <1>1, <1>4 DEF IInv, Rearranged
<1>6. PrefixSorted'
  <2>1. \A a, b \in 1..i : a < b => prices[a] <= prices[b]
    BY <1>1 DEF IInv, PrefixSorted
  <2>2. \A a \in (1..(i + 1)) \ {i + 1} : a \in 1..i
    BY <1>0, Numbers
  <2>3. ((i + 2)..(i + 1)) = {}
    BY <1>0, Numbers
  <2>. QED BY <1>1, <2>1, <2>2, <2>3 DEF PrefixSorted
<1>7. ComputesMedian'
  BY <1>1 DEF ComputesMedian
<1>. QED BY <1>3, <1>5, <1>6, <1>7 DEF IInv

\* The key and the price in front of it change places.
LEMMA ShiftStep == IInv /\ Shift => IInv'
<1> SUFFICES ASSUME IInv, Shift PROVE IInv'
  OBVIOUS
<1>0. TypeOK
  BY DEF IInv
<1>1. /\ pc = "inner" /\ pc' = "inner" /\ j > 0
      /\ prices[j] > key
      /\ prices' = Set(j, prices[j]) /\ j' = j - 1
      /\ key' = key /\ i' = i /\ submitted' = submitted /\ result' = result
  BY <1>0, Numbers DEF Shift, AfterFirst, Get
<1>2. /\ i < N /\ j <= i /\ key \in Prices
      /\ j \in 1..N /\ j + 1 \in 1..N /\ j \in 0..(N - 1)
      /\ i \in Nat /\ j \in Nat /\ N \in Nat
  <2>1. i < N /\ j <= i /\ key \in Prices
    BY <1>1 DEF IInv, Counters
  <2>2. i \in Nat /\ j \in Nat /\ N \in Nat
    BY <1>0, Numbers
  <2>. QED BY <1>1, <2>1, <2>2
<1>3. /\ prices' \in Seq(Prices) /\ N' = N /\ DOMAIN prices' = 1..N
      /\ prices'[j + 1] = prices[j]
      /\ \A a \in 1..N : a # j + 1 => prices'[a] = prices[a]
  <2>1. prices[j] \in Prices
    BY <1>0, <1>2, Numbers
  <2>. QED BY <1>0, <1>1, <1>2, <2>1, SetKeepsType DEF N
<1>4. TypeOK' /\ Counters'
  BY <1>0, <1>1, <1>2, <1>3, Numbers DEF TypeOK, Counters
<1>5. Rearranged'
  <2>1. PICK f : /\ Rearrangement(f, N)
                 /\ \A a \in 1..N : Filled[a] = submitted[f[a]]
    BY DEF IInv, Rearranged
  <2> DEFINE g == [a \in 1..N |-> IF a = j THEN f[j + 1]
                                  ELSE IF a = j + 1 THEN f[j] ELSE f[a]]
  <2>2. Rearrangement(g, N)
    <3>1. g \in [1..N -> 1..N]
      BY <1>2, <2>1 DEF Rearrangement
    <3>2. \A a, b \in 1..N : g[a] = g[b] => a = b
      BY <1>2, <2>1 DEF Rearrangement
    <3>3. ASSUME NEW x \in 1..N PROVE \E a \in 1..N : g[a] = x
      <4>1. PICK c \in 1..N : f[c] = x
        BY <2>1 DEF Rearrangement
      <4>2. CASE c = j
        <5>1. g[j + 1] = x
          BY <1>2, <4>1, <4>2
        <5>. QED BY <1>2, <5>1
      <4>3. CASE c = j + 1
        <5>1. g[j] = x
          BY <1>2, <4>1, <4>3
        <5>. QED BY <1>2, <5>1
      <4>4. CASE c # j /\ c # j + 1
        BY <4>1, <4>4
      <4>. QED BY <4>2, <4>3, <4>4
    <3>. QED BY <3>1, <3>2, <3>3 DEF Rearrangement
  <2>3. /\ \A a \in 1..N : Filled[a] = IF a = j + 1 THEN key ELSE prices[a]
        /\ \A a \in 1..N : Filled'[a] = IF a = j THEN key ELSE prices'[a]
    BY <1>0, <1>1, <1>2, <1>3, Numbers DEF Filled
  <2>4. \A a \in 1..N : Filled'[a] = submitted[g[a]]
    BY <1>2, <1>3, <2>1, <2>3
  <2>. HIDE DEF g
  <2>. QED BY <1>1, <1>3, <2>2, <2>4 DEF Rearranged
<1>6. PrefixSorted'
  <2>1. /\ \A a, b \in (1..(i + 1)) \ {j + 1} : a < b => prices[a] <= prices[b]
        /\ \A b \in (j + 2)..(i + 1) : key <= prices[b]
    BY <1>1 DEF IInv, PrefixSorted
  <2>2. /\ \A a \in 1..(i + 1) : a \in 1..N /\ a \in Int
        /\ \A a \in 1..N : prices[a] \in Int
        /\ key \in Int
    BY <1>0, <1>2, Numbers
  <2>3. ASSUME NEW a \in (1..(i + 1)) \ {j}, NEW b \in (1..(i + 1)) \ {j}, a < b
        PROVE  prices'[a] <= prices'[b]
    <3>1. CASE a = j + 1
      BY <1>2, <1>3, <2>1, <2>2, <2>3, <3>1
    <3>2. CASE b = j + 1
      BY <1>2, <1>3, <2>1, <2>2, <2>3, <3>2
    <3>3. CASE a # j + 1 /\ b # j + 1
      BY <1>2, <1>3, <2>1, <2>2, <2>3, <3>3
    <3>. QED BY <3>1, <3>2, <3>3
  <2>4. ASSUME NEW b \in (j + 1)..(i + 1) PROVE key <= prices'[b]
    <3>1. CASE b = j + 1
      BY <1>1, <1>2, <1>3, <2>2, <3>1
    <3>2. CASE b # j + 1
      BY <1>2, <1>3, <2>1, <2>2, <3>2
    <3>. QED BY <3>1, <3>2
  <2>5. j' + 1 = j /\ j' + 2 = j + 1
    BY <1>1, <1>2
  <2>. QED BY <1>1, <2>3, <2>4, <2>5 DEF PrefixSorted
<1>7. ComputesMedian'
  BY <1>1 DEF ComputesMedian
<1>. QED BY <1>4, <1>5, <1>6, <1>7 DEF IInv

\* The key fills the gap.
LEMMA PlaceStep == IInv /\ Place => IInv'
<1> SUFFICES ASSUME IInv, Place PROVE IInv'
  OBVIOUS
<1>0. TypeOK
  BY DEF IInv
<1>1. /\ pc = "inner" /\ pc' = "outer"
      /\ j > 0 => prices[j] <= key
      /\ prices' = Set(j, key) /\ i' = i + 1
      /\ j' = j /\ key' = key /\ submitted' = submitted /\ result' = result
  BY <1>0, Numbers DEF Place, AfterFirst, Get
<1>2. /\ i < N /\ j <= i /\ key \in Prices
      /\ j + 1 \in 1..N /\ j \in 0..(N - 1)
      /\ i \in Nat /\ j \in Nat /\ N \in Nat
  <2>1. i < N /\ j <= i /\ key \in Prices
    BY <1>1 DEF IInv, Counters
  <2>2. i \in Nat /\ j \in Nat /\ N \in Nat
    BY <1>0, Numbers
  <2>. QED BY <2>1, <2>2
<1>3. /\ prices' \in Seq(Prices) /\ N' = N /\ DOMAIN prices' = 1..N
      /\ prices'[j + 1] = key
      /\ \A a \in 1..N : a # j + 1 => prices'[a] = prices[a]
  BY <1>0, <1>1, <1>2, SetKeepsType DEF N
<1>4. TypeOK' /\ Counters'
  BY <1>0, <1>1, <1>2, <1>3, Numbers DEF TypeOK, Counters
<1>5. Rearranged'
  <2>1. Filled' = Filled
    BY <1>1 DEF Filled, Set
  <2>. QED BY <1>1, <1>3, <2>1 DEF IInv, Rearranged
<1>6. PrefixSorted'
  <2>1. /\ \A a, b \in (1..(i + 1)) \ {j + 1} : a < b => prices[a] <= prices[b]
        /\ \A b \in (j + 2)..(i + 1) : key <= prices[b]
    BY <1>1 DEF IInv, PrefixSorted
  <2>2. /\ \A a \in 1..(i + 1) : a \in 1..N /\ a \in Int
        /\ \A a \in 1..N : prices[a] \in Int
        /\ key \in Int
    BY <1>0, <1>2, Numbers
  <2>3. ASSUME NEW a \in 1..(i + 1), NEW b \in 1..(i + 1), a < b
        PROVE  prices'[a] <= prices'[b]
    <3>1. CASE a = j + 1
      BY <1>2, <1>3, <2>1, <2>2, <2>3, <3>1
    <3>2. CASE b = j + 1
      <4>1. a <= j /\ j \in 1..(i + 1) /\ j # j + 1 /\ a # j + 1
        BY <1>2, <2>2, <2>3, <3>2
      <4>2. prices[a] <= prices[j]
        BY <1>2, <2>1, <2>2, <4>1
      <4>. QED BY <1>1, <1>2, <1>3, <2>2, <3>2, <4>1, <4>2
    <3>3. CASE a # j + 1 /\ b # j + 1
      BY <1>2, <1>3, <2>1, <2>2, <2>3, <3>3
    <3>. QED BY <3>1, <3>2, <3>3
  <2>. QED BY <1>1, <2>3 DEF PrefixSorted
<1>7. ComputesMedian'
  BY <1>1 DEF ComputesMedian
<1>. QED BY <1>4, <1>5, <1>6, <1>7 DEF IInv

\* When the outer loop is over the vector holds the ranks of the submissions.
LEMMA SortedAtEnd ==
  ASSUME IInv, pc = "outer", ~Unsorted, NEW k \in 1..N
  PROVE  SortedPrice(submitted, k) = prices[k]
<1>0. TypeOK
  BY DEF IInv
<1>1. i = N
  BY <1>0, Numbers DEF Unsorted
<1>2. Ascending(prices)
  BY <1>1 DEF IInv, PrefixSorted, Ascending, N
<1>3. PICK f : /\ Rearrangement(f, N)
               /\ \A a \in 1..N : prices[a] = submitted[f[a]]
  BY DEF IInv, Rearranged, Filled
<1>4. Len(prices) = Len(submitted) /\ N = Len(prices)
  BY <1>0 DEF TypeOK, N
<1>. QED BY <1>0, <1>2, <1>3, <1>4, Numbers, SortedHoldsRanks

LEMMA ReturnStep == IInv /\ (ReturnOdd \/ ReturnEven) => IInv'
<1> SUFFICES ASSUME IInv, ReturnOdd \/ ReturnEven PROVE IInv'
  OBVIOUS
<1>0. TypeOK
  BY DEF IInv
<1>1. /\ pc = "outer" /\ ~Unsorted /\ pc' = "returned"
      /\ prices' = prices /\ i' = i /\ j' = j /\ key' = key
      /\ submitted' = submitted /\ N' = N
      /\ N \in Nat \ {0} /\ N = Len(submitted)
  BY <1>0, Numbers DEF ReturnOdd, ReturnEven, N, TypeOK
<1>2. \A k \in 1..N : SortedPrice(submitted, k) = prices[k]
  BY <1>1, SortedAtEnd
<1>3. \A k \in 1..N : prices[k] \in 1..MaxI128 /\ prices[k] \in Int
  BY <1>0, Numbers
<1>4. ASSUME ReturnOdd
      PROVE  ComputesMedian' /\ result' \in {<<m>> : m \in 0..MaxI128}
  <2>1. N % 2 = 1 /\ result' = <<prices[N \div 2 + 1]>>
    BY <1>4 DEF ReturnOdd, Get, Middle
  <2>2. (N + 2) \div 2 = N \div 2 + 1 /\ N \div 2 + 1 \in 1..N
    BY <1>1, <2>1
  <2>3. Median(submitted) = prices[N \div 2 + 1]
    BY <1>1, <1>2, <2>1, <2>2 DEF Median, UpperMiddle
  <2>4. ~MedianOverflows(submitted)
    BY <1>1, <2>1 DEF MedianOverflows
  <2>5. ComputesMedian'
    BY <1>1, <2>1, <2>3, <2>4 DEF ComputesMedian
  <2>6. result' \in {<<m>> : m \in 0..MaxI128}
    BY <1>3, <2>1, <2>2
  <2>. QED BY <2>5, <2>6
<1>5. ASSUME ReturnEven
      PROVE  ComputesMedian' /\ result' \in {<<m>> : m \in 0..MaxI128}
  <2>1. N % 2 = 0 /\ result' = Average
    BY <1>5 DEF ReturnEven
  <2> DEFINE lower == prices[N \div 2]
             upper == prices[N \div 2 + 1]
  <2>2. /\ N \div 2 \in 1..N /\ N \div 2 + 1 \in 1..N
        /\ (N + 1) \div 2 = N \div 2 /\ (N + 2) \div 2 = N \div 2 + 1
        /\ Middle - 1 + 1 = N \div 2
    BY <1>1, <2>1 DEF Middle
  <2>3. MiddleSum = lower + upper
    BY <2>2 DEF MiddleSum, Get, Middle
  <2>4. LowerMiddle(submitted) = lower /\ UpperMiddle(submitted) = upper
    BY <1>1, <1>2, <2>2 DEF LowerMiddle, UpperMiddle
  <2>5. lower \in 1..MaxI128 /\ upper \in 1..MaxI128 /\ MaxI128 \in Nat
    BY <1>0, <1>3, <2>2, Numbers
  <2>6. ComputesMedian'
    <3>1. MedianOverflows(submitted) <=> MiddleSum > MaxI128
      BY <1>1, <2>1, <2>3, <2>4 DEF MedianOverflows
    <3>2. Median(submitted) = MiddleSum \div 2
      BY <1>1, <2>1, <2>3, <2>4 DEF Median
    <3>. QED BY <1>1, <2>1, <3>1, <3>2 DEF ComputesMedian, Average
  <2>7. result' \in {<<m>> : m \in 0..MaxI128}
    <3> HIDE DEF lower, upper
    <3>1. CASE MiddleSum > MaxI128
      BY <2>1, <2>5, <3>1 DEF Average
    <3>2. CASE ~(MiddleSum > MaxI128)
      <4>1. MiddleSum \div 2 \in 0..MaxI128
        BY <2>3, <2>5, <3>2
      <4>. QED BY <2>1, <3>2, <4>1 DEF Average
    <3>. QED BY <3>1, <3>2
  <2>. QED BY <2>6, <2>7
<1>6. ComputesMedian' /\ result' \in {<<m>> : m \in 0..MaxI128}
  BY <1>4, <1>5
<1>7. TypeOK' /\ Counters'
  BY <1>0, <1>1, <1>6 DEF TypeOK, Counters
<1>8. Rearranged' /\ PrefixSorted'
  BY <1>1 DEF IInv, Rearranged, Filled, PrefixSorted
<1>. QED BY <1>6, <1>7, <1>8 DEF IInv

LEMMA SortIInv == Spec => []IInv
<1>1. ASSUME IInv, UNCHANGED vars PROVE IInv'
  <2>1. TypeOK' /\ N' = N /\ Filled' = Filled
    BY <1>1 DEF IInv, TypeOK, vars, N, Filled
  <2>. QED BY <1>1, <2>1
           DEF IInv, vars, Counters, Rearranged, PrefixSorted, ComputesMedian
<1>2. IInv /\ [Next]_vars => IInv'
  BY <1>1, TakeKeyStep, ShiftStep, PlaceStep, ReturnStep DEF Next
<1>. QED BY InitIInv, <1>2, PTL DEF Spec

\* The vector keeps its length, the counters their ranges, and the median is
\* an i128, or the error that stands for its overflow.
THEOREM SortTypeOK == Spec => []TypeOK
<1>1. IInv => TypeOK
  BY DEF IInv
<1>. QED BY SortIInv, <1>1, PTL

\* No get_unchecked and no set of sorted_prices and median is out of bounds,
\* for any number of submissions.
THEOREM SortIndicesInBounds == Spec => []IndicesInBounds
<1>1. ASSUME IInv PROVE IndicesInBounds
  <2>1. /\ i \in 1..N /\ j \in 0..N /\ N \in Nat \ {0}
        /\ pc = "inner" => i < N /\ j <= i
        /\ pc \in {"outer", "inner", "returned"}
    BY <1>1, Numbers DEF IInv, TypeOK, Counters
  <2>2. N % 2 = 1 \/ N % 2 = 0
    BY <2>1
  <2>3. CASE pc = "outer" /\ Unsorted
    BY <2>1, <2>3 DEF IndicesInBounds, Accessed, Unsorted
  <2>4. CASE pc = "outer" /\ ~Unsorted /\ N % 2 = 1
    <3>1. Accessed = {Middle}
      BY <2>4 DEF Accessed
    <3>. QED BY <2>1, <2>4, <3>1 DEF IndicesInBounds, Middle
  <2>5. CASE pc = "outer" /\ ~Unsorted /\ N % 2 = 0
    <3>1. Accessed = {Middle - 1, Middle}
      BY <2>5 DEF Accessed
    <3>. QED BY <2>1, <2>5, <3>1 DEF IndicesInBounds, Middle
  <2>6. CASE pc = "inner" /\ AfterFirst
    BY <2>1, <2>6 DEF IndicesInBounds, Accessed, AfterFirst
  <2>7. CASE pc = "inner" /\ ~AfterFirst
    BY <2>1, <2>7 DEF IndicesInBounds, Accessed, AfterFirst
  <2>8. CASE pc = "returned"
    BY <2>8 DEF IndicesInBounds, Accessed
  <2>. QED BY <2>1, <2>2, <2>3, <2>4, <2>5, <2>6, <2>7, <2>8
<1>. QED BY SortIInv, <1>1, PTL

\* The insertion sort and the median of the code return what PriceMedian, and
\* with it Oracle, says they do, for any number of submissions.
THEOREM SortComputesMedian == Spec => []ComputesMedian
<1>1. IInv => ComputesMedian
  BY DEF IInv
<1>. QED BY SortIInv, <1>1, PTL
-----------------------------------------------------------------------------
(***************************************************************************)
(* The loops end: every step counts down a number that starts quadratic in *)
(* the number of submissions.  N + 2 steps pay for a round of the outer    *)
(* loop, which takes a key, shifts at most i prices and places the key.    *)
(***************************************************************************)
RoundsLeft == (N - i) * (N + 2)

Remaining ==
  CASE pc = "outer" -> RoundsLeft + 1
    [] pc = "inner" -> RoundsLeft - N + j
    [] pc = "returned" -> 0

\* One round of the outer loop costs N + 2 steps.
LEMMA RoundCost ==
  ASSUME NEW n \in Nat, NEW k \in Nat, k < n
  PROVE  /\ (n - k) * (n + 2) = (n - (k + 1)) * (n + 2) + (n + 2)
         /\ (n - k) * (n + 2) \in Nat
         /\ (n - (k + 1)) * (n + 2) \in Nat
<1> DEFINE r == n - (k + 1)
<1>1. r \in Nat /\ n - k = r + 1 /\ r + 1 \in Nat /\ n + 2 \in Nat
  OBVIOUS
<1> HIDE DEF r
<1>2. \A a, b \in Nat : a * b \in Nat /\ (a + 1) * b = a * b + b
  OBVIOUS
<1>3. r * (n + 2) \in Nat /\ (r + 1) * (n + 2) = r * (n + 2) + (n + 2)
  BY <1>1, <1>2
<1>4. (n - k) * (n + 2) = r * (n + 2) + (n + 2)
  BY <1>1, <1>3
<1>5. (n - k) * (n + 2) \in Nat
  BY <1>1, <1>3, <1>4
<1>. QED BY <1>3, <1>4, <1>5 DEF r

LEMMA RoundsLeftType ==
  ASSUME IInv
  PROVE  /\ RoundsLeft \in Nat
         /\ i < N => RoundsLeft >= N + 2
<1>1. N \in Nat /\ i \in Nat /\ i <= N
  BY Numbers DEF IInv
<1>2. CASE i < N
  <2>1. /\ RoundsLeft = (N - (i + 1)) * (N + 2) + (N + 2)
        /\ (N - (i + 1)) * (N + 2) \in Nat
        /\ RoundsLeft \in Nat
    BY <1>1, <1>2, RoundCost DEF RoundsLeft
  <2> DEFINE rest == (N - (i + 1)) * (N + 2)
  <2>2. RoundsLeft = rest + (N + 2) /\ rest \in Nat
    BY <2>1
  <2> HIDE DEF rest
  <2>. QED BY <1>1, <2>1, <2>2
<1>3. CASE i = N
  <2> DEFINE rounds == N - i
  <2>1. rounds = 0 /\ 0 * (N + 2) = 0
    BY <1>1, <1>3
  <2>2. RoundsLeft = rounds * (N + 2)
    BY DEF RoundsLeft
  <2> HIDE DEF rounds
  <2>3. RoundsLeft = 0
    BY <2>1, <2>2
  <2>. QED BY <1>1, <1>3, <2>3
<1>. QED BY <1>1, <1>2, <1>3

LEMMA RemainingType == IInv => Remaining \in Nat
<1> SUFFICES ASSUME IInv PROVE Remaining \in Nat
  OBVIOUS
<1>1. /\ RoundsLeft \in Nat
      /\ pc = "inner" => i < N /\ RoundsLeft >= N + 2
      /\ N \in Nat /\ j \in Nat
      /\ pc \in {"outer", "inner", "returned"}
  BY RoundsLeftType, Numbers DEF IInv, Counters, TypeOK
<1>. QED BY <1>1 DEF Remaining

LEMMA StepsCountDown ==
  ASSUME IInv, Next
  PROVE  Remaining' < Remaining
<1>1. IInv'
  BY TakeKeyStep, ShiftStep, PlaceStep, ReturnStep DEF Next
<1>2. /\ N \in Nat /\ N' = N /\ i \in Nat /\ j \in Nat /\ i <= N
      /\ RoundsLeft \in Nat
      /\ pc = "inner" => i < N /\ RoundsLeft >= N + 2
  <2>1. N' = N
    BY <1>1 DEF IInv, TypeOK, Next, TakeKey, Shift, Place, ReturnOdd, ReturnEven
  <2>. QED BY <2>1, RoundsLeftType, Numbers DEF IInv, Counters
<1>3. CASE TakeKey
  <2>1. /\ pc = "outer" /\ pc' = "inner" /\ j' = i /\ i' = i /\ i < N
    BY <1>3 DEF TakeKey, Unsorted
  <2>2. RoundsLeft' = RoundsLeft
    BY <1>2, <2>1 DEF RoundsLeft
  <2>3. Remaining = RoundsLeft + 1 /\ Remaining' = RoundsLeft - N + i
    BY <1>2, <2>1, <2>2 DEF Remaining
  <2>4. RoundsLeft \in Nat /\ N \in Nat /\ i \in Nat /\ i < N
    BY <1>2, <2>1
  <2>. QED BY <2>3, <2>4
<1>4. CASE Shift
  <2>1. pc = "inner" /\ pc' = "inner" /\ j' = j - 1 /\ i' = i
    BY <1>4 DEF Shift
  <2>2. RoundsLeft' = RoundsLeft
    BY <1>2, <2>1 DEF RoundsLeft
  <2>3. Remaining = RoundsLeft - N + j /\ Remaining' = RoundsLeft - N + (j - 1)
    BY <1>2, <2>1, <2>2 DEF Remaining
  <2>4. RoundsLeft \in Nat /\ N \in Nat /\ j \in Nat
    BY <1>2
  <2>. QED BY <2>3, <2>4
<1>5. CASE Place
  <2>1. pc = "inner" /\ pc' = "outer" /\ i' = i + 1
    BY <1>5 DEF Place
  <2>2. RoundsLeft = RoundsLeft' + (N + 2) /\ RoundsLeft' \in Nat
    BY <1>2, <2>1, RoundCost DEF RoundsLeft
  <2>3. Remaining = RoundsLeft - N + j /\ Remaining' = RoundsLeft' + 1
    BY <2>1 DEF Remaining
  <2> DEFINE left == RoundsLeft'
  <2>4. left \in Nat /\ N \in Nat /\ j \in Nat
    BY <1>2, <2>2
  <2>5. Remaining = (left + (N + 2)) - N + j /\ Remaining' = left + 1
    BY <2>2, <2>3
  <2> HIDE DEF left
  <2>. QED BY <2>4, <2>5
<1>6. CASE ReturnOdd \/ ReturnEven
  <2>1. pc = "outer" /\ pc' = "returned"
    BY <1>6 DEF ReturnOdd, ReturnEven
  <2>2. Remaining = RoundsLeft + 1 /\ Remaining' = 0
    BY <2>1 DEF Remaining
  <2>. QED BY <1>2, <2>2
<1>. QED BY <1>3, <1>4, <1>5, <1>6 DEF Next

(***************************************************************************)
(* The sort of finalize_price takes at most as many steps as Remaining     *)
(* says when it starts, whatever the order of the submissions.  What is    *)
(* left to TLC of Returns is that the loops are never stuck, which is      *)
(* ENABLED.                                                                *)
(***************************************************************************)
THEOREM SortCountsDown ==
  Spec => [](Remaining \in Nat) /\ [][Remaining' < Remaining]_vars
<1>1. IInv /\ [Next]_vars => [Remaining' < Remaining]_vars
  BY StepsCountDown
<1>. QED BY SortIInv, RemainingType, <1>1, PTL DEF Spec
=============================================================================
