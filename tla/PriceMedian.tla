---------------------------- MODULE PriceMedian ----------------------------
(***************************************************************************)
(* The price arithmetic of agrifeed-oracle/src/ingest.rs: sorted_prices    *)
(* and median, on a sequence of prices.                                    *)
(*                                                                         *)
(* The insertion sort is modelled by its result: the k-th smallest price   *)
(* is the one with fewer than k prices below it and at least k prices up   *)
(* to it.  i128 is the interval up to MaxI128, the largest representable   *)
(* price; submitted prices are positive, so only the upper end matters.    *)
(***************************************************************************)
EXTENDS Integers, SequencesExt

CONSTANT MaxI128        \* i128::MAX

\* The sum of two prices is computed in an i128.
ASSUME MaxI128Assumption == MaxI128 \in Nat \ {0}

\* The positions of the prices below v and of those up to v.
Below(prices, v)  == {i \in DOMAIN prices : prices[i] < v}
AtMost(prices, v) == {i \in DOMAIN prices : prices[i] <= v}

\* v stands at position k of the prices in ascending order.
HasRank(prices, v, k) ==
  /\ Cardinality(Below(prices, v)) < k
  /\ k <= Cardinality(AtMost(prices, v))

\* Mutant of SortedPrice: the insertion sort is left out.
SubmittedPrice(prices, k) == prices[k]

\* prices.get_unchecked(k - 1) after the insertion sort.
SortedPrice(prices, k) ==
  CHOOSE v \in Range(prices) : HasRank(prices, v, k)

\* The two middle prices; they are the same one for an odd count.
LowerMiddle(prices) == SortedPrice(prices, (Len(prices) + 1) \div 2)
UpperMiddle(prices) == SortedPrice(prices, (Len(prices) + 2) \div 2)

\* a.checked_add(b) fails: only an even count adds.
MedianOverflows(prices) ==
  /\ Len(prices) % 2 = 0
  /\ LowerMiddle(prices) + UpperMiddle(prices) > MaxI128

\* The median, where the code returns one.
Median(prices) ==
  IF Len(prices) % 2 = 1
  THEN UpperMiddle(prices)
  ELSE (LowerMiddle(prices) + UpperMiddle(prices)) \div 2
=============================================================================
