---------------------------- MODULE SortedPrices ----------------------------
(***************************************************************************)
(* The loops of agrifeed-oracle/src/ingest.rs behind PriceMedian:          *)
(* sorted_prices and the reads of median, statement by statement, with the *)
(* vector indexed from 0 as in the code.  PriceMedian says what they       *)
(* compute and the rest of the project uses it in their place.             *)
(***************************************************************************)
EXTENDS PriceMedian

CONSTANTS
  Prices,         \* prices the pending submissions may carry
  MaxSubmissions  \* bound on the number of pending submissions

ASSUME SortedPricesAssumption ==
  /\ Prices \subseteq 1..MaxI128
  /\ MaxSubmissions \in Nat \ {0}

VARIABLES
  submitted,  \* the prices of the pending submissions, as they came in
  prices,     \* the vector that is sorted in place
  i, j, key,  \* the locals of sorted_prices
  pc,         \* in the "outer" or the "inner" loop, or "returned"
  result      \* <<>>, or the median: Ok(price) is <<price>>
              \* and Err(InvalidPrice) is <<0>>

vars == <<submitted, prices, i, j, key, pc, result>>

N == Len(prices)

TypeOK ==
  /\ submitted \in Seq(Prices) \ {<<>>}
  /\ prices \in Seq(Prices)
  /\ N = Len(submitted)
  /\ i \in 1..N
  /\ j \in 0..N
  /\ key \in Prices \union {0}
  /\ pc \in {"outer", "inner", "returned"}
  /\ result \in {<<>>} \union {<<m>> : m \in 0..MaxI128}
-----------------------------------------------------------------------------
\* prices.get_unchecked(index) and prices.set(index, price).
Get(index) == prices[index + 1]
Set(index, price) == [prices EXCEPT ![index + 1] = price]

\* finalize_price asks for a median only when there are submissions.
Init ==
  /\ submitted \in UNION {[1..n -> Prices] : n \in 1..MaxSubmissions}
  /\ prices = submitted
  /\ i = 1
  /\ j = 0
  /\ key = 0
  /\ pc = "outer"
  /\ result = <<>>

\* Mutant of Unsorted: the last price is left where it is.
UnsortedButLast == i < N - 1

\* while i < n
Unsorted == i < N

\* Mutant of AfterFirst: position 0 has a predecessor too.
FromFirst == j >= 0

\* while j > 0
AfterFirst == j > 0

TakeKey ==
  /\ pc = "outer"
  /\ Unsorted
  /\ key' = Get(i)
  /\ j' = i
  /\ pc' = "inner"
  /\ UNCHANGED <<submitted, prices, i, result>>

\* Mutant of Shift: j is not counted down.
ShiftInPlace ==
  /\ pc = "inner"
  /\ AfterFirst
  /\ Get(j - 1) > key
  /\ prices' = Set(j, Get(j - 1))
  /\ UNCHANGED <<submitted, i, j, key, pc, result>>

\* The price before j is above the key and moves up one place.
Shift ==
  /\ pc = "inner"
  /\ AfterFirst
  /\ Get(j - 1) > key
  /\ prices' = Set(j, Get(j - 1))
  /\ j' = j - 1
  /\ UNCHANGED <<submitted, i, key, pc, result>>

\* The inner loop ends, at the front or at a price up to the key.
Place ==
  /\ pc = "inner"
  /\ AfterFirst => Get(j - 1) <= key
  /\ prices' = Set(j, key)
  /\ i' = i + 1
  /\ pc' = "outer"
  /\ UNCHANGED <<submitted, j, key, result>>

\* The middle position, and the two of an even count.
Middle == N \div 2
MiddleSum == Get(Middle - 1) + Get(Middle)

\* Mutant of Average: the sum wraps around.
WrappedAverage ==
  IF MiddleSum > MaxI128
  THEN <<(MiddleSum - 2 * (MaxI128 + 1)) \div 2>>
  ELSE <<MiddleSum \div 2>>

\* checked_add, then checked_div.
Average == IF MiddleSum > MaxI128 THEN <<0>> ELSE <<MiddleSum \div 2>>

ReturnOdd ==
  /\ pc = "outer"
  /\ ~Unsorted
  /\ N % 2 = 1
  /\ result' = <<Get(Middle)>>
  /\ pc' = "returned"
  /\ UNCHANGED <<submitted, prices, i, j, key>>

ReturnEven ==
  /\ pc = "outer"
  /\ ~Unsorted
  /\ N % 2 = 0
  /\ result' = Average
  /\ pc' = "returned"
  /\ UNCHANGED <<submitted, prices, i, j, key>>

Next == TakeKey \/ Shift \/ Place \/ ReturnOdd \/ ReturnEven

\* The host runs the invocation to its end.
Spec == Init /\ [][Next]_vars /\ WF_vars(Next)
-----------------------------------------------------------------------------
(***************************************************************************)
(* Properties.                                                             *)
(***************************************************************************)
\* The positions the next statement reads or writes unchecked.
Accessed ==
  CASE pc = "outer" /\ Unsorted -> {i}
    [] pc = "outer" /\ ~Unsorted /\ N % 2 = 1 -> {Middle}
    [] pc = "outer" /\ ~Unsorted /\ N % 2 = 0 -> {Middle - 1, Middle}
    [] pc = "inner" /\ AfterFirst -> {j - 1, j}
    [] pc = "inner" /\ ~AfterFirst -> {j}
    [] pc = "returned" -> {}

\* "All indices are guarded by the loop bounds": no get_unchecked or set is out
\* of bounds, for any number of submissions and any order and ties of prices.
IndicesInBounds == Accessed \subseteq 0..(N - 1)

\* The loops compute the median of PriceMedian, and fail where it overflows.
ComputesMedian ==
  pc = "returned" =>
    result = IF MedianOverflows(submitted) THEN <<0>> ELSE <<Median(submitted)>>

\* finalize_price is not stuck in its sort.
Returns == <>(pc = "returned")
=============================================================================
