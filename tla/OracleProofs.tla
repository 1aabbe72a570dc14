---------------------------- MODULE OracleProofs ----------------------------
(***************************************************************************)
(* Invariants and action properties of the oracle, for all values of the   *)
(* constants.                                                              *)
(***************************************************************************)
EXTENDS Oracle, PriceMedianProofs

(***************************************************************************)
(* Rounding to the resolution window.                                      *)
(***************************************************************************)
\* The quotient of the source's `floor(ts / resolution)`.
LEMMA Quotient ==
  ASSUME NEW t \in Nat, NEW r \in Nat \ {0}
  PROVE  /\ t \div r \in Nat
         /\ (t \div r) * r <= t
         /\ t < (t \div r) * r + r
OBVIOUS

\* Factors compare as their products do.
LEMMA FactorOrder ==
  ASSUME NEW a \in Nat, NEW b \in Nat, NEW r \in Nat \ {0}
  PROVE  /\ a * r < b * r + r => a <= b
         /\ a <= b => a * r <= b * r
         /\ a * r \in Nat
<1>1. ASSUME a > b
      PROVE  b * r + r <= a * r
  <2>1. PICK d \in Nat : a = b + 1 + d
    <3>1. a - b - 1 \in Nat /\ a = b + 1 + (a - b - 1)
      BY <1>1
    <3>2. QED
      BY <3>1
  <2>2. a * r = b * r + r + d * r /\ d * r \in Nat
    BY <2>1
  <2>3. b * r \in Nat
    OBVIOUS
  <2>4. QED
    BY <2>2, <2>3
<1>2. ASSUME a <= b
      PROVE  a * r <= b * r
  <2>1. PICK d \in Nat : b = a + d
    <3>1. b - a \in Nat /\ b = a + (b - a)
      BY <1>2
    <3>2. QED
      BY <3>1
  <2>2. b * r = a * r + d * r /\ d * r \in Nat /\ a * r \in Nat
    BY <2>1
  <2>3. QED
    BY <2>2
<1>3. a * r \in Nat /\ b * r \in Nat
  OBVIOUS
<1>4. QED
  BY <1>1, <1>2, <1>3

\* A window starts at its rounded timestamps, which are fixed points of the
\* rounding, and later timestamps round no lower.
LEMMA Rounding ==
  ASSUME resolution \in Nat, NEW s \in Nat, NEW t \in Nat
  PROVE  /\ RoundToWindow(t) \in Nat
         /\ RoundToWindow(t) <= t
         /\ RoundToWindow(RoundToWindow(t)) = RoundToWindow(t)
         /\ s <= t => RoundToWindow(s) <= RoundToWindow(t)
<1>1. CASE resolution = 0
  BY <1>1 DEF RoundToWindow
<1>2. CASE resolution # 0
  <2> DEFINE r == resolution
  <2> DEFINE Q(x) == x \div r
  <2>1. \A x \in Nat : RoundToWindow(x) = Q(x) * r
    BY <1>2 DEF RoundToWindow
  <2>2. r \in Nat \ {0}
    BY <1>2
  <2> HIDE DEF r
  <2>3. \A x \in Nat : /\ Q(x) \in Nat
                       /\ Q(x) * r <= x
                       /\ x < Q(x) * r + r
    BY <2>2, Quotient
  <2> HIDE DEF Q
  <2>4. \A x \in Nat : Q(x) * r \in Nat
    BY <2>2, <2>3, FactorOrder
  <2>5. Q(Q(t) * r) = Q(t)
    <3> DEFINE w == Q(t) * r
    <3>1. w \in Nat /\ Q(w) \in Nat /\ Q(t) \in Nat
      BY <2>3, <2>4
    <3>2. Q(w) * r <= w /\ w < Q(w) * r + r
      BY <2>3, <3>1
    <3>3. Q(w) * r < Q(t) * r + r /\ Q(t) * r < Q(w) * r + r
      <4>1. Q(w) * r \in Nat
        BY <2>4, <3>1
      <4>2. QED
        BY <2>2, <3>1, <3>2, <4>1
    <3> HIDE DEF w
    <3>4. Q(w) <= Q(t) /\ Q(t) <= Q(w)
      BY <2>2, <3>1, <3>3, FactorOrder
    <3>5. QED
      BY <3>1, <3>4 DEF w
  <2>6. ASSUME s <= t
        PROVE  Q(s) * r <= Q(t) * r
    <3>1. Q(s) * r < Q(t) * r + r
      BY <2>2, <2>3, <2>4, <2>6
    <3>2. QED
      BY <2>2, <2>3, <3>1, FactorOrder
  <2>7. QED
    BY <2>1, <2>3, <2>4, <2>5, <2>6
<1>3. QED
  BY <1>1, <1>2

(***************************************************************************)
(* Pruning: the last records, at least one, in their order.                *)
(***************************************************************************)
LEMMA LastRecordsProperties ==
  ASSUME NEW S, NEW records \in Seq(S), records # <<>>, NEW n \in Nat \ {0}
  PROVE  LET kept == LastRecords(records, n)
         IN  /\ kept \in Seq(S)
             /\ kept # <<>>
             /\ Len(kept) <= n
             /\ Len(kept) <= Len(records)
             /\ Len(kept) \in Nat
             /\ \A i \in 1..Len(kept) :
                  /\ Len(records) - Len(kept) + i \in 1..Len(records)
                  /\ kept[i] = records[Len(records) - Len(kept) + i]
<1> DEFINE kept == LastRecords(records, n)
<1>1. Len(records) \in Nat \ {0}
  BY EmptySeq
<1>2. CASE Len(records) <= n
  BY <1>1, <1>2 DEF LastRecords
<1>3. CASE Len(records) > n
  <2> DEFINE m == Len(records) - n + 1
  <2>1. kept = SubSeq(records, m, Len(records))
    BY <1>1, <1>3 DEF LastRecords
  <2>2. m \in 1..Len(records)
    BY <1>1, <1>3
  <2>3. /\ SubSeq(records, m, Len(records)) \in Seq(S)
        /\ Len(SubSeq(records, m, Len(records))) = n
        /\ \A i \in 1..n : SubSeq(records, m, Len(records))[i]
                             = records[Len(records) - n + i]
    BY <1>1, <2>2
  <2> HIDE DEF kept, m
  <2>4. kept \in Seq(S) /\ Len(kept) = n /\ kept # <<>>
    BY <2>1, <2>3
  <2>5. \A i \in 1..n : /\ Len(records) - n + i \in 1..Len(records)
                        /\ kept[i] = records[Len(records) - n + i]
    <3>1. \A i \in 1..n : kept[i] = records[Len(records) - n + i]
      BY <2>1, <2>3, Zenon
    <3>2. \A i \in 1..n : Len(records) - n + i \in 1..Len(records)
      <4> DEFINE l == Len(records)
      <4>1. l \in Nat /\ l > n
        BY <1>1, <1>3
      <4> HIDE DEF l
      <4>2. \A i \in 1..n : l - n + i \in 1..l
        BY <4>1
      <4>3. QED
        BY <4>2 DEF l
    <3>3. QED
      BY <3>1, <3>2, Zenon
  <2>6. QED
    BY <1>1, <1>3, <2>4, <2>5 DEF kept
<1>4. QED
  BY <1>1, <1>2, <1>3

(***************************************************************************)
(* The inductive invariant.                                                *)
(***************************************************************************)
\* The resolution is set exactly by initialize, before any price.
Configured ==
  /\ Initialized <=> resolution # 0
  /\ ~Initialized => \A asset \in Asset : /\ pending[asset] = <<>>
                                          /\ history[asset] = <<>>

\* Submissions carry timestamps of ledgers that have closed.
SubmittedByNow ==
  \A asset \in Asset : \A i \in DOMAIN pending[asset] :
    pending[asset][i].submitted_at <= now

IInv ==
  /\ TypeOK
  /\ Configured
  /\ SubmittedByNow
  /\ OneSubmissionPerWindow
  /\ HistoryOrdered

LEMMA InitIInv == Init => IInv
<1> SUFFICES ASSUME Init PROVE IInv
  OBVIOUS
<1>1. TypeOK
  BY OracleAssumption DEF Init, TypeOK, Timestamp
<1>2. Configured
  BY DEF Init, Configured, Initialized
<1>3. SubmittedByNow /\ OneSubmissionPerWindow /\ HistoryOrdered
  <2>1. \A asset \in Asset : DOMAIN pending[asset] = {} /\ DOMAIN history[asset] = {}
    BY DEF Init
  <2>2. QED
    BY <2>1 DEF SubmittedByNow, OneSubmissionPerWindow, HistoryOrdered
<1>4. QED
  BY <1>1, <1>2, <1>3 DEF IInv

LEMMA FunctionIsSeq ==
  ASSUME NEW S, NEW n \in Nat \ {0}, NEW f \in [1..n -> S]
  PROVE  f \in Seq(S)
BY SeqDef

\* The prices finalize_price sorts.
LEMMA SubmittedPricesType ==
  ASSUME TypeOK, NEW asset \in Asset, pending[asset] # <<>>
  PROVE  /\ SubmittedPrices(asset) \in Seq(1..MaxI128)
         /\ SubmittedPrices(asset) \in Seq(Int)
         /\ SubmittedPrices(asset) # <<>>
<1>1. pending[asset] \in Seq(Submission) /\ Len(pending[asset]) \in Nat \ {0}
  BY EmptySeq DEF TypeOK
<1>2. \A i \in 1..Len(pending[asset]) : pending[asset][i].price \in 1..MaxI128
  <2>1. pending[asset] \in [1..Len(pending[asset]) -> Submission]
    BY <1>1, LenProperties, Zenon
  <2>2. QED
    BY <2>1 DEF Submission
<1>3. SubmittedPrices(asset) \in [1..Len(pending[asset]) -> 1..MaxI128]
  BY <1>2 DEF SubmittedPrices
<1>4. SubmittedPrices(asset) \in Seq(1..MaxI128)
  BY <1>1, <1>3, FunctionIsSeq, Zenon
<1>5. 1..MaxI128 \subseteq Int
  OBVIOUS
<1>6. SubmittedPrices(asset) \in Seq(Int)
  BY <1>4, <1>5, SeqMonotonic, Zenon
<1>7. Len(SubmittedPrices(asset)) = Len(pending[asset])
  BY <1>1, <1>3
<1>8. QED
  BY <1>1, <1>4, <1>6, <1>7

LEMMA ResolutionType == TypeOK => resolution \in Nat /\ now \in Nat
BY OracleAssumption DEF TypeOK, Timestamp

\* The record of a finalization: a price, stamped with the current window.
LEMMA FinalRecordProperties ==
  ASSUME TypeOK, NEW asset \in Asset, pending[asset] # <<>>
  PROVE  /\ FinalRecord(asset) \in PriceData
         /\ FinalRecord(asset).timestamp = RoundToWindow(now)
         /\ FinalRecord(asset).price = Median(SubmittedPrices(asset))
<1>1. Median(SubmittedPrices(asset)) \in 1..MaxI128
  BY SubmittedPricesType, MedianIsPrice
<1>2. RoundToWindow(now) \in Timestamp
  BY ResolutionType, Rounding, OracleAssumption DEF TypeOK, Timestamp
<1>3. QED
  BY <1>1, <1>2 DEF FinalRecord, PriceData

(***************************************************************************)
(* Every step preserves the inductive invariant.                           *)
(***************************************************************************)
LEMMA NextTypeOK == TypeOK /\ Configured /\ [Next]_vars => TypeOK'
<1> SUFFICES ASSUME TypeOK, Configured, [Next]_vars
             PROVE  TypeOK'
  OBVIOUS
<1>1. ASSUME NEW caller \in Address, NEW length \in Resolutions,
             Initialize(caller, length)
      PROVE  TypeOK'
  BY <1>1, OracleAssumption DEF Initialize, TypeOK
<1>2. ASSUME NEW caller \in Address, NEW node \in Address,
             AddNode(caller, node) \/ RemoveNode(caller, node)
      PROVE  TypeOK'
  BY <1>2 DEF AddNode, RemoveNode, TypeOK
<1>3. ASSUME NEW caller \in Address, NEW new \in Thresholds,
             SetThreshold(caller, new)
      PROVE  TypeOK'
  BY <1>3 DEF SetThreshold, TypeOK
<1>4. ASSUME NEW caller \in Address, NEW new \in Retentions,
             SetRetention(caller, new)
      PROVE  TypeOK'
  BY <1>4 DEF SetRetention, TypeOK
<1>5. ASSUME NEW caller \in Address, NEW asset \in Asset,
             AddCommodity(caller, asset)
      PROVE  TypeOK'
  BY <1>5 DEF AddCommodity, TypeOK
<1>6. ASSUME NEW node \in Address, NEW asset \in Asset, NEW price \in Prices,
             SubmitPrice(node, asset, price)
      PROVE  TypeOK'
  <2> DEFINE new == [node |-> node, price |-> price, submitted_at |-> now]
  <2>1. price \in 1..MaxI128
    BY <1>6, OracleAssumption, MaxI128Assumption DEF SubmitPrice
  <2>2. new \in Submission
    BY <2>1 DEF Submission, TypeOK
  <2> HIDE DEF new
  <2>3. Append(pending[asset], new) \in Seq(Submission)
    BY <2>2, AppendProperties DEF TypeOK
  <2>4. pending' = [pending EXCEPT ![asset] = Append(pending[asset], new)]
    BY <1>6 DEF SubmitPrice, new
  <2>5. pending' \in [Asset -> Seq(Submission)]
    BY <2>3, <2>4 DEF TypeOK
  <2>6. QED
    BY <1>6, <2>5 DEF SubmitPrice, config, TypeOK
<1>7. ASSUME NEW asset \in Asset, FinalizePrice(asset)
      PROVE  TypeOK'
  <2> DEFINE longer == Append(history[asset], FinalRecord(asset))
  <2>1. FinalRecord(asset) \in PriceData
    BY <1>7, FinalRecordProperties DEF FinalizePrice, ThresholdMet
  <2>2. longer \in Seq(PriceData) /\ longer # <<>>
    BY <2>1, AppendProperties DEF TypeOK
  <2>3. retention \in Nat \ {0}
    BY OracleAssumption DEF TypeOK
  <2>4. history' = [history EXCEPT ![asset] = LastRecords(longer, retention)]
    BY <1>7 DEF FinalizePrice
  <2> HIDE DEF longer
  <2>5. LastRecords(longer, retention) \in Seq(PriceData)
    BY <2>2, <2>3, LastRecordsProperties
  <2>6. history' \in [Asset -> Seq(PriceData)]
    BY <2>4, <2>5 DEF TypeOK
  <2>7. pending' \in [Asset -> Seq(Submission)]
    <3>1. <<>> \in Seq(Submission)
      OBVIOUS
    <3>2. pending' = [pending EXCEPT ![asset] = <<>>]
      BY <1>7 DEF FinalizePrice
    <3>3. QED
      BY <3>1, <3>2 DEF TypeOK
  <2>8. QED
    BY <1>7, <2>6, <2>7 DEF FinalizePrice, config, TypeOK
<1>8. CASE Tick
  BY <1>8 DEF Tick, config, TypeOK
<1>9. CASE UNCHANGED vars
  BY <1>9 DEF vars, config, TypeOK
<1>10. QED
  BY <1>1, <1>2, <1>3, <1>4, <1>5, <1>6, <1>7, <1>8, <1>9 DEF Next

\* What administration after initialize leaves alone is all the invariant is
\* about.
LEMMA QuietStep ==
  ASSUME IInv, TypeOK', UNCHANGED <<now, admin, resolution, pending, history>>
  PROVE  IInv'
<1>1. Configured'
  BY DEF IInv, Configured, Initialized
<1>2. SubmittedByNow'
  BY DEF IInv, SubmittedByNow
<1>3. OneSubmissionPerWindow' /\ HistoryOrdered'
  BY DEF IInv, OneSubmissionPerWindow, HistoryOrdered, RoundToWindow
<1>4. QED
  BY <1>1, <1>2, <1>3 DEF IInv

\* initialize sets the resolution while there is nothing to round.
LEMMA InitializeStep ==
  ASSUME IInv, TypeOK', NEW caller \in Address, NEW length \in Resolutions,
         Initialize(caller, length)
  PROVE  IInv'
<1>1. \A asset \in Asset : /\ pending[asset] = <<>> /\ pending'[asset] = <<>>
                           /\ history[asset] = <<>> /\ history'[asset] = <<>>
  BY DEF Initialize, IInv, Configured
<1>2. Configured'
  BY <1>1, OracleAssumption DEF Initialize, Configured, Initialized
<1>3. SubmittedByNow' /\ OneSubmissionPerWindow' /\ HistoryOrdered'
  <2>1. DOMAIN <<>> = {}
    OBVIOUS
  <2>2. \A asset \in Asset : DOMAIN pending'[asset] = {} /\ DOMAIN history'[asset] = {}
    BY <1>1, <2>1
  <2>3. QED
    BY <2>2 DEF SubmittedByNow, OneSubmissionPerWindow, HistoryOrdered
<1>4. QED
  BY <1>2, <1>3 DEF IInv

\* The node's earlier submissions were recorded before the current window, so
\* they round to earlier windows than now does.
LEMMA SubmitPriceStep ==
  ASSUME IInv, TypeOK',
         NEW node \in Address, NEW asset \in Asset, NEW price \in Prices,
         SubmitPrice(node, asset, price)
  PROVE  IInv'
<1> DEFINE new == [node |-> node, price |-> price, submitted_at |-> now]
<1> DEFINE before == pending[asset]
<1> DEFINE after == pending'[asset]
<1>1. /\ UNCHANGED <<now, admin, resolution, history>>
      /\ pending' = [pending EXCEPT ![asset] = Append(before, new)]
      /\ ~IsDuplicate(node, asset)
      /\ Initialized
  BY DEF SubmitPrice, config
<1>2. before \in Seq(Submission) /\ after = Append(before, new)
  BY <1>1 DEF IInv, TypeOK
<1>3. /\ Len(before) \in Nat
      /\ DOMAIN before = 1..Len(before)
      /\ DOMAIN after = 1..(Len(before) + 1)
      /\ \A i \in 1..Len(before) : after[i] = before[i]
      /\ after[Len(before) + 1] = new
  BY <1>2
<1>4. \A other \in Asset : other # asset => pending'[other] = pending[other]
  BY <1>1 DEF IInv, TypeOK
<1>5. now \in Nat /\ resolution \in Nat
  BY ResolutionType DEF IInv
<1>6. \A i \in 1..Len(before) : /\ before[i].submitted_at \in Nat
                                /\ before[i].submitted_at <= now
  <2>1. before \in [1..Len(before) -> Submission]
    BY <1>2, LenProperties, Zenon
  <2>2. QED
    BY <1>3, <2>1 DEF IInv, SubmittedByNow, Submission, Timestamp
<1>7. Configured'
  BY <1>1 DEF IInv, Configured, Initialized
<1>8. SubmittedByNow'
  <2> SUFFICES ASSUME NEW a \in Asset, NEW i \in DOMAIN pending'[a]
               PROVE  pending'[a][i].submitted_at <= now'
    BY DEF SubmittedByNow
  <2>1. CASE a # asset
    BY <1>1, <1>4, <2>1 DEF IInv, SubmittedByNow
  <2>2. CASE a = asset
    BY <1>1, <1>3, <1>5, <1>6, <2>2
  <2>3. QED
    BY <2>1, <2>2
<1>9. OneSubmissionPerWindow'
  <2> SUFFICES ASSUME NEW a \in Asset,
                      NEW i \in DOMAIN pending'[a], NEW j \in DOMAIN pending'[a],
                      i < j, pending'[a][i].node = pending'[a][j].node
               PROVE  RoundToWindow(pending'[a][i].submitted_at)
                        # RoundToWindow(pending'[a][j].submitted_at)
    BY <1>1 DEF OneSubmissionPerWindow, RoundToWindow
  <2>1. CASE a # asset
    BY <1>4, <2>1 DEF IInv, OneSubmissionPerWindow
  <2>2. CASE a = asset /\ j \in 1..Len(before)
    <3>1. i \in DOMAIN before /\ j \in DOMAIN before
      BY <1>3, <2>2
    <3>2. pending'[a][i] = pending[a][i] /\ pending'[a][j] = pending[a][j]
      BY <1>3, <2>2, <3>1
    <3>3. QED
      BY <2>2, <3>1, <3>2 DEF IInv, OneSubmissionPerWindow
  <2>3. CASE a = asset /\ j = Len(before) + 1
    <3>1. i \in 1..Len(before) /\ before[i].node = node
      BY <1>3, <2>3
    <3>2. ~(before[i].submitted_at >= RoundToWindow(now))
      BY <1>1, <1>3, <3>1 DEF IsDuplicate
    <3> DEFINE s == before[i].submitted_at
    <3>3. s \in Nat /\ s <= now
      BY <1>6, <3>1
    <3> HIDE DEF s
    <3>4. RoundToWindow(s) <= s /\ RoundToWindow(s) \in Nat /\ RoundToWindow(now) \in Nat
      BY <1>5, <3>3, Rounding
    <3>5. RoundToWindow(s) # RoundToWindow(now)
      BY <3>2, <3>3, <3>4 DEF s
    <3>6. QED
      BY <1>3, <2>3, <3>1, <3>5 DEF s
  <2>4. QED
    BY <1>3, <2>1, <2>2, <2>3
<1>10. HistoryOrdered'
  BY <1>1 DEF IInv, HistoryOrdered, RoundToWindow
<1>11. QED
  BY <1>7, <1>8, <1>9, <1>10 DEF IInv

\* The new record is stamped with the current window, which no kept record is
\* ahead of.
LEMMA FinalizePriceStep ==
  ASSUME IInv, TypeOK', NEW asset \in Asset, FinalizePrice(asset)
  PROVE  IInv'
<1> DEFINE before == history[asset]
<1> DEFINE longer == Append(before, FinalRecord(asset))
<1> DEFINE after == history'[asset]
<1>1. /\ UNCHANGED <<now, admin, resolution>>
      /\ Initialized
      /\ pending[asset] # <<>>
      /\ pending' = [pending EXCEPT ![asset] = <<>>]
      /\ history' = [history EXCEPT ![asset] = LastRecords(longer, retention)]
  BY DEF FinalizePrice, ThresholdMet, config
<1>2. /\ pending'[asset] = <<>>
      /\ \A other \in Asset : other # asset => /\ pending'[other] = pending[other]
                                               /\ history'[other] = history[other]
  BY <1>1 DEF IInv, TypeOK
<1>3. Configured'
  BY <1>1 DEF IInv, Configured, Initialized
<1>4. SubmittedByNow' /\ OneSubmissionPerWindow'
  <2>1. DOMAIN pending'[asset] = {}
    BY <1>2
  <2>2. SubmittedByNow'
    BY <1>1, <1>2, <2>1 DEF IInv, SubmittedByNow
  <2>3. OneSubmissionPerWindow'
    BY <1>1, <1>2, <2>1 DEF IInv, OneSubmissionPerWindow, RoundToWindow
  <2>4. QED
    BY <2>2, <2>3
<1>5. now \in Nat /\ resolution \in Nat
  BY ResolutionType DEF IInv
<1>6. /\ FinalRecord(asset) \in PriceData
      /\ FinalRecord(asset).timestamp = RoundToWindow(now)
  BY <1>1, FinalRecordProperties DEF IInv
<1>7. /\ before \in Seq(PriceData)
      /\ longer \in Seq(PriceData)
      /\ longer # <<>>
      /\ Len(before) \in Nat
      /\ Len(longer) = Len(before) + 1
      /\ \A i \in 1..Len(before) : longer[i] = before[i]
      /\ longer[Len(before) + 1] = FinalRecord(asset)
  <2>1. before \in Seq(PriceData)
    BY DEF IInv, TypeOK
  <2>2. Len(before) \in Nat
    BY <2>1, LenProperties
  <2> DEFINE record == FinalRecord(asset)
  <2>3. record \in PriceData
    BY <1>6
  <2> HIDE DEF before, record
  <2>4. /\ Append(before, record) \in Seq(PriceData)
        /\ Append(before, record) # <<>>
        /\ Len(Append(before, record)) = Len(before) + 1
        /\ \A i \in 1..Len(before) : Append(before, record)[i] = before[i]
        /\ Append(before, record)[Len(before) + 1] = record
    BY <2>1, <2>2, <2>3, AppendProperties
  <2>5. QED
    BY <2>1, <2>2, <2>4 DEF record
<1>8. \A i \in 1..Len(before) :
        /\ before[i].timestamp \in Nat
        /\ before[i].timestamp <= now
        /\ RoundToWindow(before[i].timestamp) = before[i].timestamp
        /\ \A j \in 1..i : before[j].timestamp <= before[i].timestamp
  <2>1. before \in [1..Len(before) -> PriceData] /\ DOMAIN before = 1..Len(before)
    BY <1>7, LenProperties, Zenon
  <2>2. QED
    BY <2>1 DEF IInv, HistoryOrdered, PriceData, Timestamp
<1>9. /\ RoundToWindow(now) \in Nat
      /\ RoundToWindow(now) <= now
      /\ RoundToWindow(RoundToWindow(now)) = RoundToWindow(now)
  BY <1>5, Rounding
<1>10. \A i \in 1..Len(before) : before[i].timestamp <= RoundToWindow(now)
  <2> TAKE i \in 1..Len(before)
  <2> DEFINE t == before[i].timestamp
  <2>1. t \in Nat /\ t <= now /\ RoundToWindow(t) = t
    BY <1>8
  <2> HIDE DEF t
  <2>2. t <= RoundToWindow(now)
    BY <1>5, <2>1, Rounding
  <2>3. QED
    BY <2>2 DEF t
<1>11. \A i \in 1..Len(longer) :
         /\ longer[i].timestamp <= now
         /\ RoundToWindow(longer[i].timestamp) = longer[i].timestamp
         /\ \A j \in 1..i : longer[j].timestamp <= longer[i].timestamp
  <2> HIDE DEF before, longer
  <2> TAKE i \in 1..Len(longer)
  <2>1. CASE i \in 1..Len(before)
    <3>1. \A j \in 1..i : j \in 1..Len(before)
      BY <1>7, <2>1
    <3>2. QED
      BY <1>7, <1>8, <2>1, <3>1
  <2>2. CASE i = Len(before) + 1
    <3>1. longer[i].timestamp = RoundToWindow(now)
      BY <1>6, <1>7, <2>2
    <3>2. \A j \in 1..i : j \in 1..Len(before) \/ j = Len(before) + 1
      BY <1>7, <2>2
    <3>3. \A j \in 1..i : longer[j].timestamp <= RoundToWindow(now)
      BY <1>6, <1>7, <1>9, <1>10, <3>2
    <3>4. QED
      BY <1>9, <3>1, <3>3
  <2>3. QED
    BY <1>7, <2>1, <2>2
<1>12. /\ after \in Seq(PriceData)
       /\ Len(after) \in Nat
       /\ DOMAIN after = 1..Len(after)
       /\ Len(after) <= Len(longer)
       /\ \A i \in 1..Len(after) :
            /\ Len(longer) - Len(after) + i \in 1..Len(longer)
            /\ after[i] = longer[Len(longer) - Len(after) + i]
  <2>1. retention \in Nat \ {0}
    BY OracleAssumption DEF IInv, TypeOK
  <2>2. after = LastRecords(longer, retention)
    BY <1>1 DEF IInv, TypeOK
  <2> HIDE DEF longer, after
  <2>3. longer \in Seq(PriceData) /\ longer # <<>>
    BY <1>7
  <2>4. /\ after \in Seq(PriceData)
        /\ Len(after) \in Nat
        /\ Len(after) <= Len(longer)
        /\ \A i \in 1..Len(after) :
             /\ Len(longer) - Len(after) + i \in 1..Len(longer)
             /\ after[i] = longer[Len(longer) - Len(after) + i]
    BY <2>1, <2>2, <2>3, LastRecordsProperties
  <2>5. DOMAIN after = 1..Len(after)
    BY <2>4, LenProperties
  <2>6. QED
    BY <2>4, <2>5
<1>13. \A i \in 1..Len(after) :
         /\ after[i].timestamp <= now
         /\ RoundToWindow(after[i].timestamp) = after[i].timestamp
         /\ \A j \in 1..i : after[j].timestamp <= after[i].timestamp
  <2> HIDE DEF before, longer, after
  <2> TAKE i \in 1..Len(after)
  <2> DEFINE d == Len(longer) - Len(after)
  <2>1. d \in Nat /\ d + i \in 1..Len(longer) /\ after[i] = longer[d + i]
    BY <1>7, <1>12
  <2>2. \A j \in 1..i : d + j \in 1..(d + i) /\ after[j] = longer[d + j]
    BY <1>12, <2>1
  <2> HIDE DEF d
  <2>3. QED
    BY <1>11, <2>1, <2>2
<1>14. HistoryOrdered'
  <2> SUFFICES ASSUME NEW a \in Asset, NEW i \in DOMAIN history'[a]
               PROVE  LET record == history'[a][i]
                      IN /\ record.timestamp <= now
                         /\ RoundToWindow(record.timestamp) = record.timestamp
                         /\ \A j \in 1..i :
                              history'[a][j].timestamp <= record.timestamp
    BY <1>1 DEF HistoryOrdered, RoundToWindow
  <2>1. CASE a # asset
    BY <1>2, <2>1 DEF IInv, HistoryOrdered
  <2>2. CASE a = asset
    BY <1>12, <1>13, <2>2
  <2>3. QED
    BY <2>1, <2>2
<1>15. QED
  BY <1>3, <1>4, <1>14 DEF IInv

LEMMA TickStep ==
  ASSUME IInv, TypeOK', Tick
  PROVE  IInv'
<1>1. /\ UNCHANGED <<admin, resolution, pending, history>>
      /\ now \in Nat /\ now' \in Nat /\ now < now'
  BY ResolutionType DEF Tick, config, IInv, Timestamp
<1>2. Configured'
  BY <1>1 DEF IInv, Configured, Initialized
<1>3. OneSubmissionPerWindow'
  BY <1>1 DEF IInv, OneSubmissionPerWindow, RoundToWindow
<1>4. SubmittedByNow'
  <2> SUFFICES ASSUME NEW a \in Asset, NEW i \in DOMAIN pending[a]
               PROVE  pending[a][i].submitted_at <= now'
    BY <1>1 DEF SubmittedByNow
  <2>1. pending[a] \in [1..Len(pending[a]) -> Submission] /\ i \in 1..Len(pending[a])
    BY LenProperties, Zenon DEF IInv, TypeOK
  <2>2. pending[a][i].submitted_at \in Nat
    BY <2>1 DEF Submission, Timestamp
  <2>3. pending[a][i].submitted_at <= now
    BY DEF IInv, SubmittedByNow
  <2>4. QED
    BY <1>1, <2>2, <2>3
<1>5. HistoryOrdered'
  <2> SUFFICES ASSUME NEW a \in Asset, NEW i \in DOMAIN history[a]
               PROVE  LET record == history[a][i]
                      IN /\ record.timestamp <= now'
                         /\ RoundToWindow(record.timestamp) = record.timestamp
                         /\ \A j \in 1..i :
                              history[a][j].timestamp <= record.timestamp
    BY <1>1 DEF HistoryOrdered, RoundToWindow
  <2>1. history[a] \in [1..Len(history[a]) -> PriceData] /\ i \in 1..Len(history[a])
    BY LenProperties, Zenon DEF IInv, TypeOK
  <2>2. history[a][i].timestamp \in Nat
    BY <2>1 DEF PriceData, Timestamp
  <2>3. QED
    BY <1>1, <2>2 DEF IInv, HistoryOrdered
<1>6. QED
  BY <1>2, <1>3, <1>4, <1>5 DEF IInv

LEMMA NextIInv == IInv /\ [Next]_vars => IInv'
<1> SUFFICES ASSUME IInv, [Next]_vars
             PROVE  IInv'
  OBVIOUS
<1>1. TypeOK'
  BY NextTypeOK DEF IInv
<1>2. ASSUME NEW caller \in Address, NEW length \in Resolutions,
             Initialize(caller, length)
      PROVE  IInv'
  BY <1>1, <1>2, InitializeStep
<1>3. ASSUME NEW caller \in Address, NEW node \in Address,
             AddNode(caller, node) \/ RemoveNode(caller, node)
      PROVE  IInv'
  BY <1>1, <1>3, QuietStep DEF AddNode, RemoveNode
<1>4. ASSUME NEW caller \in Address, NEW new \in Thresholds,
             SetThreshold(caller, new)
      PROVE  IInv'
  BY <1>1, <1>4, QuietStep DEF SetThreshold
<1>5. ASSUME NEW caller \in Address, NEW new \in Retentions,
             SetRetention(caller, new)
      PROVE  IInv'
  BY <1>1, <1>5, QuietStep DEF SetRetention
<1>6. ASSUME NEW caller \in Address, NEW asset \in Asset,
             AddCommodity(caller, asset)
      PROVE  IInv'
  BY <1>1, <1>6, QuietStep DEF AddCommodity
<1>7. ASSUME NEW node \in Address, NEW asset \in Asset, NEW price \in Prices,
             SubmitPrice(node, asset, price)
      PROVE  IInv'
  BY <1>1, <1>7, SubmitPriceStep
<1>8. ASSUME NEW asset \in Asset, FinalizePrice(asset)
      PROVE  IInv'
  BY <1>1, <1>8, FinalizePriceStep
<1>9. CASE Tick
  BY <1>1, <1>9, TickStep
<1>10. CASE UNCHANGED vars
  BY <1>1, <1>10, QuietStep DEF vars, config
<1>11. QED
  BY <1>2, <1>3, <1>4, <1>5, <1>6, <1>7, <1>8, <1>9, <1>10 DEF Next

LEMMA Invariance == Spec => []IInv
<1>1. QED
  BY InitIInv, NextIInv, PTL DEF Spec

(***************************************************************************)
(* In every reachable state the oracle's variables have their types: among *)
(* others, whatever finalize_price writes is a positive i128 price.        *)
(***************************************************************************)
THEOREM OracleTypeOK == Spec => []TypeOK
<1>1. IInv => TypeOK
  BY DEF IInv
<1>2. QED
  BY <1>1, Invariance, PTL

(***************************************************************************)
(* submit_price never leaves two pending submissions of one node in one    *)
(* window, however nodes and windows come and go.                          *)
(***************************************************************************)
THEOREM OracleOneSubmissionPerWindow == Spec => []OneSubmissionPerWindow
<1>1. IInv => OneSubmissionPerWindow
  BY DEF IInv
<1>2. QED
  BY <1>1, Invariance, PTL

(***************************************************************************)
(* The histories that the SEP-40 reads return are in time order, aligned   *)
(* to windows and never ahead of the ledger, after any sequence of         *)
(* finalizations and prunings.                                             *)
(***************************************************************************)
THEOREM OracleHistoryOrdered == Spec => []HistoryOrdered
<1>1. IInv => HistoryOrdered
  BY DEF IInv
<1>2. QED
  BY <1>1, Invariance, PTL

\* Only finalize_price consumes pending submissions.
LEMMA OnlyFinalizePrice ==
  ASSUME IInv, [Next]_vars, NEW asset \in Asset, Finalizes(asset)
  PROVE  FinalizePrice(asset)
<1>1. \/ history'[asset] # history[asset]
      \/ pending'[asset] # pending[asset]
  <2>1. pending[asset] \in Seq(Submission)
    BY DEF IInv, TypeOK
  <2>2. Len(pending[asset]) \in Nat
    BY <2>1
  <2>. QED BY <2>2 DEF Finalizes
<1>2. ASSUME NEW node \in Address, NEW other \in Asset, NEW price \in Prices,
             SubmitPrice(node, other, price)
      PROVE  FALSE
  <2> DEFINE new == [node |-> node, price |-> price, submitted_at |-> now]
  <2>1. /\ pending' = [pending EXCEPT ![other] = Append(pending[other], new)]
        /\ history' = history
    BY <1>2 DEF SubmitPrice
  <2>2. other = asset
    BY <1>1, <2>1 DEF IInv, TypeOK
  <2> HIDE DEF new
  <2>3. pending'[asset] = Append(pending[asset], new)
    BY <2>1, <2>2 DEF IInv, TypeOK
  <2>4. pending[asset] \in Seq(Submission)
    BY DEF IInv, TypeOK
  <2>5. /\ Len(Append(pending[asset], new)) = Len(pending[asset]) + 1
        /\ Len(pending[asset]) \in Nat
    BY <2>4
  <2>6. QED
    BY <2>1, <2>3, <2>5 DEF Finalizes
<1>3. ASSUME NEW other \in Asset, FinalizePrice(other)
      PROVE  other = asset
  BY <1>1, <1>3 DEF FinalizePrice, IInv, TypeOK
<1>4. ASSUME NEW caller \in Address,
             \/ \E length \in Resolutions : Initialize(caller, length)
             \/ \E node \in Address : AddNode(caller, node)
             \/ \E node \in Address : RemoveNode(caller, node)
             \/ \E new \in Thresholds : SetThreshold(caller, new)
             \/ \E new \in Retentions : SetRetention(caller, new)
             \/ \E other \in Asset : AddCommodity(caller, other)
      PROVE  FALSE
  BY <1>1, <1>4 DEF Initialize, AddNode, RemoveNode, SetThreshold,
                    SetRetention, AddCommodity
<1>5. CASE Tick
  BY <1>1, <1>5 DEF Tick
<1>6. CASE UNCHANGED vars
  BY <1>1, <1>6 DEF vars
<1>7. QED
  BY <1>2, <1>3, <1>4, <1>5, <1>6 DEF Next

\* What a finalization leaves in the history.
LEMMA FinalizedHistory ==
  ASSUME IInv, NEW asset \in Asset, FinalizePrice(asset)
  PROVE  /\ Len(history'[asset]) <= retention
         /\ history'[asset] # <<>>
         /\ Last(history'[asset]) = FinalRecord(asset)
<1> DEFINE before == history[asset]
<1> DEFINE record == FinalRecord(asset)
<1> DEFINE longer == Append(before, record)
<1> DEFINE after == history'[asset]
<1>1. record \in PriceData
  BY FinalRecordProperties DEF FinalizePrice, ThresholdMet, IInv
<1>2. before \in Seq(PriceData) /\ retention \in Nat \ {0}
  BY OracleAssumption DEF IInv, TypeOK
<1>3. after = LastRecords(longer, retention)
  BY DEF FinalizePrice, IInv, TypeOK
<1> HIDE DEF before, record, after
<1>4. /\ longer \in Seq(PriceData)
      /\ longer # <<>>
      /\ Len(longer) \in Nat
      /\ longer[Len(longer)] = record
  BY <1>1, <1>2, AppendProperties, LenProperties
<1> HIDE DEF longer
<1>5. /\ after # <<>>
      /\ after \in Seq(PriceData)
      /\ Len(after) <= retention
      /\ Len(after) \in Nat
      /\ \A i \in 1..Len(after) :
           after[i] = longer[Len(longer) - Len(after) + i]
  BY <1>2, <1>3, <1>4, LastRecordsProperties
<1>6. Len(after) \in 1..Len(after)
  BY <1>5, EmptySeq
<1>7. after[Len(after)] = longer[Len(longer)]
  BY <1>4, <1>5, <1>6
<1>8. QED
  BY <1>4, <1>5, <1>7 DEF Last, after, record

(***************************************************************************)
(* finalize_price always leaves the history within the retention limit in  *)
(* force, also when set_retention lowered it below the present length.     *)
(***************************************************************************)
THEOREM OracleRetentionEnforced == Spec => RetentionEnforced
<1>1. IInv /\ [Next]_vars =>
        [\A asset \in Asset :
           Finalizes(asset) => Len(history'[asset]) <= retention]_vars
  BY OnlyFinalizePrice, FinalizedHistory
<1>2. QED
  BY <1>1, Invariance, PTL DEF Spec, RetentionEnforced

(***************************************************************************)
(* The price finalize_price publishes lies between the prices of any       *)
(* majority of the submissions it consumes.                                *)
(***************************************************************************)
THEOREM OracleMajorityBoundsPrice == Spec => MajorityBoundsPrice
<1> DEFINE Bounded(asset) ==
      LET prices == SubmittedPrices(asset)
          median == Last(history'[asset]).price
      IN  \A majority \in SUBSET DOMAIN prices :
            2 * Cardinality(majority) > Len(prices) =>
              /\ \E i \in majority : prices[i] <= median
              /\ \E i \in majority : prices[i] >= median
<1>1. ASSUME IInv, [Next]_vars, NEW asset \in Asset, Finalizes(asset)
      PROVE  Bounded(asset)
  <2>1. FinalizePrice(asset)
    BY <1>1, OnlyFinalizePrice
  <2>2. pending[asset] # <<>> /\ TypeOK
    BY <1>1, <2>1 DEF FinalizePrice, ThresholdMet, IInv
  <2>3. Last(history'[asset]).price = Median(SubmittedPrices(asset))
    BY <1>1, <2>1, <2>2, FinalizedHistory, FinalRecordProperties
  <2>4. SubmittedPrices(asset) \in Seq(Int)
    BY <2>2, SubmittedPricesType
  <2>5. QED
    BY <2>3, <2>4, MajorityBoundsMedian
<1>2. IInv /\ [Next]_vars =>
        [\A asset \in Asset : Finalizes(asset) => Bounded(asset)]_vars
  BY <1>1
<1>3. QED
  BY <1>2, Invariance, PTL DEF Spec, MajorityBoundsPrice

(***************************************************************************)
(* The oracle implements the abstract price feed.                          *)
(***************************************************************************)
\* Pruning keeps at least the newest record and nothing but the newest ones.
LEMMA LastRecordsKeep ==
  ASSUME NEW S, NEW records \in Seq(S), records # <<>>, NEW n \in Nat \ {0}
  PROVE  \E kept \in 1..Len(records) :
           LastRecords(records, n) = Feed!Keep(records, kept)
<1>1. Len(records) \in Nat \ {0}
  BY EmptySeq
<1>2. CASE Len(records) <= n
  <2>1. Feed!Keep(records, Len(records)) = SubSeq(records, 1, Len(records))
    BY <1>1 DEF Feed!Keep
  <2>2. SubSeq(records, 1, Len(records)) = records
    OBVIOUS
  <2>3. LastRecords(records, n) = records
    BY <1>2 DEF LastRecords
  <2>4. QED
    BY <1>1, <2>1, <2>2, <2>3
<1>3. CASE Len(records) > n
  BY <1>1, <1>3 DEF LastRecords, Feed!Keep
<1>4. QED
  BY <1>1, <1>2, <1>3

LEMMA FeedInit == Init => Feed!Init
BY DEF Init, Feed!Init

\* A finalization publishes its record.
LEMMA FeedPublish ==
  ASSUME IInv, NEW asset \in Asset, FinalizePrice(asset)
  PROVE  Feed!Next
<1> DEFINE before == history[asset]
<1> DEFINE record == FinalRecord(asset)
<1> DEFINE longer == Append(before, record)
<1>1. /\ record \in PriceData
      /\ record.timestamp = RoundToWindow(now)
  BY FinalRecordProperties DEF FinalizePrice, ThresholdMet, IInv
<1>2. /\ before \in Seq(PriceData)
      /\ retention \in Nat \ {0}
      /\ now \in Nat /\ resolution \in Nat
  BY OracleAssumption, ResolutionType DEF IInv, TypeOK
<1>3. /\ UNCHANGED now
      /\ history' = [history EXCEPT ![asset] = LastRecords(longer, retention)]
  BY DEF FinalizePrice
<1>4. record \in Feed!Record
  BY <1>1 DEF PriceData, Timestamp, Feed!Record
<1>5. record.timestamp <= now
  BY <1>1, <1>2, Rounding
<1>6. before # <<>> => Last(before).timestamp <= record.timestamp
  <2> SUFFICES ASSUME before # <<>>
               PROVE  Last(before).timestamp <= record.timestamp
    OBVIOUS
  <2> DEFINE t == Last(before).timestamp
  <2>1. /\ Len(before) \in 1..Len(before)
        /\ before \in [1..Len(before) -> PriceData]
        /\ DOMAIN before = 1..Len(before)
        /\ Last(before) = before[Len(before)]
    <3>1. Len(before) \in Nat \ {0}
      BY <1>2, EmptySeq
    <3>2. before \in [1..Len(before) -> PriceData] /\ DOMAIN before = 1..Len(before)
      BY <1>2, LenProperties, Zenon
    <3>3. QED
      BY <3>1, <3>2 DEF Last
  <2>2. t \in Nat /\ t <= now /\ RoundToWindow(t) = t
    BY <2>1 DEF IInv, HistoryOrdered, PriceData, Timestamp
  <2> HIDE DEF t
  <2>3. t <= RoundToWindow(now)
    BY <1>2, <2>2, Rounding
  <2>4. QED
    BY <1>1, <2>3 DEF t
<1>7. PICK kept \in 1..(Len(before) + 1) :
             LastRecords(longer, retention) = Feed!Keep(longer, kept)
  <2> HIDE DEF before, record
  <2>1. /\ longer \in Seq(PriceData)
        /\ longer # <<>>
        /\ Len(longer) = Len(before) + 1
    BY <1>1, <1>2, AppendProperties
  <2> HIDE DEF longer
  <2>2. QED
    BY <1>2, <2>1, LastRecordsKeep
<1>8. Feed!Publish(asset, record)
  <2>1. history' = [history EXCEPT ![asset] =
                      Feed!Keep(Append(history[asset], record), kept)]
    BY <1>3, <1>7
  <2> HIDE DEF record
  <2>2. QED
    BY <1>3, <1>5, <1>6, <2>1 DEF Feed!Publish, Last, Feed!Last
<1>9. QED
  BY <1>4, <1>8 DEF Feed!Next

LEMMA FeedStep == IInv /\ [Next]_vars => [Feed!Next]_<<now, history>>
<1> SUFFICES ASSUME IInv, [Next]_vars
             PROVE  Feed!Next \/ UNCHANGED <<now, history>>
  OBVIOUS
<1>1. ASSUME NEW caller \in Address,
             \/ \E length \in Resolutions : Initialize(caller, length)
             \/ \E node \in Address : AddNode(caller, node)
             \/ \E node \in Address : RemoveNode(caller, node)
             \/ \E new \in Thresholds : SetThreshold(caller, new)
             \/ \E new \in Retentions : SetRetention(caller, new)
             \/ \E asset \in Asset : AddCommodity(caller, asset)
      PROVE  UNCHANGED <<now, history>>
  BY <1>1 DEF Initialize, AddNode, RemoveNode, SetThreshold, SetRetention,
              AddCommodity
<1>2. ASSUME NEW node \in Address, NEW asset \in Asset, NEW price \in Prices,
             SubmitPrice(node, asset, price)
      PROVE  UNCHANGED <<now, history>>
  BY <1>2 DEF SubmitPrice
<1>3. ASSUME NEW asset \in Asset, FinalizePrice(asset)
      PROVE  Feed!Next
  BY <1>3, FeedPublish
<1>4. CASE Tick
  BY <1>4 DEF Tick, Timestamp, Feed!Next, Feed!Tick
<1>5. CASE UNCHANGED vars
  BY <1>5 DEF vars
<1>6. QED
  BY <1>1, <1>2, <1>3, <1>4, <1>5 DEF Next

(***************************************************************************)
(* What the consumers of the feed rely on: once priced always priced, in   *)
(* time order, no record altered or taken back.                            *)
(***************************************************************************)
THEOREM OracleImplementsPriceFeed == Spec => ImplementsPriceFeed
<1>1. QED
  BY FeedInit, FeedStep, Invariance, PTL DEF Spec, ImplementsPriceFeed, Feed!Spec
(***************************************************************************)
(* The SEP-40 lookup.                                                      *)
(***************************************************************************)
\* price() finds a record exactly if one carries the start of the queried
\* window.
LEMMA PriceFound ==
  ASSUME TypeOK, NEW asset \in Asset, NEW t \in Timestamp
  PROVE  Price(asset, t) = None <=>
           \A i \in DOMAIN history[asset] :
             history[asset][i].timestamp # RoundToWindow(t)
<1> DEFINE w == RoundToWindow(t)
<1> DEFINE I == {i \in 1..Len(history[asset]) : history[asset][i].timestamp = w}
<1>1. /\ history[asset] \in Seq(PriceData)
      /\ DOMAIN history[asset] = 1..Len(history[asset])
      /\ Len(history[asset]) \in Nat
  BY LenProperties DEF TypeOK
<1>2. Price(asset, t) = LET found == IF I # {} THEN Min(I) ELSE 0
                        IN  IF found = 0 THEN None
                            ELSE Some(history[asset][found])
  BY DEF Price, SelectInSeq
<1>3. ASSUME I # {}
      PROVE  Min(I) # 0
  <2>1. I \subseteq Nat /\ 0 \notin I
    BY <1>1
  <2>2. PICK least \in I : \A i \in I : least <= i
    BY <1>3, <2>1, LeastNatural
  <2>3. Min(I) \in I
    BY <2>2 DEF Min
  <2>4. QED
    BY <2>1, <2>3
<1>4. I = {} <=> \A i \in DOMAIN history[asset] :
                   history[asset][i].timestamp # w
  BY <1>1
<1> HIDE DEF I, w
<1>5. Price(asset, t) = None <=> I = {}
  BY <1>2, <1>3 DEF None, Some
<1>6. QED
  BY <1>4, <1>5 DEF w

\* The same of the state a step leads to.
LEMMA PriceFoundAfter ==
  TypeOK' => \A asset \in Asset, t \in Timestamp :
    Price(asset, t)' = None <=>
      \A i \in DOMAIN history'[asset] :
        history'[asset][i].timestamp # RoundToWindow(t)'
<1>1. TypeOK => \A asset \in Asset, t \in Timestamp :
        Price(asset, t) = None <=>
          \A i \in DOMAIN history[asset] :
            history[asset][i].timestamp # RoundToWindow(t)
  BY PriceFound
<1>2. (TypeOK => \A asset \in Asset, t \in Timestamp :
         Price(asset, t) = None <=>
           \A i \in DOMAIN history[asset] :
             history[asset][i].timestamp # RoundToWindow(t))'
  BY <1>1, PTL
<1>3. QED
  BY <1>2 DEF Timestamp, None

\* A start of a window is the rounded timestamp of exactly the instants from
\* it up to the next start.
LEMMA InWindow ==
  ASSUME resolution \in Nat \ {0}, NEW w \in Nat, NEW t \in Nat,
         RoundToWindow(w) = w
  PROVE  w = RoundToWindow(t) <=> w <= t /\ t < w + resolution
<1> DEFINE r == resolution
<1> DEFINE a == w \div r
<1> DEFINE b == t \div r
<1>1. w = a * r /\ RoundToWindow(t) = b * r
  BY DEF RoundToWindow
<1>2. r \in Nat \ {0}
  OBVIOUS
<1>3. a \in Nat /\ b \in Nat /\ b * r <= t /\ t < b * r + r
  BY <1>2, Quotient
<1> HIDE DEF r, a, b
<1>4. a * r \in Nat /\ b * r \in Nat
  BY <1>2, <1>3, FactorOrder
<1>5. ASSUME w <= t, t < w + r
      PROVE  a = b
  <2>1. a * r < b * r + r /\ b * r < a * r + r
    BY <1>1, <1>2, <1>3, <1>4, <1>5
  <2>2. a <= b /\ b <= a
    BY <1>2, <1>3, <2>1, FactorOrder
  <2>3. QED
    BY <1>3, <2>2
<1>6. QED
  BY <1>1, <1>2, <1>3, <1>5 DEF r

(***************************************************************************)
(* price() answers with a record for exactly the instants of the windows   *)
(* the kept records were finalized in.                                     *)
(***************************************************************************)
THEOREM OracleWindowLookup == Spec => []WindowLookup
<1>1. ASSUME IInv, NEW asset \in Asset, NEW t \in Timestamp
      PROVE  Price(asset, t) # None <=>
               \E record \in Range(history[asset]) :
                 record.timestamp <= t /\ t < record.timestamp + resolution
  <2>1. Price(asset, t) = None <=>
          \A i \in DOMAIN history[asset] :
            history[asset][i].timestamp # RoundToWindow(t)
    BY <1>1, PriceFound DEF IInv
  <2>2. ASSUME NEW i \in DOMAIN history[asset]
        PROVE  history[asset][i].timestamp = RoundToWindow(t) <=>
                 /\ history[asset][i].timestamp <= t
                 /\ t < history[asset][i].timestamp + resolution
    <3> DEFINE w == history[asset][i].timestamp
    <3>1. history[asset] \in [1..Len(history[asset]) -> PriceData]
      BY <1>1, LenProperties, Zenon DEF IInv, TypeOK
    <3>2. w \in Nat /\ t \in Nat
      BY <2>2, <3>1 DEF PriceData, Timestamp
    <3>3. RoundToWindow(w) = w
      BY <1>1 DEF IInv, HistoryOrdered
    <3>4. resolution \in Nat \ {0}
      <4>1. history[asset] # <<>>
        BY <2>2
      <4>2. QED
        BY <1>1, <4>1, ResolutionType DEF IInv, Configured
    <3> HIDE DEF w
    <3>5. QED
      BY <3>2, <3>3, <3>4, InWindow DEF w
  <2>3. QED
    BY <2>1, <2>2, Zenon DEF Range
<1>2. IInv => WindowLookup
  BY <1>1 DEF WindowLookup
<1>3. QED
  BY <1>2, Invariance, PTL

(***************************************************************************)
(* What one step does to the records of an asset.                          *)
(***************************************************************************)
\* A step keeps the records of an asset, drops some, or appends one stamped
\* with the current window.
LEMMA RecordsOfStep ==
  ASSUME IInv, [Next]_vars, NEW asset \in Asset, NEW i \in DOMAIN history'[asset]
  PROVE  \/ history'[asset][i].timestamp = RoundToWindow(now)
         \/ \E j \in DOMAIN history[asset] : history'[asset][i] = history[asset][j]
<1>1. CASE history'[asset] = history[asset]
  BY <1>1
<1>2. ASSUME NEW other \in Asset, FinalizePrice(other)
      PROVE  \/ history'[asset][i].timestamp = RoundToWindow(now)
             \/ \E j \in DOMAIN history[asset] :
                  history'[asset][i] = history[asset][j]
  <2>1. CASE other # asset
    BY <1>1, <1>2, <2>1 DEF FinalizePrice, IInv, TypeOK
  <2>2. CASE other = asset
    <3> DEFINE before == history[asset]
    <3> DEFINE record == FinalRecord(asset)
    <3> DEFINE longer == Append(before, record)
    <3> DEFINE after == history'[asset]
    <3>1. record \in PriceData /\ record.timestamp = RoundToWindow(now)
      BY <1>2, <2>2, FinalRecordProperties DEF FinalizePrice, ThresholdMet, IInv
    <3>2. before \in Seq(PriceData) /\ retention \in Nat \ {0}
      BY OracleAssumption DEF IInv, TypeOK
    <3>3. after = LastRecords(longer, retention)
      BY <1>2, <2>2 DEF FinalizePrice, IInv, TypeOK
    <3>4. i \in DOMAIN after
      OBVIOUS
    <3> HIDE DEF before, record, after
    <3>5. /\ longer \in Seq(PriceData)
          /\ longer # <<>>
          /\ Len(longer) \in Nat
      BY <3>1, <3>2, AppendProperties, LenProperties
    <3>6. /\ Len(longer) = Len(before) + 1
          /\ Len(before) \in Nat
          /\ DOMAIN before = 1..Len(before)
          /\ longer[Len(before) + 1] = record
          /\ \A k \in 1..Len(before) : longer[k] = before[k]
      BY <3>1, <3>2, AppendProperties, LenProperties
    <3> HIDE DEF longer
    <3>7. /\ after # <<>>
          /\ after \in Seq(PriceData)
          /\ Len(after) <= retention
          /\ Len(after) \in Nat
          /\ \A k \in 1..Len(after) :
               /\ Len(longer) - Len(after) + k \in 1..Len(longer)
               /\ after[k] = longer[Len(longer) - Len(after) + k]
      BY <3>2, <3>3, <3>5, LastRecordsProperties
    <3> DEFINE shift == Len(longer) - Len(after)
    <3>8. i \in 1..Len(after)
      BY <3>4, <3>7, LenProperties
    <3>9. shift + i \in 1..(Len(before) + 1) /\ after[i] = longer[shift + i]
      BY <3>6, <3>7, <3>8
    <3> HIDE DEF shift
    <3>10. PICK k \in 1..(Len(before) + 1) : after[i] = longer[k]
      BY <3>9
    <3>11. after[i] = record \/ \E j \in DOMAIN before : after[i] = before[j]
      BY <3>6, <3>10
    <3>12. QED
      BY <3>1, <3>11 DEF after, before
  <2>3. QED
    BY <2>1, <2>2
<1>3. QED
  <2>1. \/ history' = history
        \/ \E other \in Asset : FinalizePrice(other)
    BY DEF Next, vars, config, Initialize, AddNode, RemoveNode, SetThreshold,
           SetRetention, AddCommodity, SubmitPrice, Tick
  <2>2. QED
    BY <1>1, <1>2, <2>1

\* The resolution is fixed by initialize.
LEMMA ResolutionFixed ==
  ASSUME [Next]_vars, Initialized
  PROVE  resolution' = resolution
BY DEF Next, vars, config, Initialize, AddNode, RemoveNode, SetThreshold,
       SetRetention, AddCommodity, SubmitPrice, FinalizePrice, Tick

(***************************************************************************)
(* No finalization, prune or administration gives a past window that had   *)
(* no price a price.                                                       *)
(***************************************************************************)
THEOREM OracleClosedWindowsStayClosed == Spec => ClosedWindowsStayClosed
<1>1. ASSUME IInv, IInv', [Next]_vars, Initialized,
             NEW asset \in Asset, NEW t \in Timestamp,
             RoundToWindow(t) < RoundToWindow(now), Price(asset, t) = None
      PROVE  Price(asset, t)' = None
  <2>1. \A i \in DOMAIN history[asset] :
          history[asset][i].timestamp # RoundToWindow(t)
    BY <1>1, PriceFound DEF IInv
  <2>2. RoundToWindow(t)' = RoundToWindow(t)
    BY <1>1, ResolutionFixed DEF RoundToWindow
  <2>3. RoundToWindow(t) # RoundToWindow(now)
    <3>1. resolution \in Nat /\ now \in Nat /\ t \in Nat
      BY <1>1, ResolutionType DEF IInv, Timestamp
    <3>2. RoundToWindow(t) \in Nat /\ RoundToWindow(now) \in Nat
      BY <3>1, Rounding
    <3>3. QED
      BY <1>1, <3>2
  <2>4. \A i \in DOMAIN history'[asset] :
          history'[asset][i].timestamp # RoundToWindow(t)
    BY <1>1, <2>1, <2>3, RecordsOfStep
  <2>5. QED
    BY <1>1, <2>2, <2>4, PriceFoundAfter DEF IInv
<1>2. IInv /\ IInv' /\ [Next]_vars =>
        [Initialized =>
           \A asset \in Asset, t \in Timestamp :
             (/\ RoundToWindow(t) < RoundToWindow(now)
              /\ Price(asset, t) = None) => Price(asset, t)' = None]_vars
  BY <1>1
<1>3. QED
  BY <1>2, Invariance, PTL DEF Spec, ClosedWindowsStayClosed

(***************************************************************************)
(* What the threshold buys.                                                *)
(***************************************************************************)
\* The values of a function on a finite set are finitely many.
LEMMA FiniteRange ==
  ASSUME NEW S, IsFiniteSet(S), NEW f, DOMAIN f = S
  PROVE  IsFiniteSet({f[x] : x \in S})
<1> DEFINE T == {f[x] : x \in S}
<1> DEFINE g == [x \in S |-> f[x]]
<1>1. g \in Surjection(S, T)
  BY DEF Surjection
<1>2. QED
  BY <1>1, FS_Surjection

\* By OneSubmissionPerWindow no two pending submissions agree on the node and
\* on the window, so there are at most as many as pairs of the two.
LEMMA PendingBound ==
  ASSUME TypeOK, OneSubmissionPerWindow, NEW asset \in Asset
  PROVE  /\ Len(pending[asset])
              <= Cardinality(Reporters(asset)) * Cardinality(Windows(asset))
         /\ Cardinality(Reporters(asset)) \in Nat
         /\ Cardinality(Windows(asset)) \in Nat
<1> DEFINE subs == pending[asset]
<1> DEFINE D == 1..Len(subs)
<1> DEFINE node == [i \in D |-> subs[i].node]
<1> DEFINE window == [i \in D |-> RoundToWindow(subs[i].submitted_at)]
<1> DEFINE pair == [i \in D |-> <<node[i], window[i]>>]
<1> DEFINE R == Reporters(asset)
<1> DEFINE W == Windows(asset)
<1>1. DOMAIN subs = D /\ Len(subs) \in Nat
  BY LenProperties DEF TypeOK
<1>2. R = {node[i] : i \in D} /\ W = {window[i] : i \in D}
  BY <1>1 DEF Reporters, Windows
<1>3. IsFiniteSet(D) /\ Cardinality(D) = Len(subs)
  <2> DEFINE n == Len(subs)
  <2>1. n \in Nat
    BY <1>1
  <2> HIDE DEF n
  <2>2. /\ IsFiniteSet(1..n)
        /\ Cardinality(1..n) = IF 1 > n THEN 0 ELSE n - 1 + 1
    BY <2>1, FS_Interval
  <2>3. IsFiniteSet(1..n) /\ Cardinality(1..n) = n
    BY <2>1, <2>2
  <2>4. QED
    BY <2>3 DEF n
<1>4. IsFiniteSet(R) /\ IsFiniteSet(W)
  <2>1. DOMAIN node = D /\ DOMAIN window = D
    OBVIOUS
  <2> HIDE DEF node, window, D, R, W
  <2>2. QED
    BY <1>2, <1>3, <2>1, FiniteRange
<1>5. ASSUME NEW i \in D, NEW j \in D, pair[i] = pair[j]
      PROVE  i = j
  <2>1. subs[i].node = subs[j].node
    BY <1>5
  <2>2. RoundToWindow(subs[i].submitted_at) = RoundToWindow(subs[j].submitted_at)
    BY <1>5
  <2>3. ~(i < j) /\ ~(j < i)
    BY <1>1, <2>1, <2>2 DEF OneSubmissionPerWindow
  <2>4. QED
    BY <1>1, <2>3
<1>6. pair \in [D -> R \X W]
  BY <1>2
<1> HIDE DEF D, R, W, pair
<1>7. /\ IsFiniteSet(R \X W)
      /\ Cardinality(R \X W) = Cardinality(R) * Cardinality(W)
  BY <1>4, FS_Product
<1>8. pair \in Injection(D, R \X W)
  BY <1>5, <1>6 DEF Injection, IsInjective
<1>9. Cardinality(D) <= Cardinality(R \X W)
  BY <1>7, <1>8, FS_Injection
<1>10. Cardinality(R) \in Nat /\ Cardinality(W) \in Nat
  BY <1>4, FS_CardinalityType
<1>11. QED
  BY <1>3, <1>7, <1>9, <1>10 DEF R, W

(***************************************************************************)
(* The one bound there is on the submissions of an asset that nobody       *)
(* finalizes: a submission per node and window, over any changes of the    *)
(* node list and the threshold.                                            *)
(***************************************************************************)
PendingBounded ==
  \A asset \in Asset :
    Len(pending[asset])
      <= Cardinality(Reporters(asset)) * Cardinality(Windows(asset))

THEOREM OraclePendingBounded == Spec => []PendingBounded
<1>1. IInv => PendingBounded
  BY PendingBound DEF IInv, PendingBounded
<1>. QED BY <1>1, Invariance, PTL

(***************************************************************************)
(* A node counts towards the threshold at most once for each window the    *)
(* consumed submissions span; within one window the threshold is a number  *)
(* of distinct reporters.  All the submissions are consumed, so none of    *)
(* them counts towards two prices.                                         *)
(***************************************************************************)
THEOREM OracleQuorumPerWindow == Spec => QuorumPerWindow
<1>1. ASSUME IInv, [Next]_vars, NEW asset \in Asset, Finalizes(asset)
      PROVE  /\ threshold <= Cardinality(Reporters(asset))
                               * Cardinality(Windows(asset))
             /\ pending'[asset] = <<>>
  <2>1. Len(pending[asset]) >= threshold /\ pending'[asset] = <<>>
    BY <1>1, OnlyFinalizePrice
       DEF FinalizePrice, ThresholdMet, IInv, TypeOK
  <2>2. Len(pending[asset])
          <= Cardinality(Reporters(asset)) * Cardinality(Windows(asset))
    BY <1>1, PendingBound DEF IInv
  <2>3. Len(pending[asset]) \in Nat /\ threshold \in Nat
    BY <1>1, OracleAssumption DEF IInv, TypeOK
  <2> DEFINE product == Cardinality(Reporters(asset)) * Cardinality(Windows(asset))
  <2>4. product \in Nat
    <3>1. Cardinality(Reporters(asset)) \in Nat /\ Cardinality(Windows(asset)) \in Nat
      BY <1>1, PendingBound DEF IInv
    <3>2. QED
      BY <3>1
  <2> HIDE DEF product
  <2>5. Len(pending[asset]) <= product
    BY <2>2 DEF product
  <2>6. threshold <= product
    BY <2>1, <2>3, <2>4, <2>5
  <2>7. QED
    BY <2>1, <2>6 DEF product
<1>2. IInv /\ [Next]_vars =>
        [\A asset \in Asset : Finalizes(asset) =>
           /\ threshold <= Cardinality(Reporters(asset))
                             * Cardinality(Windows(asset))
           /\ pending'[asset] = <<>>]_vars
  BY <1>1
<1>3. QED
  BY <1>2, Invariance, PTL DEF Spec, QuorumPerWindow

(***************************************************************************)
(* What ingest.rs says above the threshold guard, "a single node can never *)
(* move a price alone", holds of the prices finalized from submissions of  *)
(* one window: with a threshold of two or more, two nodes reported.  It is *)
(* the submissions left over from earlier windows that break it in         *)
(* general.                                                                *)
(***************************************************************************)
THEOREM OracleNoSoloInOneWindow ==
  Spec => [][\A asset \in Asset :
               /\ Finalizes(asset)
               /\ threshold > 1
               /\ Cardinality(Windows(asset)) = 1
               => Cardinality(Reporters(asset)) > 1]_vars
<1>1. ASSUME IInv, [Next]_vars, NEW asset \in Asset, Finalizes(asset),
             threshold > 1, Cardinality(Windows(asset)) = 1
      PROVE  Cardinality(Reporters(asset)) > 1
  <2>1. Len(pending[asset]) >= threshold
    BY <1>1, OnlyFinalizePrice DEF FinalizePrice, ThresholdMet
  <2>2. Len(pending[asset]) \in Nat /\ threshold \in Nat
    BY <1>1, OracleAssumption DEF IInv, TypeOK
  <2> DEFINE reporters == Cardinality(Reporters(asset))
  <2>3. reporters \in Nat /\ Len(pending[asset]) <= reporters * 1
    BY <1>1, PendingBound DEF IInv
  <2> HIDE DEF reporters
  <2>4. reporters > 1
    BY <1>1, <2>1, <2>2, <2>3
  <2>. QED BY <2>4 DEF reporters
<1>2. IInv /\ [Next]_vars =>
        [\A asset \in Asset :
           /\ Finalizes(asset)
           /\ threshold > 1
           /\ Cardinality(Windows(asset)) = 1
           => Cardinality(Reporters(asset)) > 1]_vars
  BY <1>1
<1>. QED BY <1>2, Invariance, PTL DEF Spec
-----------------------------------------------------------------------------
(***************************************************************************)
(* The comment of finalize_price on the overflow of the median, made       *)
(* precise: it holds when no price offered is above half of i128::MAX.     *)
(* The type invariant alone does not show it, a pending price being any    *)
(* i128 there, so the invariant here is that every pending price was       *)
(* offered.                                                                *)
(***************************************************************************)
PricesOffered ==
  \A asset \in Asset : \A i \in DOMAIN pending[asset] :
    pending[asset][i].price \in Prices

LEMMA PricesOfferedStep ==
  ASSUME IInv, PricesOffered, [Next]_vars
  PROVE  PricesOffered'
<1>1. ASSUME NEW node \in Address, NEW asset \in Asset, NEW price \in Prices,
             SubmitPrice(node, asset, price)
      PROVE  PricesOffered'
  <2> DEFINE new == [node |-> node, price |-> price, submitted_at |-> now]
  <2> DEFINE before == pending[asset]
  <2>1. pending' = [pending EXCEPT ![asset] = Append(before, new)]
    BY <1>1 DEF SubmitPrice
  <2>2. before \in Seq(Submission) /\ pending'[asset] = Append(before, new)
    BY <2>1 DEF IInv, TypeOK
  <2>3. \A other \in Asset : other # asset => pending'[other] = pending[other]
    BY <2>1 DEF IInv, TypeOK
  <2> SUFFICES ASSUME NEW a \in Asset, NEW i \in DOMAIN pending'[a]
               PROVE  pending'[a][i].price \in Prices
    BY DEF PricesOffered
  <2>4. CASE a # asset
    BY <2>3, <2>4 DEF PricesOffered
  <2>5. CASE a = asset
    <3>1. /\ DOMAIN before = 1..Len(before)
          /\ DOMAIN pending'[asset] = 1..(Len(before) + 1)
          /\ Len(before) \in Nat
          /\ \A k \in 1..Len(before) : pending'[asset][k] = before[k]
          /\ pending'[asset][Len(before) + 1] = new
      BY <2>2
    <3>2. CASE i \in 1..Len(before)
      BY <2>5, <3>1, <3>2 DEF PricesOffered
    <3>3. CASE i = Len(before) + 1
      BY <2>5, <3>1, <3>3
    <3>. QED BY <2>5, <3>1, <3>2, <3>3
  <2>. QED BY <2>4, <2>5
<1>2. ASSUME NEW asset \in Asset, FinalizePrice(asset)
      PROVE  PricesOffered'
  <2>1. /\ \A other \in Asset : other # asset => pending'[other] = pending[other]
        /\ pending'[asset] = <<>>
    BY <1>2 DEF FinalizePrice, IInv, TypeOK
  <2>2. DOMAIN pending'[asset] = {}
    BY <2>1
  <2>. QED BY <2>1, <2>2 DEF PricesOffered
<1>3. ASSUME NEW caller \in Address,
             \/ \E length \in Resolutions : Initialize(caller, length)
             \/ \E node \in Address : AddNode(caller, node)
             \/ \E node \in Address : RemoveNode(caller, node)
             \/ \E new \in Thresholds : SetThreshold(caller, new)
             \/ \E new \in Retentions : SetRetention(caller, new)
             \/ \E asset \in Asset : AddCommodity(caller, asset)
      PROVE  UNCHANGED pending
  BY <1>3 DEF Initialize, AddNode, RemoveNode, SetThreshold, SetRetention,
              AddCommodity
<1>4. ASSUME Tick \/ UNCHANGED vars PROVE UNCHANGED pending
  BY <1>4 DEF Tick, vars
<1>5. ASSUME UNCHANGED pending PROVE PricesOffered'
  BY <1>5 DEF PricesOffered
<1>. QED BY <1>1, <1>2, <1>3, <1>4, <1>5 DEF Next

\* The two middle prices of submissions of at most half of i128::MAX add up.
LEMMA HalvesAddUp ==
  ASSUME TypeOK, PricesOffered, \A p \in Prices : 2 * p <= MaxI128,
         NEW asset \in Asset, pending[asset] # <<>>
  PROVE  ~MedianOverflows(SubmittedPrices(asset))
<1> DEFINE prices == SubmittedPrices(asset)
<1>1. prices \in Seq(Int) /\ prices # <<>>
  BY SubmittedPricesType
<1>2. \A v \in Range(prices) : v \in Prices
  <2>1. pending[asset] \in Seq(Submission)
    BY DEF TypeOK
  <2>2. /\ DOMAIN prices = 1..Len(pending[asset])
        /\ DOMAIN pending[asset] = 1..Len(pending[asset])
        /\ \A i \in DOMAIN prices : prices[i] = pending[asset][i].price
    BY <2>1 DEF SubmittedPrices
  <2>. QED BY <2>2 DEF PricesOffered, Range
<1> HIDE DEF prices
<1>3. /\ LowerMiddle(prices) \in Prices /\ LowerMiddle(prices) \in Int
      /\ UpperMiddle(prices) \in Prices /\ UpperMiddle(prices) \in Int
  BY <1>1, <1>2, MiddlePrices
<1>4. /\ 2 * LowerMiddle(prices) <= MaxI128
      /\ 2 * UpperMiddle(prices) <= MaxI128
  BY <1>3
<1>5. ~(LowerMiddle(prices) + UpperMiddle(prices) > MaxI128)
  BY <1>3, <1>4, MaxI128Assumption
<1>. QED BY <1>5 DEF MedianOverflows, prices

\* An asset whose submissions reached the threshold can be finalized: its
\* median does not overflow, for prices of at most half of i128::MAX.
THEOREM OracleMedianNeverOverflows ==
  ASSUME \A p \in Prices : 2 * p <= MaxI128
  PROVE  Spec => []MedianNeverOverflows
<1>1. Init => PricesOffered
  <2>1. DOMAIN <<>> = {}
    OBVIOUS
  <2>. QED BY <2>1 DEF Init, PricesOffered
<1>2. IInv /\ PricesOffered /\ [Next]_vars => PricesOffered'
  BY PricesOfferedStep
<1>3. IInv /\ PricesOffered => MedianNeverOverflows
  BY HalvesAddUp DEF IInv, MedianNeverOverflows, ThresholdMet
<1>. QED BY Invariance, <1>1, <1>2, <1>3, PTL DEF Spec
=============================================================================
