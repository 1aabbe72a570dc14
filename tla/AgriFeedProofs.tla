--------------------------- MODULE AgriFeedProofs ---------------------------
(***************************************************************************)
(* The agreement beside the real oracle behaves as the agreement beside an *)
(* arbitrary market, for all values of the constants.                      *)
(***************************************************************************)
EXTENDS AgriFeed, OracleProofs

\* The theorems about the agreement, beside the oracle's market.
AP ==
  INSTANCE PriceFloorProofs WITH
    market <- MarketPrice,
    MarketPrices <- 1..MaxI128

\* A step of the system is a step of the oracle or leaves it alone.
LEMMA OracleStep == [SystemNext]_systemVars => [Next]_vars
BY DEF SystemNext, OracleCalled, AgreementCalled, Settle, Cancel, LedgerCloses,
       systemVars, Next

LEMMA SystemInvariance == SystemSpec => []IInv
<1>1. SystemInit => IInv
  BY InitIInv DEF SystemInit
<1>2. IInv /\ [SystemNext]_systemVars => IInv'
  BY OracleStep, NextIInv
<1>3. QED
  BY <1>1, <1>2, PTL DEF SystemSpec

(***************************************************************************)
(* The market the agreement sees.                                          *)
(***************************************************************************)
\* It moves with the history of the commodity only.
LEMMA SameHistorySamePrice ==
  ASSUME history'[Commodity] = history[Commodity]
  PROVE  MarketPrice' = MarketPrice
BY DEF MarketPrice, LastPrice

\* A finalization of the commodity publishes a positive i128 price.
LEMMA FinalizationPublishes ==
  ASSUME IInv, FinalizePrice(Commodity)
  PROVE  MarketPrice' \in 1..MaxI128
<1>1. Commodity \in Asset
  BY AgriFeedAssumption
<1>2. /\ history'[Commodity] # <<>>
      /\ Last(history'[Commodity]) = FinalRecord(Commodity)
  BY <1>1, FinalizedHistory
<1>3. FinalRecord(Commodity) \in PriceData
  BY <1>1, FinalRecordProperties DEF FinalizePrice, ThresholdMet, IInv
<1>4. FinalRecord(Commodity).price \in 1..MaxI128
  BY <1>3 DEF PriceData
<1>5. MarketPrice' = FinalRecord(Commodity).price
  <2>1. LastPrice(Commodity)' = <<Last(history'[Commodity])>>
    BY <1>2 DEF LastPrice, Some
  <2>2. LastPrice(Commodity)' # None
    BY <2>1 DEF None
  <2>3. MarketPrice' = LastPrice(Commodity)'[1].price
    BY <2>2 DEF MarketPrice, None
  <2>4. QED
    BY <1>2, <2>1, <2>3
<1>6. QED
  BY <1>4, <1>5

LEMMA AgreementInit == SystemInit => Agreement!Init
BY DEF SystemInit

\* Every step of the system is a step of the agreement beside a market, or
\* one that it does not see.
LEMMA AgreementStep ==
  IInv /\ [SystemNext]_systemVars => [Agreement!Next]_Agreement!vars
<1> SUFFICES ASSUME IInv, [SystemNext]_systemVars
             PROVE  Agreement!Next \/ UNCHANGED Agreement!vars
  OBVIOUS
<1>1. CASE OracleCalled
  <2>1. UNCHANGED <<now, agreementVars>>
    BY <1>1 DEF OracleCalled, Initialize, AddNode, RemoveNode, SetThreshold,
                SetRetention, AddCommodity, SubmitPrice, FinalizePrice
  <2>2. CASE history'[Commodity] = history[Commodity]
    BY <2>1, <2>2, SameHistorySamePrice DEF agreementVars, Agreement!vars
  <2>3. CASE history'[Commodity] # history[Commodity]
    <3>1. PICK asset \in Asset : FinalizePrice(asset)
      BY <1>1, <2>3 DEF OracleCalled, Initialize, AddNode, RemoveNode,
           SetThreshold, SetRetention, AddCommodity, SubmitPrice
    <3>2. asset = Commodity
      BY <2>3, <3>1, AgriFeedAssumption DEF FinalizePrice, IInv, TypeOK
    <3>3. MarketPrice' \in 1..MaxI128
      BY <3>1, <3>2, FinalizationPublishes
    <3>4. Agreement!Publish(MarketPrice')
      BY <2>1 DEF Agreement!Publish, agreementVars
    <3>5. QED
      BY <3>3, <3>4 DEF Agreement!Next
  <2>4. QED
    BY <2>2, <2>3
<1>2. CASE AgreementCalled
  BY <1>2 DEF AgreementCalled, Agreement!Next
<1>3. CASE Settle
  BY <1>3 DEF Settle, Agreement!Next
<1>4. CASE Cancel
  BY <1>4 DEF Cancel, Agreement!Next
<1>5. CASE LedgerCloses
  <2>1. MarketPrice' = MarketPrice
    BY <1>5, SameHistorySamePrice DEF LedgerCloses, Tick
  <2>2. Agreement!Tick
    BY <1>5, <2>1 DEF LedgerCloses, Tick, Timestamp, agreementVars, Agreement!Tick
  <2>3. QED
    BY <2>2 DEF Agreement!Next
<1>6. CASE UNCHANGED systemVars
  <2>1. UNCHANGED <<now, history, agreementVars>>
    BY <1>6 DEF systemVars, vars
  <2>2. QED
    BY <2>1, SameHistorySamePrice DEF agreementVars, Agreement!vars
<1>7. QED
  BY <1>1, <1>2, <1>3, <1>4, <1>5, <1>6 DEF SystemNext

(***************************************************************************)
(* Whatever the oracle's admin, nodes and finalizers do, the agreement     *)
(* takes the steps of PriceFloor: its market publishes positive prices and *)
(* never loses one, which is what PriceFloor's own theorems assume.        *)
(***************************************************************************)
THEOREM AgriFeedImplementsAgreement == SystemSpec => ImplementsAgreement
<1>1. QED
  BY AgreementInit, AgreementStep, SystemInvariance, PTL
     DEF SystemSpec, ImplementsAgreement, Agreement!Spec

(***************************************************************************)
(* The theorems of PriceFloorProofs, beside the oracle.                    *)
(***************************************************************************)
\* What they assume of their constants.
LEMMA AgreementConstants ==
  /\ MaxI128 \in Nat
  /\ MaxU64 \in Nat
  /\ MaxTime \in 0..MaxU64
  /\ Contract \notin Account
  /\ FloorPrices \subseteq (-MaxI128 - 1)..MaxI128
  /\ Notionals \subseteq (-MaxI128 - 1)..MaxI128
  /\ Amounts \subseteq (-MaxI128 - 1)..MaxI128
  /\ Gifts \subseteq 1..MaxI128
  /\ Maturities \subseteq 0..MaxU64
  /\ 1..MaxI128 \subseteq 1..MaxI128
  /\ NoPrice \notin 1..MaxI128
  /\ Opening \subseteq Nat
  /\ UnfundedCancelGrace \in Nat
  /\ SettleFailureGrace \in Nat
BY AgriFeedAssumption, OracleAssumption, MaxI128Assumption

LEMMA AgreementNoTerms ==
  /\ NoTerms \notin AP!Terms
  /\ NoTerms \notin [farmer : Account, buyer : Account]
BY AgreementNoTermsAssumption DEF AP!Terms, Agreement!Terms

\* AP and Agreement are one instance of PriceFloor.
LEMMA SameSpec == Agreement!Spec => AP!Spec
<1>1. QED
  BY PTL
     DEF AP!Init, Agreement!Init, AP!Next, Agreement!Next, AP!Spec,
         Agreement!Spec, AP!vars, Agreement!vars, AP!Holder, Agreement!Holder,
         AP!Terms, Agreement!Terms, AP!Agreed, Agreement!Agreed,
         AP!Initialize, Agreement!Initialize, AP!Fund, Agreement!Fund,
         AP!Transfer, Agreement!Transfer, AP!Collateral, Agreement!Collateral,
         AP!Settle, Agreement!Settle, AP!CanSettle, Agreement!CanSettle,
         AP!NoOverflow, Agreement!NoOverflow, AP!BelowFloor,
         Agreement!BelowFloor, AP!Shortfall, Agreement!Shortfall, AP!Gross,
         Agreement!Gross, AP!Payout, Agreement!Payout, AP!RefundDue,
         Agreement!RefundDue, AP!Lesser, Agreement!Lesser, AP!I128,
         Agreement!I128, AP!Paid, Agreement!Paid, AP!AfterSettlement,
         Agreement!AfterSettlement, AP!Cancel, Agreement!Cancel,
         AP!CancelFunded, Agreement!CancelFunded, AP!CancelUnfunded,
         Agreement!CancelUnfunded, AP!IsParty, Agreement!IsParty,
         AP!CanCancelFunded, Agreement!CanCancelFunded, AP!SaturatingAdd,
         Agreement!SaturatingAdd, AP!Gift, Agreement!Gift, AP!Publish,
         Agreement!Publish, AP!Tick, Agreement!Tick

LEMMA AgreementRuns == SystemSpec => AP!Spec
<1>1. QED
  BY AgriFeedImplementsAgreement, SameSpec, PTL DEF ImplementsAgreement

LEMMA AgreementInvariance == SystemSpec => []AP!IInv
<1>1. AP!Spec => []AP!IInv
  BY AgreementConstants, AgreementNoTerms, AP!Invariance
<1>2. QED
  BY <1>1, AgreementRuns, PTL

(***************************************************************************)
(* The agreement's accounts are in order beside the oracle: its collateral *)
(* is there exactly while a flag says so, and a well-formed agreement past *)
(* the grace period has exactly one way out.                               *)
(***************************************************************************)
THEOREM AgriFeedAgreementInvariants ==
  SystemSpec => [](/\ Agreement!TypeOK
                   /\ Agreement!NoStrandedFunds
                   /\ Agreement!FundedIsBacked
                   /\ Agreement!ExactlyOneExit)
<1>1. AP!Spec => /\ []AP!TypeOK
                 /\ []AP!NoStrandedFunds
                 /\ []AP!FundedIsBacked
                 /\ []AP!ExactlyOneExit
  BY AgreementConstants, AgreementNoTerms, AP!PriceFloorTypeOK,
     AP!PriceFloorNoStrandedFunds, AP!PriceFloorFundedIsBacked,
     AP!PriceFloorExactlyOneExit
<1>2. /\ AP!TypeOK <=> Agreement!TypeOK
      /\ AP!NoStrandedFunds <=> Agreement!NoStrandedFunds
      /\ AP!FundedIsBacked <=> Agreement!FundedIsBacked
  BY DEF AP!TypeOK, Agreement!TypeOK, AP!NoStrandedFunds,
         Agreement!NoStrandedFunds, AP!FundedIsBacked,
         Agreement!FundedIsBacked, AP!Collateral, Agreement!Collateral,
         AP!Terms, Agreement!Terms, AP!Holder, Agreement!Holder
<1>3. AP!ExactlyOneExit <=> Agreement!ExactlyOneExit
  BY DEF AP!ExactlyOneExit, Agreement!ExactlyOneExit, AP!WellFormed,
         Agreement!WellFormed, AP!Agreed, Agreement!Agreed, AP!SaturatingAdd,
         Agreement!SaturatingAdd, AP!CanSettle, Agreement!CanSettle,
         AP!CanCancelFunded, Agreement!CanCancelFunded, AP!NoOverflow,
         Agreement!NoOverflow, AP!BelowFloor, Agreement!BelowFloor,
         AP!Shortfall, Agreement!Shortfall, AP!Gross, Agreement!Gross,
         AP!Payout, Agreement!Payout, AP!RefundDue, Agreement!RefundDue,
         AP!Lesser, Agreement!Lesser, AP!I128, Agreement!I128, AP!Paid,
         Agreement!Paid, AP!Collateral, Agreement!Collateral
<1>4. QED
  BY <1>1, <1>2, <1>3, AgreementRuns, PTL

(***************************************************************************)
(* A settlement at the oracle's price pays the farmer the least amount     *)
(* that tops the market value up to the floor, the buyer the rest and      *)
(* nobody else anything.                                                   *)
(***************************************************************************)
THEOREM AgriFeedFarmerTopUp == SystemSpec => Agreement!FarmerTopUp
<1>1. AP!Spec => AP!FarmerTopUp
  BY AgreementConstants, AgreementNoTerms, AP!PriceFloorFarmerTopUp
<1>2. AP!FarmerTopUp => Agreement!FarmerTopUp
  BY PTL
     DEF AP!FarmerTopUp, Agreement!FarmerTopUp, AP!WellFormed,
         Agreement!WellFormed, AP!Agreed, Agreement!Agreed, AP!Reaches,
         Agreement!Reaches, AP!Collateral, Agreement!Collateral, AP!Holder,
         Agreement!Holder, AP!vars, Agreement!vars
<1>3. QED
  BY <1>1, <1>2, AgreementRuns, PTL

(***************************************************************************)
(* Beside the oracle too, the collateral leaves as a whole, to the farmer  *)
(* and the buyer by one settlement or back to the buyer: the two contracts *)
(* together implement the abstract escrow.                                 *)
(***************************************************************************)
THEOREM AgriFeedImplementsEscrow == SystemSpec => Agreement!ImplementsEscrow
<1>1. AP!Spec => AP!ImplementsEscrow
  BY AgreementConstants, AgreementNoTerms, AP!PriceFloorImplementsEscrow
<1>2. AP!ImplementsEscrow => Agreement!ImplementsEscrow
  BY PTL
     DEF AP!ImplementsEscrow, Agreement!ImplementsEscrow, AP!Custody!Spec,
         Agreement!Custody!Spec, AP!Custody!Init, Agreement!Custody!Init,
         AP!Custody!Next, Agreement!Custody!Next, AP!Custody!Agree,
         Agreement!Custody!Agree, AP!Custody!Deposit, Agreement!Custody!Deposit,
         AP!Custody!Divide, Agreement!Custody!Divide, AP!Custody!Refund,
         Agreement!Custody!Refund, AP!Custody!Gift, Agreement!Custody!Gift,
         AP!Custody!Move, Agreement!Custody!Move, AP!Custody!Divided,
         Agreement!Custody!Divided, AP!Agreed, Agreement!Agreed
<1>3. QED
  BY <1>1, <1>2, AgreementRuns, PTL

(***************************************************************************)
(* The record an agreement is settled by.                                  *)
(***************************************************************************)
\* The price settle reads is the price of the newest record kept.
LEMMA MarketIsNewest ==
  ASSUME IInv, MarketPrice # NoPrice
  PROVE  /\ history[Commodity] # <<>>
         /\ MarketPrice = Last(history[Commodity]).price
         /\ Last(history[Commodity]).price \in Nat
         /\ \A record \in Range(history[Commodity]) :
              record.timestamp <= Last(history[Commodity]).timestamp
<1> DEFINE records == history[Commodity]
<1>1. records \in Seq(PriceData) /\ Commodity \in Asset
  BY AgriFeedAssumption DEF IInv, TypeOK
<1>2. records # <<>> /\ MarketPrice = Last(records).price
  BY DEF MarketPrice, LastPrice, None, Some
<1>3. /\ Len(records) \in 1..Len(records)
      /\ DOMAIN records = 1..Len(records)
      /\ records \in [1..Len(records) -> PriceData]
  <2> HIDE DEF records
  <2>1. Len(records) \in Nat \ {0}
    BY <1>1, <1>2, EmptySeq
  <2>2. QED
    BY <1>1, <2>1, LenProperties
<1> DEFINE newest == records[Len(records)]
<1>4. newest \in PriceData /\ newest \in Range(records)
  BY <1>3 DEF Range
<1>5. newest.price \in Nat
  <2>1. newest.price \in 1..MaxI128
    BY <1>4 DEF PriceData
  <2>2. QED
    BY <2>1, MaxI128Assumption
<1>6. ASSUME NEW record \in Range(records)
      PROVE  record.timestamp <= newest.timestamp
  <2>1. PICK j \in 1..Len(records) : record = records[j]
    BY <1>3, <1>6 DEF Range
  <2>2. QED
    BY <1>1, <1>3, <2>1 DEF IInv, HistoryOrdered
<1>7. QED
  BY <1>2, <1>4, <1>5, <1>6 DEF Last

\* The terms and the balances have their types.
AgreementTyped ==
  /\ terms \in Agreement!Terms \union {NoTerms}
  /\ balance \in [Agreement!Holder -> Nat]

LEMMA TermsTyped ==
  ASSUME AgreementTyped, Agreement!Agreed
  PROVE  /\ terms.farmer \in Account
         /\ terms.buyer \in Account
         /\ terms.floor_price \in Int
         /\ terms.notional \in Int
<1>1. /\ terms.farmer \in Account
      /\ terms.buyer \in Account
      /\ terms.floor_price \in FloorPrices
      /\ terms.notional \in Notionals
  BY DEF AgreementTyped, Agreement!Agreed, Agreement!Terms
<1>2. FloorPrices \subseteq Int /\ Notionals \subseteq Int
  BY AgriFeedAssumption
<1>3. QED
  BY <1>1, <1>2

\* What settle transfers, when the oracle has a price.
LEMMA PayoutTyped ==
  ASSUME IInv, AgreementTyped, Agreement!Agreed, MarketPrice # NoPrice
  PROVE  /\ MarketPrice \in Nat
         /\ balance[Contract] \in Nat
         /\ Agreement!Payout \in Int
         /\ Agreement!RefundDue \in Int
         /\ Agreement!Paid(Agreement!Payout) \in Nat
         /\ Agreement!Paid(Agreement!RefundDue) \in Nat
<1>1. /\ MarketPrice \in Nat
      /\ terms.floor_price \in Int
      /\ terms.notional \in Int
      /\ balance[Contract] \in Nat
  <2>1. MarketPrice \in Nat
    BY MarketIsNewest
  <2>2. QED
    BY <2>1, TermsTyped DEF AgreementTyped, Agreement!Holder
<1>2. Agreement!Payout \in Int
  BY <1>1 DEF Agreement!Payout, Agreement!Gross, Agreement!Shortfall,
              Agreement!Lesser, Agreement!Collateral
<1>3. Agreement!RefundDue \in Int
  BY <1>1, <1>2 DEF Agreement!RefundDue, Agreement!Collateral
<1>4. \A amount \in Int : Agreement!Paid(amount) \in Nat
  BY DEF Agreement!Paid
<1>5. QED
  BY <1>1, <1>2, <1>3, <1>4

LEMMA TypedInvariance == SystemSpec => []AgreementTyped
<1>1. AP!IInv => AgreementTyped
  BY DEF AP!IInv, AP!TypeOK, AgreementTyped, AP!Terms, Agreement!Terms,
         AP!Holder, Agreement!Holder
<1>2. QED
  BY <1>1, AgreementInvariance, PTL

\* What the farmer is paid when settle runs on the price of a record.
LEMMA SettlePaysBy ==
  ASSUME IInv, AgreementTyped, Agreement!WellFormed, Agreement!Settle,
         NEW record, record.price \in Nat, MarketPrice = record.price
  PROVE  PaidBy(record)
<1> DEFINE shortfall == (terms.floor_price - record.price) * terms.notional
<1> DEFINE held == balance[Contract]
<1> DEFINE payout == IF shortfall < 0 THEN 0
                     ELSE IF shortfall > held THEN held ELSE shortfall
<1> SUFFICES ASSUME terms.farmer # terms.buyer
             PROVE  balance'[terms.farmer] = balance[terms.farmer] + payout
  BY DEF PaidBy
<1>1. /\ terms.farmer \in Account /\ terms.farmer # Contract
      /\ terms.farmer \in Agreement!Holder
      /\ terms.floor_price \in Int
      /\ terms.notional \in Nat
      /\ held \in Nat
      /\ balance[terms.farmer] \in Nat
  BY TermsTyped, AgriFeedAssumption
     DEF Agreement!WellFormed, AgreementTyped, Agreement!Holder
<1>2. balance'[terms.farmer]
        = balance[terms.farmer] + Agreement!Paid(Agreement!Payout) + 0
  BY <1>1 DEF Agreement!Settle, Agreement!AfterSettlement
<1>3. Agreement!Paid(Agreement!Payout) = payout
  <2> DEFINE below == terms.floor_price - record.price
  <2>1. below \in Int /\ shortfall = below * terms.notional
    BY <1>1
  <2>2. Agreement!BelowFloor <=> below > 0
    BY <1>1 DEF Agreement!BelowFloor
  <2>3. Agreement!Gross = shortfall /\ Agreement!Collateral = held
    BY DEF Agreement!Gross, Agreement!Shortfall, Agreement!Collateral
  <2> HIDE DEF below, shortfall, held
  <2>4. CASE below > 0
    <3>1. shortfall \in Nat
      BY <1>1, <2>1, <2>4
    <3>2. QED
      BY <1>1, <2>2, <2>3, <2>4, <3>1
         DEF Agreement!Payout, Agreement!Lesser, Agreement!Paid
  <2>5. CASE ~(below > 0)
    <3>1. Agreement!Paid(Agreement!Payout) = 0
      BY <2>2, <2>5 DEF Agreement!Payout, Agreement!Paid
    <3>2. shortfall \in Int /\ shortfall <= 0
      <4>1. 0 - below \in Nat /\ (0 - below) * terms.notional \in Nat
        BY <1>1, <2>1, <2>5
      <4>2. shortfall = 0 - (0 - below) * terms.notional
        BY <1>1, <2>1
      <4>3. QED
        BY <4>1, <4>2
    <3>3. QED
      BY <1>1, <3>1, <3>2
  <2>6. QED
    BY <2>4, <2>5
<1>4. payout \in Nat
  <2>1. shortfall \in Int
    BY <1>1
  <2> HIDE DEF shortfall, held
  <2>2. QED
    BY <1>1, <2>1
<1>5. QED
  BY <1>1, <1>2, <1>3, <1>4

(***************************************************************************)
(* The farmer of a well-formed agreement is paid by the record of the      *)
(* commodity that was finalized last, and none is stamped later.           *)
(***************************************************************************)
THEOREM AgriFeedPaidByNewestRecord == SystemSpec => PaidByNewestRecord
<1> DEFINE newest == Last(history[Commodity])
<1> DEFINE NewestPays ==
      /\ history[Commodity] # <<>>
      /\ PaidBy(newest)
      /\ \A record \in Range(history[Commodity]) :
           record.timestamp <= newest.timestamp
<1>1. ASSUME IInv, AgreementTyped, [SystemNext]_systemVars,
             Agreement!WellFormed, ~settled, settled'
      PROVE  NewestPays
  <2>1. Agreement!Settle
    BY <1>1 DEF SystemNext, OracleCalled, AgreementCalled, Settle, Cancel,
         LedgerCloses, systemVars, agreementVars, Agreement!Initialize,
         Agreement!Fund, Agreement!Gift, Agreement!Cancel,
         Agreement!CancelFunded, Agreement!CancelUnfunded
  <2>2. MarketPrice # NoPrice
    BY <2>1 DEF Agreement!Settle, Agreement!CanSettle
  <2>3. /\ history[Commodity] # <<>>
        /\ MarketPrice = newest.price
        /\ newest.price \in Nat
        /\ \A record \in Range(history[Commodity]) :
             record.timestamp <= newest.timestamp
    BY <1>1, <2>2, MarketIsNewest
  <2>4. PaidBy(newest)
    BY <1>1, <2>1, <2>3, SettlePaysBy
  <2>5. QED
    BY <2>3, <2>4
<1>2. IInv /\ AgreementTyped /\ [SystemNext]_systemVars =>
        [Agreement!WellFormed /\ ~settled /\ settled' => NewestPays]_systemVars
  BY <1>1
<1>3. QED
  BY <1>2, SystemInvariance, TypedInvariance, PTL
     DEF SystemSpec, PaidByNewestRecord

(***************************************************************************)
(* What PricedIsSettled takes for granted of every single step.            *)
(***************************************************************************)
\* The agreement sees a price as soon as the history has a record.
LEMMA PricedMarket ==
  IInv /\ history[Commodity] # <<>> => MarketPrice # NoPrice
<1> SUFFICES ASSUME IInv, history[Commodity] # <<>>
             PROVE  MarketPrice # NoPrice
  OBVIOUS
<1> DEFINE records == history[Commodity]
<1>1. LastPrice(Commodity) = <<Last(records)>>
  BY DEF LastPrice, Some
<1>2. MarketPrice = Last(records).price
  BY <1>1 DEF MarketPrice, None
<1>3. records \in Seq(PriceData)
  BY AgriFeedAssumption DEF IInv, TypeOK
<1> HIDE DEF records
<1>4. records[Len(records)] \in PriceData
  BY <1>3, EmptySeq DEF records
<1>5. Last(records).price \in 1..MaxI128
  BY <1>4 DEF PriceData, Last
<1>6. QED
  BY <1>2, <1>5, AgriFeedAssumption

\* Once the commodity has a price, a funded agreement stays funded, and the
\* oracle keeps a price: no refund is ever made.
NoRefundOncePriced ==
  [][funded /\ history[Commodity] # <<>> =>
       funded' /\ history'[Commodity] # <<>>]_systemVars

\* And once it has matured, nothing but an earlier settlement stands in the
\* way of settle.
SettleableOncePriced ==
  (/\ Agreement!WellFormed
   /\ funded
   /\ history[Commodity] # <<>>
   /\ now >= terms.maturity) => settled \/ Agreement!CanSettle

\* A finalization leaves a record.
LEMMA HistoryStays ==
  ASSUME IInv, [SystemNext]_systemVars, history[Commodity] # <<>>
  PROVE  history'[Commodity] # <<>>
<1>1. CASE FinalizePrice(Commodity)
  BY <1>1, AgriFeedAssumption, FinalizedHistory
<1>2. ASSUME NEW asset \in Asset, FinalizePrice(asset), asset # Commodity
      PROVE  history'[Commodity] = history[Commodity]
  BY <1>2 DEF FinalizePrice, IInv, TypeOK
<1>3. CASE UNCHANGED history
  BY <1>3
<1>4. QED
  BY <1>1, <1>2, <1>3
     DEF SystemNext, OracleCalled, AgreementCalled, Settle, Cancel,
         LedgerCloses, systemVars, vars, Initialize, AddNode, RemoveNode,
         SetThreshold, SetRetention, AddCommodity, SubmitPrice, Tick

(***************************************************************************)
(* Whatever the admin, the nodes and the parties do after the commodity's  *)
(* first price, a funded agreement is not refunded any more ...            *)
(***************************************************************************)
THEOREM AgriFeedNoRefundOncePriced == SystemSpec => NoRefundOncePriced
<1>1. ASSUME IInv, AP!IInv, [SystemNext]_systemVars, funded,
             history[Commodity] # <<>>
      PROVE  funded' /\ history'[Commodity] # <<>>
  <2>1. MarketPrice # NoPrice
    BY <1>1, PricedMarket
  <2>2. Agreement!Agreed
    BY <1>1 DEF AP!IInv, AP!FlagOrder, AP!Agreed, Agreement!Agreed
  <2>3. funded'
    BY <1>1, <2>1, <2>2
       DEF SystemNext, OracleCalled, AgreementCalled, Settle, Cancel,
           LedgerCloses, systemVars, agreementVars, Agreement!Initialize,
           Agreement!Fund, Agreement!Gift, Agreement!Settle, Agreement!Cancel,
           Agreement!CancelFunded, Agreement!CanCancelFunded,
           Agreement!CancelUnfunded
  <2>4. QED
    BY <1>1, <2>3, HistoryStays
<1>2. IInv /\ AP!IInv /\ [SystemNext]_systemVars =>
        [funded /\ history[Commodity] # <<>> =>
           funded' /\ history'[Commodity] # <<>>]_systemVars
  BY <1>1
<1>3. QED
  BY <1>2, SystemInvariance, AgreementInvariance, PTL
     DEF SystemSpec, NoRefundOncePriced

(***************************************************************************)
(* ... and from its maturity on settle succeeds for whoever calls it       *)
(* first: what is left of PricedIsSettled is that somebody does.           *)
(***************************************************************************)
THEOREM AgriFeedSettleableOncePriced == SystemSpec => []SettleableOncePriced
<1>1. AP!Spec => [](AP!WellFormed => AP!PricedMeansSettleable)
  BY AgreementConstants, AgreementNoTerms, AP!PriceFloorPricedMeansSettleable
<1>2. AP!WellFormed <=> Agreement!WellFormed
  BY DEF AP!WellFormed, Agreement!WellFormed, AP!Agreed, Agreement!Agreed
<1>3. AP!CanSettle => Agreement!CanSettle
  BY DEF AP!CanSettle, Agreement!CanSettle, AP!Agreed, Agreement!Agreed,
         AP!NoOverflow, Agreement!NoOverflow, AP!BelowFloor,
         Agreement!BelowFloor, AP!Shortfall, Agreement!Shortfall, AP!Gross,
         Agreement!Gross, AP!Payout, Agreement!Payout, AP!RefundDue,
         Agreement!RefundDue, AP!Lesser, Agreement!Lesser, AP!I128,
         Agreement!I128, AP!Paid, Agreement!Paid, AP!Collateral,
         Agreement!Collateral
<1>4. IInv /\ (AP!WellFormed => AP!PricedMeansSettleable) => SettleableOncePriced
  BY <1>2, <1>3, PricedMarket
     DEF SettleableOncePriced, AP!PricedMeansSettleable, AP!Agreed,
         Agreement!WellFormed, Agreement!Agreed
<1>5. QED
  BY <1>1, <1>4, SystemInvariance, AgreementRuns, PTL
=============================================================================
