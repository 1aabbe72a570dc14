-------------------------- MODULE PriceFloorProofs --------------------------
(***************************************************************************)
(* Invariants and action properties of the price-floor agreement, for all  *)
(* values of the constants.                                                *)
(***************************************************************************)
EXTENDS PriceFloor, TLAPS

(***************************************************************************)
(* The payout arithmetic.                                                  *)
(***************************************************************************)
\* A product grows with its first factor.
LEMMA ProductOrder ==
  ASSUME NEW a \in Int, NEW b \in Int, NEW n \in Nat, a <= b
  PROVE  a * n <= b * n
<1>1. b - a \in Nat /\ b = a + (b - a)
  OBVIOUS
<1>2. (b - a) * n \in Nat /\ b * n = a * n + (b - a) * n
  BY <1>1
<1>3. a * n \in Int /\ b * n \in Int
  OBVIOUS
<1>4. QED
  BY <1>2, <1>3

LEMMA TermsType ==
  ASSUME TypeOK, Agreed
  PROVE  /\ terms \in Terms
         /\ terms.farmer \in Account
         /\ terms.buyer \in Account
         /\ terms.floor_price \in Int /\ terms.floor_price <= MaxI128
         /\ terms.notional \in Int
         /\ terms.maturity \in Nat /\ terms.maturity <= MaxU64
<1>1. terms \in Terms
  BY DEF TypeOK, Agreed
<1>2. /\ terms.farmer \in Account /\ terms.buyer \in Account
      /\ terms.floor_price \in FloorPrices
      /\ terms.notional \in Notionals
      /\ terms.maturity \in Maturities
  BY <1>1 DEF Terms
<1>3. /\ \A f \in FloorPrices : f \in Int /\ f <= MaxI128
      /\ \A n \in Notionals : n \in Int
  <2>1. MaxI128 \in Nat
    BY PriceFloorAssumption
  <2>2. \A i \in (-MaxI128 - 1)..MaxI128 : i \in Int /\ i <= MaxI128
    BY <2>1
  <2>3. QED
    BY <2>2, PriceFloorAssumption
<1>4. \A m \in Maturities : m \in Nat /\ m <= MaxU64
  <2>1. \A i \in 0..MaxU64 : i \in Nat /\ i <= MaxU64
    BY PriceFloorAssumption
  <2>2. QED
    BY <2>1, PriceFloorAssumption
<1>5. QED
  BY <1>1, <1>2, <1>3, <1>4

LEMMA CollateralType ==
  ASSUME TypeOK
  PROVE  Collateral \in Nat /\ Collateral <= MaxI128 /\ MaxI128 \in Nat
BY PriceFloorAssumption DEF TypeOK, Collateral, Holder

LEMMA MarketType ==
  ASSUME TypeOK, market # NoPrice
  PROVE  market \in Nat \ {0}
BY PriceFloorAssumption DEF TypeOK

\* The payout is a number whenever settle computes it.
LEMMA PayoutType ==
  ASSUME TypeOK, Agreed, market # NoPrice
  PROVE  /\ Payout \in Int
         /\ Payout <= Collateral
         /\ RefundDue = Collateral - Payout
         /\ BelowFloor => /\ Shortfall \in Nat \ {0}
                          /\ Shortfall = terms.floor_price - market
                          /\ Gross \in Int
                          /\ Gross = Shortfall * terms.notional
                          /\ Payout = Lesser(Gross, Collateral)
         /\ ~BelowFloor => Payout = 0
<1>1. /\ terms.floor_price \in Int /\ terms.notional \in Int
      /\ market \in Nat \ {0} /\ Collateral \in Nat
  BY TermsType, CollateralType, MarketType
<1>2. CASE BelowFloor
  <2>1. Shortfall \in Nat \ {0} /\ Shortfall = terms.floor_price - market
    BY <1>1, <1>2 DEF BelowFloor, Shortfall
  <2>2. Gross \in Int /\ Gross = Shortfall * terms.notional
    BY <1>1, <2>1 DEF Gross
  <2>3. Payout = Lesser(Gross, Collateral)
    BY <1>2 DEF Payout
  <2>4. QED
    BY <1>1, <1>2, <2>1, <2>2, <2>3 DEF Lesser, RefundDue
<1>3. CASE ~BelowFloor
  BY <1>1, <1>3 DEF Payout, RefundDue
<1>4. QED
  BY <1>2, <1>3

\* A settlement the token accepts divides the collateral: a negative payout
\* would make the refund exceed it.
LEMMA SettlementDivides ==
  ASSUME TypeOK, CanSettle
  PROVE  /\ Payout \in 0..Collateral
         /\ Paid(Payout) = Payout
         /\ Paid(RefundDue) = Collateral - Payout
<1>1. /\ Collateral \in Nat
      /\ Payout \in Int
      /\ Payout <= Collateral
      /\ RefundDue = Collateral - Payout
  BY CollateralType, PayoutType DEF CanSettle
<1>2. Paid(Payout) + Paid(RefundDue) <= Collateral
  BY DEF CanSettle
<1>3. Payout >= 0
  BY <1>1, <1>2 DEF Paid
<1>4. QED
  BY <1>1, <1>3 DEF Paid

\* On well-formed terms no check of settle's arithmetic fails and the token
\* covers what it pays.
LEMMA WellFormedSettles ==
  ASSUME TypeOK, WellFormed, market # NoPrice
  PROVE  /\ NoOverflow
         /\ Payout \in 0..Collateral
         /\ Paid(Payout) + Paid(RefundDue) <= Collateral
<1>1. /\ terms.floor_price \in Nat /\ terms.floor_price <= MaxI128
      /\ terms.notional \in Nat
      /\ terms.floor_price * terms.notional <= MaxI128
      /\ market \in Nat \ {0}
      /\ Collateral \in Nat /\ Collateral <= MaxI128 /\ MaxI128 \in Nat
  BY TermsType, CollateralType, MarketType DEF WellFormed
<1>2. /\ Payout \in Int
      /\ Payout <= Collateral
      /\ RefundDue = Collateral - Payout
      /\ BelowFloor => /\ Shortfall \in Nat \ {0}
                       /\ Shortfall = terms.floor_price - market
                       /\ Gross \in Int
                       /\ Gross = Shortfall * terms.notional
                       /\ Payout = Lesser(Gross, Collateral)
      /\ ~BelowFloor => Payout = 0
  BY PayoutType DEF WellFormed
<1>3. BelowFloor => 0 <= Gross /\ Gross <= MaxI128
  <2> SUFFICES ASSUME BelowFloor
               PROVE  0 <= Gross /\ Gross <= MaxI128
    OBVIOUS
  <2> DEFINE f == terms.floor_price
  <2> DEFINE n == terms.notional
  <2>1. f \in Nat /\ n \in Nat /\ f * n <= MaxI128
    BY <1>1
  <2>2. Shortfall \in Nat /\ Shortfall <= f
    BY <1>1, <1>2
  <2>3. Gross = Shortfall * n
    BY <1>2
  <2> HIDE DEF f, n
  <2>4. Shortfall * n <= f * n /\ 0 * n <= Shortfall * n
    BY <2>1, <2>2, ProductOrder
  <2>5. f * n \in Int /\ Shortfall * n \in Int /\ 0 * n = 0
    BY <2>1, <2>2
  <2>6. QED
    BY <1>1, <2>1, <2>3, <2>4, <2>5
<1>4. Payout \in 0..Collateral
  BY <1>1, <1>2, <1>3 DEF Lesser
<1>5. NoOverflow
  <2> SUFFICES ASSUME BelowFloor
               PROVE  Shortfall \in I128 /\ Gross \in I128 /\ RefundDue \in I128
    BY DEF NoOverflow
  <2>1. Shortfall \in I128
    BY <1>1, <1>2 DEF I128
  <2>2. Gross \in I128
    BY <1>1, <1>2, <1>3 DEF I128
  <2>3. RefundDue \in I128
    BY <1>1, <1>2, <1>4 DEF I128
  <2>4. QED
    BY <2>1, <2>2, <2>3
<1>6. Paid(Payout) + Paid(RefundDue) <= Collateral
  BY <1>1, <1>2, <1>4 DEF Paid
<1>7. QED
  BY <1>4, <1>5, <1>6

(***************************************************************************)
(* The inductive invariant.                                                *)
(***************************************************************************)
\* The flags follow the agreement: settle leaves `funded` set.
FlagOrder ==
  /\ funded => Agreed
  /\ settled => funded

IInv ==
  /\ TypeOK
  /\ FlagOrder
  /\ NoStrandedFunds
  /\ FundedIsBacked

LEMMA InitIInv == Init => IInv
<1> SUFFICES ASSUME Init PROVE IInv
  OBVIOUS
<1>1. balance \in [Holder -> Nat] /\ balance[Contract] = 0
  <2>1. balance \in [Holder -> Opening \union {0}] /\ balance[Contract] = 0
    BY DEF Init
  <2>2. Opening \union {0} \subseteq Nat
    BY PriceFloorAssumption
  <2>3. QED
    BY <2>1, <2>2
<1>2. TypeOK
  <2>1. 0 \in 0..MaxTime /\ 0 <= MaxI128
    BY PriceFloorAssumption
  <2>2. QED
    BY <1>1, <2>1 DEF Init, TypeOK
<1>3. FlagOrder /\ NoStrandedFunds /\ FundedIsBacked
  BY <1>1 DEF Init, FlagOrder, NoStrandedFunds, FundedIsBacked, Collateral
<1>4. QED
  BY <1>2, <1>3 DEF IInv

\* Tokens sent to the contract arrive there and stay nonnegative elsewhere.
LEMMA PaidIn ==
  ASSUME TypeOK, NEW giver \in Account, NEW amount \in Nat,
         amount <= balance[giver], Collateral + amount <= MaxI128,
         balance' = Transfer(giver, Contract, amount)
  PROVE  /\ balance' \in [Holder -> Nat]
         /\ Collateral' = Collateral + amount
         /\ Collateral' <= MaxI128
<1>1. /\ giver # Contract /\ giver \in Holder /\ Contract \in Holder
      /\ balance \in [Holder -> Nat]
  BY PriceFloorAssumption DEF TypeOK, Holder
<1>2. balance' = [balance EXCEPT ![giver] = balance[giver] - amount,
                                 ![Contract] = balance[Contract] + amount]
  BY <1>1 DEF Transfer
<1>3. balance[giver] - amount \in Nat /\ balance[Contract] + amount \in Nat
  BY <1>1
<1>4. QED
  BY <1>1, <1>2, <1>3 DEF Collateral

\* After a settlement the contract holds nothing.
LEMMA SettledBalance ==
  ASSUME TypeOK, Settle
  PROVE  /\ balance' \in [Holder -> Nat]
         /\ Collateral' = 0
         /\ balance' =
              [holder \in Holder |->
                 IF holder = Contract THEN 0
                 ELSE balance[holder]
                   + (IF holder = terms.farmer THEN Payout ELSE 0)
                   + (IF holder = terms.buyer THEN Collateral - Payout ELSE 0)]
<1>1. /\ balance \in [Holder -> Nat] /\ Contract \in Holder
      /\ Collateral \in Nat /\ Collateral = balance[Contract]
  BY CollateralType DEF TypeOK, Holder, Collateral
<1>2. /\ Payout \in 0..Collateral
      /\ Paid(Payout) = Payout
      /\ Paid(RefundDue) = Collateral - Payout
  BY SettlementDivides DEF Settle
<1>3. balance' = AfterSettlement
  BY DEF Settle
<1>4. balance' =
        [holder \in Holder |->
           IF holder = Contract THEN 0
           ELSE balance[holder]
             + (IF holder = terms.farmer THEN Payout ELSE 0)
             + (IF holder = terms.buyer THEN Collateral - Payout ELSE 0)]
  <2>1. balance[Contract] - Paid(Payout) - Paid(RefundDue) = 0
    BY <1>1, <1>2
  <2>2. QED
    BY <1>2, <1>3, <2>1 DEF AfterSettlement
<1>5. balance' \in [Holder -> Nat]
  BY <1>1, <1>2, <1>4
<1>6. QED
  BY <1>1, <1>4, <1>5 DEF Collateral

\* After a funded cancel the contract holds nothing and the buyer all of it.
LEMMA CancelledBalance ==
  ASSUME TypeOK, Agreed, balance' = Transfer(Contract, terms.buyer, Collateral)
  PROVE  /\ balance' \in [Holder -> Nat]
         /\ Collateral' = 0
         /\ balance' =
              [holder \in Holder |->
                 IF holder = Contract THEN 0
                 ELSE balance[holder]
                   + (IF holder = terms.buyer THEN Collateral ELSE 0)]
<1>1. /\ balance \in [Holder -> Nat] /\ Contract \in Holder
      /\ Collateral \in Nat /\ Collateral = balance[Contract]
      /\ terms.buyer \in Holder /\ terms.buyer # Contract
  BY CollateralType, TermsType, PriceFloorAssumption
     DEF TypeOK, Holder, Collateral
<1>2. balance' = [balance EXCEPT
                    ![Contract] = balance[Contract] - Collateral,
                    ![terms.buyer] = balance[terms.buyer] + Collateral]
  BY <1>1 DEF Transfer
<1>3. balance' =
        [holder \in Holder |->
           IF holder = Contract THEN 0
           ELSE balance[holder] + (IF holder = terms.buyer THEN Collateral ELSE 0)]
  <2> DEFINE buyer == terms.buyer
  <2> DEFINE held == Collateral
  <2>1. /\ balance' = [balance EXCEPT ![Contract] = balance[Contract] - held,
                                      ![buyer] = balance[buyer] + held]
        /\ held \in Nat /\ balance[Contract] - held = 0
        /\ buyer \in Holder /\ buyer # Contract
    BY <1>1, <1>2
  <2> HIDE DEF buyer, held
  <2>2. balance' =
          [holder \in Holder |->
             IF holder = Contract THEN 0
             ELSE balance[holder] + (IF holder = buyer THEN held ELSE 0)]
    BY <1>1, <2>1
  <2>3. QED
    BY <2>2 DEF buyer, held
<1>4. balance' \in [Holder -> Nat] /\ Collateral' = 0
  BY <1>1, <1>3 DEF Collateral
<1>5. QED
  BY <1>3, <1>4

LEMMA NextIInv == IInv /\ [Next]_vars => IInv'
<1> SUFFICES ASSUME IInv, [Next]_vars
             PROVE  IInv'
  OBVIOUS
<1>0. TypeOK /\ FlagOrder /\ NoStrandedFunds /\ FundedIsBacked
  BY DEF IInv
<1> USE DEF FlagOrder, NoStrandedFunds, FundedIsBacked, Agreed
<1>1. ASSUME NEW new \in Terms, Initialize(new)
      PROVE  IInv'
  <2>1. ~funded /\ ~settled /\ UNCHANGED balance
    BY <1>0, <1>1 DEF Initialize
  <2>2. TypeOK'
    BY <1>0, <1>1 DEF Initialize, TypeOK
  <2>3. FlagOrder' /\ NoStrandedFunds' /\ FundedIsBacked'
    BY <1>0, <1>1, <2>1 DEF Initialize, Collateral
  <2>4. QED
    BY <2>2, <2>3 DEF IInv
<1>2. ASSUME NEW caller \in Account, NEW amount \in Amounts, Fund(caller, amount)
      PROVE  IInv'
  <2>1. amount \in Nat \ {0}
    BY <1>2, PriceFloorAssumption DEF Fund
  <2>2. /\ balance' \in [Holder -> Nat]
        /\ Collateral' = Collateral + amount
        /\ Collateral' <= MaxI128
    BY <1>0, <1>2, <2>1, PaidIn DEF Fund
  <2>3. TypeOK'
    BY <1>0, <1>2, <2>2 DEF Fund, TypeOK, Collateral
  <2>4. Collateral' > 0
    BY <1>0, <2>1, <2>2, CollateralType
  <2>5. FlagOrder' /\ NoStrandedFunds' /\ FundedIsBacked'
    BY <1>0, <1>2, <2>4 DEF Fund
  <2>6. QED
    BY <2>3, <2>5 DEF IInv
<1>3. CASE Settle
  <2>1. balance' \in [Holder -> Nat] /\ Collateral' = 0
    BY <1>0, <1>3, SettledBalance
  <2>2. TypeOK'
    BY <1>0, <1>3, <2>1, CollateralType DEF Settle, TypeOK, Collateral
  <2>3. FlagOrder' /\ NoStrandedFunds' /\ FundedIsBacked'
    BY <1>0, <1>3, <2>1 DEF Settle, CanSettle
  <2>4. QED
    BY <2>2, <2>3 DEF IInv
<1>4. ASSUME NEW caller \in Account, CancelFunded(caller)
      PROVE  IInv'
  <2>1. balance' \in [Holder -> Nat] /\ Collateral' = 0
    BY <1>0, <1>4, CancelledBalance DEF CancelFunded, IsParty
  <2>2. TypeOK'
    <3>1. balance'[Contract] <= MaxI128
      BY <1>0, <2>1, CollateralType DEF Collateral
    <3>2. QED
      BY <1>0, <1>4, <2>1, <3>1 DEF CancelFunded, TypeOK
  <2>3. FlagOrder' /\ NoStrandedFunds' /\ FundedIsBacked'
    BY <1>0, <1>4, <2>1 DEF CancelFunded, CanCancelFunded
  <2>4. QED
    BY <2>2, <2>3 DEF IInv
<1>5. ASSUME NEW caller \in Account, CancelUnfunded(caller)
      PROVE  IInv'
  <2>1. TypeOK'
    BY <1>0, <1>5 DEF CancelUnfunded, TypeOK
  <2>2. FlagOrder' /\ NoStrandedFunds' /\ FundedIsBacked'
    BY <1>0, <1>5 DEF CancelUnfunded, Collateral
  <2>3. QED
    BY <2>1, <2>2 DEF IInv
<1>6. ASSUME NEW giver \in Account, NEW amount \in Gifts, Gift(giver, amount)
      PROVE  IInv'
  <2>1. amount \in Nat \ {0} /\ Gifts # {}
    BY PriceFloorAssumption
  <2>2. /\ balance' \in [Holder -> Nat]
        /\ Collateral' = Collateral + amount
        /\ Collateral' <= MaxI128
    BY <1>0, <1>6, <2>1, PaidIn DEF Gift
  <2>3. TypeOK'
    BY <1>0, <1>6, <2>2 DEF Gift, TypeOK, Collateral
  <2>4. Collateral' > 0
    BY <1>0, <2>1, <2>2, CollateralType
  <2>5. FlagOrder' /\ NoStrandedFunds' /\ FundedIsBacked'
    BY <1>0, <1>6, <2>1, <2>4 DEF Gift
  <2>6. QED
    BY <2>3, <2>5 DEF IInv
<1>7. ASSUME NEW price \in MarketPrices, Publish(price)
      PROVE  IInv'
  <2>1. TypeOK'
    BY <1>0, <1>7 DEF Publish, TypeOK
  <2>2. FlagOrder' /\ NoStrandedFunds' /\ FundedIsBacked'
    BY <1>0, <1>7 DEF Publish, Collateral
  <2>3. QED
    BY <2>1, <2>2 DEF IInv
<1>8. CASE Tick
  <2>1. TypeOK'
    BY <1>0, <1>8 DEF Tick, TypeOK
  <2>2. FlagOrder' /\ NoStrandedFunds' /\ FundedIsBacked'
    BY <1>0, <1>8 DEF Tick, Collateral
  <2>3. QED
    BY <2>1, <2>2 DEF IInv
<1>9. CASE UNCHANGED vars
  <2>1. TypeOK'
    BY <1>0, <1>9 DEF vars, TypeOK
  <2>2. FlagOrder' /\ NoStrandedFunds' /\ FundedIsBacked'
    BY <1>0, <1>9 DEF vars, Collateral
  <2>3. QED
    BY <2>1, <2>2 DEF IInv
<1>10. QED
  BY <1>1, <1>2, <1>3, <1>4, <1>5, <1>6, <1>7, <1>8, <1>9 DEF Next, Cancel

LEMMA Invariance == Spec => []IInv
<1>1. QED
  BY InitIInv, NextIInv, PTL DEF Spec

(***************************************************************************)
(* In every reachable state the agreement's variables have their types;    *)
(* no token balance is ever negative.                                      *)
(***************************************************************************)
THEOREM PriceFloorTypeOK == Spec => []TypeOK
<1>1. IInv => TypeOK
  BY DEF IInv
<1>2. QED
  BY <1>1, Invariance, PTL

(***************************************************************************)
(* Without direct transfers the contract holds tokens exactly while it is  *)
(* funded and not settled, over any sequence of funding, settling,         *)
(* cancelling and funding again.                                           *)
(***************************************************************************)
THEOREM PriceFloorNoStrandedFunds == Spec => []NoStrandedFunds
<1>1. IInv => NoStrandedFunds
  BY DEF IInv
<1>2. QED
  BY <1>1, Invariance, PTL

(***************************************************************************)
(* With direct transfers too, a live agreement always has collateral.      *)
(***************************************************************************)
THEOREM PriceFloorFundedIsBacked == Spec => []FundedIsBacked
<1>1. IInv => FundedIsBacked
  BY DEF IInv
<1>2. QED
  BY <1>1, Invariance, PTL

(***************************************************************************)
(* Past the grace period exactly one of settle and cancel can release the  *)
(* collateral of an agreement on well-formed terms.                        *)
(***************************************************************************)
THEOREM PriceFloorExactlyOneExit == Spec => []ExactlyOneExit
<1>1. IInv => ExactlyOneExit
  <2> SUFFICES ASSUME TypeOK, WellFormed, funded, ~settled,
                      now >= SaturatingAdd(terms.maturity, SettleFailureGrace)
               PROVE  CanSettle <=> ~CanCancelFunded
    BY DEF IInv, ExactlyOneExit
  <2>1. CASE market = NoPrice
    BY <2>1 DEF CanSettle, CanCancelFunded
  <2>2. CASE market # NoPrice
    <3>1. now >= terms.maturity
      <4>1. /\ terms.maturity \in Nat /\ terms.maturity <= MaxU64
            /\ SettleFailureGrace \in Nat /\ MaxU64 \in Nat /\ now \in Nat
        BY TermsType, PriceFloorAssumption DEF WellFormed, TypeOK
      <4>2. QED
        BY <4>1 DEF SaturatingAdd
    <3>2. NoOverflow /\ Paid(Payout) + Paid(RefundDue) <= Collateral
      BY <2>2, WellFormedSettles
    <3>3. CanSettle
      BY <2>2, <3>1, <3>2 DEF CanSettle, WellFormed
    <3>4. ~CanCancelFunded
      BY <2>2 DEF CanCancelFunded
    <3>5. QED
      BY <3>3, <3>4
  <2>3. QED
    BY <2>1, <2>2
<1>2. QED
  BY <1>1, Invariance, PTL

\* Once two parties have agreed, the terms are fixed, funding lasts until a
\* cancel or a settlement, and nothing undoes a cancel or a settlement.
LEMMA AgreementStays ==
  ASSUME IInv, [Next]_vars
  PROVE  /\ Agreed => Agreed' /\ UNCHANGED terms
         /\ settled => settled'
         /\ cancelled => cancelled'
         /\ funded => funded' \/ cancelled'
         /\ funded /\ market # NoPrice => funded'
         /\ market # NoPrice => (market # NoPrice)'
         /\ now \in Nat /\ now' \in Nat /\ now' >= now
<1>0. TypeOK /\ FlagOrder /\ TypeOK'
  BY NextIInv DEF IInv
<1>1. now \in Nat /\ now' \in Nat
  BY <1>0, PriceFloorAssumption DEF TypeOK
<1>2. ASSUME NEW new \in Terms, Initialize(new)
      PROVE  ~Agreed /\ ~funded /\ ~settled /\ UNCHANGED <<now, cancelled, market>>
  BY <1>0, <1>2 DEF Initialize, FlagOrder
<1>3. ASSUME NEW caller \in Account, NEW amount \in Amounts, Fund(caller, amount)
      PROVE  funded' /\ UNCHANGED <<now, terms, settled, cancelled, market>>
  BY <1>3 DEF Fund
<1>4. CASE Settle
  BY <1>1, <1>4 DEF Settle, Agreed
<1>5. CASE Cancel
  BY <1>1, <1>5 DEF Cancel, CancelFunded, CancelUnfunded, CanCancelFunded, Agreed
<1>6. ASSUME NEW giver \in Account, NEW amount \in Gifts, Gift(giver, amount)
      PROVE  UNCHANGED <<now, terms, funded, settled, cancelled, market>>
  BY <1>6 DEF Gift
<1>7. ASSUME NEW price \in MarketPrices, Publish(price)
      PROVE  /\ (market # NoPrice)'
             /\ UNCHANGED <<now, terms, funded, settled, cancelled>>
  BY <1>7, PriceFloorAssumption DEF Publish
<1>8. CASE Tick
  BY <1>1, <1>8 DEF Tick, Agreed
<1>9. CASE UNCHANGED vars
  BY <1>1, <1>9 DEF vars, Agreed
<1>10. QED
  BY <1>1, <1>2, <1>3, <1>4, <1>5, <1>6, <1>7, <1>8, <1>9 DEF Next, Agreed

\* A settle that is due on well-formed terms succeeds.
LEMMA PricedIsSettleable ==
  TypeOK /\ WellFormed /\ funded /\ ~settled /\ now >= terms.maturity
    /\ market # NoPrice => CanSettle
BY WellFormedSettles DEF CanSettle, WellFormed

LEMMA PricedIsSettleableAfter ==
  (TypeOK /\ WellFormed /\ funded /\ ~settled /\ now >= terms.maturity
     /\ market # NoPrice => CanSettle)'
BY PricedIsSettleable, PTL

(***************************************************************************)
(* What the documentation says of cancel, "if the oracle has a price, the  *)
(* agreement can be settled normally", holds for well-formed terms.        *)
(***************************************************************************)
THEOREM PriceFloorPricedMeansSettleable ==
  Spec => [](WellFormed => PricedMeansSettleable)
<1>1. IInv => (WellFormed => PricedMeansSettleable)
  BY PricedIsSettleable DEF IInv, PricedMeansSettleable
<1>2. QED
  BY <1>1, Invariance, PTL

(***************************************************************************)
(* Once settle can succeed on well-formed terms, it can until it has: no   *)
(* price, transfer, cancel or passing of time takes the settlement away.   *)
(***************************************************************************)
SettleStaysPossible == [][WellFormed /\ CanSettle => CanSettle' \/ settled']_vars

THEOREM PriceFloorSettleStaysPossible == Spec => SettleStaysPossible
<1>1. ASSUME IInv, IInv', [Next]_vars, WellFormed, CanSettle, ~settled'
      PROVE  CanSettle'
  <2>1. Agreed /\ now >= terms.maturity /\ funded /\ market # NoPrice
    BY <1>1 DEF CanSettle
  <2>2. /\ Agreed' /\ UNCHANGED terms /\ funded' /\ (market # NoPrice)'
        /\ now \in Nat /\ now' \in Nat /\ now' >= now
    BY <1>1, <2>1, AgreementStays
  <2>3. terms.maturity \in Nat
    BY <1>1, <2>1, TermsType DEF IInv
  <2>4. now' >= terms'.maturity
    BY <2>1, <2>2, <2>3
  <2>5. WellFormed' /\ TypeOK'
    BY <1>1, <2>2 DEF WellFormed, IInv
  <2>6. QED
    BY <1>1, <2>2, <2>4, <2>5, PricedIsSettleableAfter
<1>2. IInv /\ IInv' /\ [Next]_vars =>
        [WellFormed /\ CanSettle => CanSettle' \/ settled']_vars
  BY <1>1
<1>3. QED
  BY <1>2, Invariance, PTL DEF Spec, SettleStaysPossible

\* Nothing but settle sets the flag.
LEMMA OnlySettle ==
  ASSUME [Next]_vars, ~settled, settled'
  PROVE  Settle
BY DEF Next, Cancel, vars, Initialize, Fund, CancelFunded, CancelUnfunded,
       Gift, Publish, Tick

\* The payout is the least amount that tops the market value up to the floor.
LEMMA PayoutTopsUp ==
  ASSUME TypeOK, WellFormed, market # NoPrice
  PROVE  /\ Reaches(Payout) \/ Payout = Collateral
         /\ Payout > 0 => ~Reaches(Payout - 1)
<1> DEFINE f == terms.floor_price
<1> DEFINE n == terms.notional
<1>1. /\ f \in Nat /\ n \in Nat /\ market \in Nat
      /\ Collateral \in Nat
  BY TermsType, CollateralType, MarketType DEF WellFormed
<1>2. /\ Payout \in Int
      /\ BelowFloor => /\ Gross \in Int
                       /\ Gross = (f - market) * n
                       /\ Payout = Lesser(Gross, Collateral)
      /\ ~BelowFloor => Payout = 0
  BY PayoutType DEF WellFormed
<1>3. BelowFloor <=> market < f
  BY DEF BelowFloor
<1>4. \A share : Reaches(share) <=> share + market * n >= f * n
  BY DEF Reaches
<1> HIDE DEF f, n
<1>5. (f - market) * n = f * n - market * n
  BY <1>1
<1>6. market * n \in Int /\ f * n \in Int
  BY <1>1
<1>7. CASE BelowFloor
  BY <1>1, <1>2, <1>4, <1>5, <1>6, <1>7 DEF Lesser
<1>8. CASE ~BelowFloor
  <2>1. f * n <= market * n
    BY <1>1, <1>3, <1>8, ProductOrder
  <2>2. QED
    BY <1>2, <1>4, <1>6, <1>8, <2>1
<1>9. QED
  BY <1>7, <1>8

(***************************************************************************)
(* A settlement on well-formed terms pays the farmer the least amount that *)
(* reaches the floor value, or everything, the buyer the rest and nobody   *)
(* else anything.                                                          *)
(***************************************************************************)
THEOREM PriceFloorFarmerTopUp == Spec => FarmerTopUp
<1> DEFINE TopUp ==
      \E share \in 0..Collateral :
        /\ Reaches(share) \/ share = Collateral
        /\ share > 0 => ~Reaches(share - 1)
        /\ balance' =
             [holder \in Holder |->
                IF holder = Contract THEN 0
                ELSE balance[holder]
                  + (IF holder = terms.farmer THEN share ELSE 0)
                  + (IF holder = terms.buyer THEN Collateral - share ELSE 0)]
<1>1. ASSUME IInv, [Next]_vars, WellFormed, ~settled, settled'
      PROVE  TopUp
  <2>1. Settle /\ TypeOK
    BY <1>1, OnlySettle DEF IInv
  <2>2. market # NoPrice
    BY <2>1 DEF Settle, CanSettle
  <2>3. Payout \in 0..Collateral
    BY <1>1, <2>1, <2>2, WellFormedSettles
  <2>4. /\ Reaches(Payout) \/ Payout = Collateral
        /\ Payout > 0 => ~Reaches(Payout - 1)
    BY <1>1, <2>1, <2>2, PayoutTopsUp
  <2>5. QED
    BY <2>1, <2>3, <2>4, SettledBalance
<1> HIDE DEF TopUp
<1>2. IInv /\ [Next]_vars => [WellFormed /\ ~settled /\ settled' => TopUp]_vars
  BY <1>1
<1> USE DEF TopUp
<1>3. QED
  BY <1>2, Invariance, PTL DEF Spec, FarmerTopUp

(***************************************************************************)
(* The agreement implements the abstract escrow.                           *)
(***************************************************************************)
\* The refinement mapping.
Parties == IF Agreed THEN [farmer |-> terms.farmer, buyer |-> terms.buyer]
           ELSE NoTerms
Phase == IF settled THEN "settled" ELSE IF funded THEN "funded" ELSE "open"

LEMMA PartiesOfTerms ==
  ASSUME TypeOK, Agreed
  PROVE  /\ Parties = [farmer |-> terms.farmer, buyer |-> terms.buyer]
         /\ Parties # NoTerms
         /\ Parties.farmer = terms.farmer
         /\ Parties.buyer = terms.buyer
<1>1. Parties \in [farmer : Account, buyer : Account]
  BY TermsType DEF Parties
<1>2. QED
  BY <1>1, NoTermsAssumption DEF Parties

LEMMA EscrowInit == Init => Custody!Init
BY DEF Init, Custody!Init, Holder, Agreed

LEMMA EscrowStep ==
  IInv /\ [Next]_vars => [Custody!Next]_<<Parties, Phase, balance>>
<1> SUFFICES ASSUME IInv, [Next]_vars
             PROVE  Custody!Next \/ UNCHANGED <<Parties, Phase, balance>>
  OBVIOUS
<1>0. /\ TypeOK /\ FlagOrder
      /\ DOMAIN balance = Holder
  BY DEF IInv, TypeOK
<1>1. ASSUME NEW new \in Terms, Initialize(new)
      PROVE  Custody!Agree
  <2>1. /\ Parties = NoTerms
        /\ UNCHANGED <<Phase, balance>>
    BY <1>0, <1>1 DEF Initialize, Parties, Phase, Agreed, FlagOrder
  <2>2. Parties' = [farmer |-> new.farmer, buyer |-> new.buyer]
    BY <1>1, NoTermsAssumption DEF Initialize, Parties, Agreed
  <2>3. new.farmer \in Account /\ new.buyer \in Account
    BY DEF Terms
  <2>4. QED
    BY <2>1, <2>2, <2>3 DEF Custody!Agree, Parties, Phase
<1>2. ASSUME NEW caller \in Account, NEW amount \in Amounts, Fund(caller, amount)
      PROVE  Custody!Deposit
  <2>1. /\ Parties # NoTerms /\ Parties.buyer = caller
        /\ UNCHANGED Parties
    BY <1>0, <1>2, PartiesOfTerms DEF Fund, Parties, Agreed
  <2>2. Phase = "open" /\ Phase' = "funded"
    BY <1>2 DEF Fund, Phase
  <2>3. /\ amount \in 1..balance[caller]
        /\ balance' = Custody!Move(caller, Contract, amount)
    <3>1. balance[caller] \in Nat /\ amount \in Nat \ {0} /\ amount <= balance[caller]
      BY <1>0, <1>2, PriceFloorAssumption DEF Fund, TypeOK, Holder
    <3>2. QED
      BY <1>2, <3>1 DEF Fund, Transfer, Custody!Move
  <2>4. QED
    BY <2>1, <2>2, <2>3 DEF Custody!Deposit, Parties, Phase
<1>3. ASSUME Settle PROVE  Custody!Divide
  <2>1. /\ Parties.farmer = terms.farmer /\ Parties.buyer = terms.buyer
        /\ UNCHANGED Parties
    BY <1>0, <1>3, PartiesOfTerms DEF Settle, CanSettle, Parties, Agreed
  <2>2. Phase = "funded" /\ Phase' = "settled"
    BY <1>3 DEF Settle, CanSettle, Phase
  <2>3. Payout \in 0..balance[Contract]
    BY <1>0, <1>3, SettlementDivides DEF Settle, Collateral
  <2>4. balance' = Custody!Divided(Payout)
    BY <1>0, <1>3, <2>1, SettledBalance DEF Custody!Divided, Collateral, Parties
  <2>5. QED
    BY <2>1, <2>2, <2>3, <2>4 DEF Custody!Divide, Parties, Phase
<1>4. ASSUME NEW caller \in Account, CancelFunded(caller)
      PROVE  Custody!Refund
  <2>1. /\ Parties.farmer = terms.farmer /\ Parties.buyer = terms.buyer
        /\ UNCHANGED Parties
    BY <1>0, <1>4, PartiesOfTerms DEF CancelFunded, IsParty, Parties, Agreed
  <2>2. Phase = "funded" /\ Phase' = "open"
    BY <1>4 DEF CancelFunded, CanCancelFunded, Phase
  <2>3. balance' =
          [holder \in Holder |->
             IF holder = Contract THEN 0
             ELSE balance[holder]
               + (IF holder = terms.buyer THEN Collateral ELSE 0)]
    BY <1>0, <1>4, CancelledBalance DEF CancelFunded, IsParty
  <2>4. balance' = Custody!Divided(0)
    <3>1. \A holder \in Holder : balance[holder] \in Nat
      BY <1>0 DEF TypeOK
    <3>2. balance[Contract] - 0 = Collateral /\ Collateral \in Nat
      BY <1>0, CollateralType DEF Collateral
    <3>3. \A holder \in Holder :
            balance[holder] + (IF holder = terms.buyer THEN Collateral ELSE 0)
              = balance[holder] + (IF holder = terms.farmer THEN 0 ELSE 0)
                  + (IF holder = terms.buyer THEN balance[Contract] - 0 ELSE 0)
      BY <3>1, <3>2
    <3>4. QED
      BY <1>0, <2>1, <2>3, <3>3 DEF Custody!Divided, Parties
  <2>5. QED
    BY <2>1, <2>2, <2>4 DEF Custody!Refund, Parties, Phase
<1>5. ASSUME NEW caller \in Account, CancelUnfunded(caller)
      PROVE  UNCHANGED <<Parties, Phase, balance>>
  BY <1>5 DEF CancelUnfunded, Parties, Phase, Agreed
<1>6. ASSUME NEW giver \in Account, NEW amount \in Gifts, Gift(giver, amount)
      PROVE  Custody!Gift
  <2>1. UNCHANGED <<Parties, Phase>>
    BY <1>6 DEF Gift, Parties, Phase, Agreed
  <2>2. /\ amount \in 1..balance[giver]
        /\ balance' = Custody!Move(giver, Contract, amount)
    <3>1. balance[giver] \in Nat /\ amount \in Nat \ {0} /\ amount <= balance[giver]
      BY <1>0, <1>6, PriceFloorAssumption DEF Gift, TypeOK, Holder
    <3>2. QED
      BY <1>6, <3>1 DEF Gift, Transfer, Custody!Move
  <2>3. QED
    BY <2>1, <2>2 DEF Custody!Gift, Parties, Phase
<1>7. ASSUME NEW price \in MarketPrices, Publish(price)
      PROVE  UNCHANGED <<Parties, Phase, balance>>
  BY <1>7 DEF Publish, Parties, Phase, Agreed
<1>8. CASE Tick
  BY <1>8 DEF Tick, Parties, Phase, Agreed
<1>9. CASE UNCHANGED vars
  BY <1>9 DEF vars, Parties, Phase, Agreed
<1>10. QED
  BY <1>1, <1>2, <1>3, <1>4, <1>5, <1>6, <1>7, <1>8, <1>9
     DEF Next, Cancel, Custody!Next

(***************************************************************************)
(* Whatever the terms, the clock and the oracle do, the collateral leaves  *)
(* as a whole, to the farmer and the buyer by one settlement or back to    *)
(* the buyer, and nobody else is ever paid.                                *)
(***************************************************************************)
THEOREM PriceFloorImplementsEscrow == Spec => ImplementsEscrow
<1>1. QED
  BY EscrowInit, EscrowStep, Invariance, PTL
     DEF Spec, ImplementsEscrow, Custody!Spec, Parties, Phase
=============================================================================
