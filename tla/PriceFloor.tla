----------------------------- MODULE PriceFloor -----------------------------
(***************************************************************************)
(* The agripricefloor contract (agripricefloor/src/lib.rs): one cash-      *)
(* settled price-floor agreement between a farmer and a buyer, with the    *)
(* settlement token and the oracle it calls as the environment.            *)
(*                                                                         *)
(* An action is one successful invocation.  The host rolls back an         *)
(* invocation that returns an error or traps, so a failing call is a       *)
(* stuttering step and its conditions are negated conjuncts of the guard.  *)
(***************************************************************************)
EXTENDS Integers

CONSTANTS
  Account,             \* holders of the settlement token
  Contract,            \* env.current_contract_address()
  NoTerms,             \* no agreement stored
  FloorPrices,         \* floor prices offered to initialize
  Notionals,           \* notionals offered to initialize
  Maturities,          \* maturity timestamps offered to initialize
  Amounts,             \* amounts offered to fund, malformed ones included
  Gifts,               \* amounts sent to the contract's address directly
  MarketPrices,        \* prices the oracle may publish
  NoPrice,             \* the oracle's lastprice is None
  Opening,             \* token balances an account may start with
  UnfundedCancelGrace, \* UNFUNDED_CANCEL_GRACE
  SettleFailureGrace,  \* SETTLE_FAILURE_GRACE
  MaxI128,             \* i128::MAX
  MaxU64,              \* u64::MAX
  MaxTime              \* bound on the ledger timestamps explored

ASSUME PriceFloorAssumption ==
  /\ MaxI128 \in Nat
  /\ MaxU64 \in Nat
  /\ MaxTime \in 0..MaxU64
  /\ Contract \notin Account
  /\ FloorPrices \subseteq (-MaxI128 - 1)..MaxI128
  /\ Notionals \subseteq (-MaxI128 - 1)..MaxI128
  /\ Amounts \subseteq (-MaxI128 - 1)..MaxI128
  /\ Gifts \subseteq 1..MaxI128
  /\ Maturities \subseteq 0..MaxU64
  /\ MarketPrices \subseteq 1..MaxI128
  /\ NoPrice \notin MarketPrices
  /\ Opening \subseteq Nat
  /\ UnfundedCancelGrace \in Nat
  /\ SettleFailureGrace \in Nat

VARIABLES
  now,         \* env.ledger().timestamp()
  terms,       \* NoTerms, or what initialize stored
  funded,      \* DataKey::Funded
  settled,     \* DataKey::Settled
  cancelled,   \* DataKey::Cancelled, false while the key is absent
  balance,     \* the settlement token's balances
  market       \* NoPrice, or the price in the oracle's lastprice

vars == <<now, terms, funded, settled, cancelled, balance, market>>

I128 == (-MaxI128 - 1)..MaxI128
Holder == Account \union {Contract}

Terms == [farmer : Account, buyer : Account, floor_price : FloorPrices,
          notional : Notionals, maturity : Maturities]

ASSUME NoTermsAssumption ==
  /\ NoTerms \notin Terms
  /\ NoTerms \notin [farmer : Account, buyer : Account]

TypeOK ==
  /\ now \in 0..MaxTime
  /\ terms \in Terms \union {NoTerms}
  /\ funded \in BOOLEAN
  /\ settled \in BOOLEAN
  /\ cancelled \in BOOLEAN
  /\ balance \in [Holder -> Nat]
  /\ balance[Contract] <= MaxI128
  /\ market \in MarketPrices \union {NoPrice}
-----------------------------------------------------------------------------
Agreed == terms # NoTerms

\* a.saturating_add(b) on u64.
SaturatingAdd(a, b) == IF a + b > MaxU64 THEN MaxU64 ELSE a + b

\* transfer(from, to, amount).  The token traps unless the amount is covered
\* and the receiver's balance stays an i128.  Whoever pays into the contract is
\* guarded against both.  An account that is paid out of it gets no more than the
\* token's whole supply, taken to be an i128 as it is for token contracts.
Transfer(from, to, amount) ==
  [balance EXCEPT ![from] = @ - amount, ![to] = @ + amount]

\* funded_amount, the whole balance of the contract.
Collateral == balance[Contract]

\* (floor_price - market_price) * notional, where it is computed.
BelowFloor == market < terms.floor_price
Shortfall == terms.floor_price - market
Gross == Shortfall * terms.notional

Lesser(a, b) == IF a <= b THEN a ELSE b

\* Mutant of Payout: the price difference is paid once, not per unit.
PayoutPerUnit == IF BelowFloor THEN Lesser(Shortfall, Collateral) ELSE 0

Payout == IF BelowFloor THEN Lesser(Gross, Collateral) ELSE 0
RefundDue == Collateral - Payout

\* checked_sub, checked_mul and checked_sub all succeed.
NoOverflow == BelowFloor => /\ Shortfall \in I128
                            /\ Gross \in I128
                            /\ RefundDue \in I128

\* Mutant of Paid: the two `> 0` guards in front of the transfers are dropped, on
\* a token that lets a negative amount through.
PaidUnchecked(amount) == amount

\* Both transfers settle makes; each is skipped when its amount is not positive.
Paid(amount) == IF amount > 0 THEN amount ELSE 0

\* Mutant of AfterSettlement: the buyer's refund is left out.
AfterPayoutOnly ==
  [balance EXCEPT ![Contract] = @ - Paid(Payout),
                  ![terms.farmer] = @ + Paid(Payout)]

AfterSettlement ==
  [holder \in Holder |->
     (IF holder = Contract
      THEN balance[holder] - Paid(Payout) - Paid(RefundDue)
      ELSE balance[holder]
             + (IF holder = terms.farmer THEN Paid(Payout) ELSE 0)
             + (IF holder = terms.buyer THEN Paid(RefundDue) ELSE 0))]
-----------------------------------------------------------------------------
Init ==
  /\ now = 0
  /\ terms = NoTerms
  /\ funded = FALSE
  /\ settled = FALSE
  /\ cancelled = FALSE
  /\ balance \in {b \in [Holder -> Opening \union {0}] : b[Contract] = 0}
  /\ market = NoPrice

\* Nothing relates or bounds the terms: both parties signed them.
Initialize(new) ==
  /\ ~Agreed
  /\ terms' = new
  /\ funded' = FALSE
  /\ settled' = FALSE
  /\ UNCHANGED <<now, cancelled, balance, market>>

\* Neither the maturity nor an earlier cancel stands in the way.
Fund(caller, amount) ==
  /\ Agreed
  /\ caller = terms.buyer
  /\ amount > 0
  /\ ~funded
  /\ ~settled
  /\ amount <= balance[caller]
  /\ Collateral + amount <= MaxI128
  /\ balance' = Transfer(caller, Contract, amount)
  /\ funded' = TRUE
  /\ UNCHANGED <<now, terms, settled, cancelled, market>>

\* Mutant of CanSettle: a settled agreement is settled again.
CanSettleAgain ==
  /\ Agreed
  /\ now >= terms.maturity
  /\ funded
  /\ market # NoPrice
  /\ NoOverflow
  /\ Paid(Payout) + Paid(RefundDue) <= Collateral

CanSettle ==
  /\ ~settled
  /\ Agreed
  /\ now >= terms.maturity
  /\ funded
  /\ market # NoPrice
  /\ NoOverflow
  /\ Paid(Payout) + Paid(RefundDue) <= Collateral

\* Permissionless.
Settle ==
  /\ CanSettle
  /\ balance' = AfterSettlement
  /\ settled' = TRUE
  /\ UNCHANGED <<now, terms, funded, cancelled, market>>

IsParty(caller) == Agreed /\ caller \in {terms.farmer, terms.buyer}

\* Mutants of CanCancelFunded: the oracle is not asked, and the instant in
\* which the grace period ends still belongs to it.
CanCancelPriced ==
  /\ ~settled
  /\ funded
  /\ now >= SaturatingAdd(terms.maturity, SettleFailureGrace)
CanCancelLater ==
  /\ ~settled
  /\ funded
  /\ now > SaturatingAdd(terms.maturity, SettleFailureGrace)
  /\ market = NoPrice

CanCancelFunded ==
  /\ ~settled
  /\ funded
  /\ now >= SaturatingAdd(terms.maturity, SettleFailureGrace)
  /\ market = NoPrice

\* Mutants of CancelFunded: the caller is refunded in place of the buyer, and
\* the agreement stays marked as funded.
CancelToCaller(caller) ==
  /\ IsParty(caller)
  /\ CanCancelFunded
  /\ balance' = Transfer(Contract, caller, Collateral)
  /\ funded' = FALSE
  /\ cancelled' = TRUE
  /\ UNCHANGED <<now, terms, settled, market>>
CancelStillFunded(caller) ==
  /\ IsParty(caller)
  /\ CanCancelFunded
  /\ balance' = Transfer(Contract, terms.buyer, Collateral)
  /\ cancelled' = TRUE
  /\ UNCHANGED <<now, terms, funded, settled, market>>

CancelFunded(caller) ==
  /\ IsParty(caller)
  /\ CanCancelFunded
  /\ balance' = Transfer(Contract, terms.buyer, Collateral)
  /\ funded' = FALSE
  /\ cancelled' = TRUE
  /\ UNCHANGED <<now, terms, settled, market>>

CancelUnfunded(caller) ==
  /\ IsParty(caller)
  /\ ~settled
  /\ ~funded
  /\ now >= SaturatingAdd(terms.maturity, UnfundedCancelGrace)
  /\ cancelled' = TRUE
  /\ UNCHANGED <<now, terms, funded, settled, balance, market>>
-----------------------------------------------------------------------------
\* The environment: direct token transfers to the contract's address, ...
Gift(giver, amount) ==
  /\ amount <= balance[giver]
  /\ Collateral + amount <= MaxI128
  /\ balance' = Transfer(giver, Contract, amount)
  /\ UNCHANGED <<now, terms, funded, settled, cancelled, market>>

\* ... the oracle finalizing a price for the commodity, which then always has
\* one, ...
Publish(price) ==
  /\ market' = price
  /\ UNCHANGED <<now, terms, funded, settled, cancelled, balance>>

\* ... and ledgers closing with later timestamps.
Tick ==
  /\ now' \in {t \in 0..MaxTime : t > now}
  /\ UNCHANGED <<terms, funded, settled, cancelled, balance, market>>

Cancel == \E caller \in Account : CancelFunded(caller) \/ CancelUnfunded(caller)

Next ==
  \/ \E new \in Terms : Initialize(new)
  \/ \E caller \in Account, amount \in Amounts : Fund(caller, amount)
  \/ Settle
  \/ Cancel
  \/ \E giver \in Account, amount \in Gifts : Gift(giver, amount)
  \/ \E price \in MarketPrices : Publish(price)
  \/ Tick

Spec == Init /\ [][Next]_vars

(***************************************************************************)
(* Ledgers keep closing; settle is permissionless and pays, so somebody    *)
(* calls it while it would succeed; and a party to a stalled agreement     *)
(* calls cancel to get the collateral back.                                *)
(***************************************************************************)
Fairness == WF_vars(Tick) /\ WF_vars(Settle) /\ WF_vars(Cancel)

FairSpec == Spec /\ Fairness
-----------------------------------------------------------------------------
(***************************************************************************)
(* Properties.                                                             *)
(***************************************************************************)
\* The agreed value of the whole quantity at the floor is an i128 amount and
\* the quantity is not negative: what "well-formed prices and notional" means.
WellFormed ==
  /\ Agreed
  /\ terms.notional >= 0
  /\ terms.floor_price >= 0
  /\ terms.floor_price * terms.notional <= MaxI128

\* When nobody sends tokens past fund, the contract holds tokens exactly while
\* it is funded and not settled: settle and a funded cancel leave nothing
\* stranded, and no flag claims collateral that is not there.
NoStrandedFunds ==
  Gifts = {} => (Collateral > 0 <=> funded /\ ~settled)

\* Tokens sent to the contract directly never make a live agreement lose its
\* collateral.
FundedIsBacked == funded /\ ~settled => Collateral > 0

\* Past the grace period a funded agreement on well-formed terms has one way
\* out and never two: settle if the oracle has a price, cancel if it has none.
ExactlyOneExit ==
  (/\ WellFormed
   /\ funded
   /\ ~settled
   /\ now >= SaturatingAdd(terms.maturity, SettleFailureGrace))
     => (CanSettle <=> ~CanCancelFunded)

\* What the farmer holds after a settlement, on top of the market value of the
\* quantity, reaches the value at the floor; settle pays the least amount that
\* does, or all the collateral when that is not enough.  The buyer gets the
\* rest and everyone else nothing.
Reaches(share) ==
  share + market * terms.notional >= terms.floor_price * terms.notional

FarmerTopUp ==
  [][WellFormed /\ ~settled /\ settled' =>
       \E share \in 0..Collateral :
         /\ Reaches(share) \/ share = Collateral
         /\ share > 0 => ~Reaches(share - 1)
         /\ balance' =
              [holder \in Holder |->
                 IF holder = Contract THEN 0
                 ELSE balance[holder]
                   + (IF holder = terms.farmer THEN share ELSE 0)
                   + (IF holder = terms.buyer THEN Collateral - share ELSE 0)]
    ]_vars

\* The collateral of a well-formed agreement does not stay locked: it is
\* settled or refunded, whether or not the oracle ever has a price.
CollateralReleased == WellFormed /\ funded ~> settled \/ ~funded

\* The agreement implements the abstract escrow.
Custody ==
  INSTANCE Escrow WITH
    parties <- IF Agreed
               THEN [farmer |-> terms.farmer, buyer |-> terms.buyer]
               ELSE NoTerms,
    phase <- IF settled THEN "settled" ELSE IF funded THEN "funded" ELSE "open",
    Opening <- Opening \union {0}
ImplementsEscrow == Custody!Spec
-----------------------------------------------------------------------------
(***************************************************************************)
(* What the repository's documentation says and the code does not do.      *)
(***************************************************************************)
\* types.rs on DataKey::Cancelled: a read of the flag "can tell 'cancelled'
\* apart from every other state", being funded or settled among them.
CancelledIsFinal == cancelled => ~funded /\ ~settled

\* cancel: "If the oracle has a price, the agreement can be settled normally
\* and cancel is refused."
PricedMeansSettleable ==
  (Agreed /\ funded /\ ~settled /\ now >= terms.maturity /\ market # NoPrice)
    => CanSettle
=============================================================================
