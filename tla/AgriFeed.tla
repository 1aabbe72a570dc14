------------------------------ MODULE AgriFeed ------------------------------
(***************************************************************************)
(* The two contracts together: an agreement that settles at the price the  *)
(* oracle's lastprice returns for its commodity, on the clock of one       *)
(* ledger.  What the agreement takes from an arbitrary market in           *)
(* PriceFloor comes here from the history that the oracle keeps.           *)
(***************************************************************************)
EXTENDS Oracle

CONSTANTS
  Commodity,           \* the commodity every offered agreement names
  Account, Contract, NoTerms, FloorPrices, Notionals, Maturities, Amounts,
  Gifts, NoPrice, Opening, UnfundedCancelGrace, SettleFailureGrace, MaxU64

ASSUME AgriFeedAssumption ==
  /\ Commodity \in Asset
  /\ Contract \notin Account
  /\ MaxU64 \in Nat
  /\ MaxTime <= MaxU64
  /\ FloorPrices \subseteq (-MaxI128 - 1)..MaxI128
  /\ Notionals \subseteq (-MaxI128 - 1)..MaxI128
  /\ Amounts \subseteq (-MaxI128 - 1)..MaxI128
  /\ Gifts \subseteq 1..MaxI128
  /\ Maturities \subseteq 0..MaxU64
  /\ NoPrice \notin 1..MaxI128
  /\ Opening \subseteq Nat
  /\ UnfundedCancelGrace \in Nat
  /\ SettleFailureGrace \in Nat

VARIABLES terms, funded, settled, cancelled, balance

agreementVars == <<terms, funded, settled, cancelled, balance>>
systemVars == <<vars, agreementVars>>

\* Mutant of MarketPrice: what price() returns for the newest window, its first
\* record, where lastprice returns its last.
WindowPrice ==
  IF LastPrice(Commodity) = None
  THEN NoPrice
  ELSE Price(Commodity, LastPrice(Commodity)[1].timestamp)[1].price

\* What the agreement makes of the oracle's answer.
MarketPrice ==
  IF LastPrice(Commodity) = None THEN NoPrice ELSE LastPrice(Commodity)[1].price

Agreement ==
  INSTANCE PriceFloor WITH
    market <- MarketPrice,
    MarketPrices <- 1..MaxI128

ASSUME AgreementNoTermsAssumption ==
  /\ NoTerms \notin Agreement!Terms
  /\ NoTerms \notin [farmer : Account, buyer : Account]
-----------------------------------------------------------------------------
SystemInit ==
  /\ Init
  /\ Agreement!Init

\* One contract is called, and a call of the agreement only reads the oracle.
OracleCalled ==
  /\ \/ \E caller \in Address :
          \/ \E length \in Resolutions : Initialize(caller, length)
          \/ \E node \in Address : AddNode(caller, node)
          \/ \E node \in Address : RemoveNode(caller, node)
          \/ \E new \in Thresholds : SetThreshold(caller, new)
          \/ \E new \in Retentions : SetRetention(caller, new)
          \/ \E asset \in Asset : AddCommodity(caller, asset)
     \/ \E node \in Address, asset \in Asset, price \in Prices :
          SubmitPrice(node, asset, price)
     \/ \E asset \in Asset : FinalizePrice(asset)
  /\ UNCHANGED agreementVars

Settle ==
  /\ UNCHANGED vars
  /\ Agreement!Settle

Cancel ==
  /\ UNCHANGED vars
  /\ Agreement!Cancel

AgreementCalled ==
  /\ UNCHANGED vars
  /\ \/ \E new \in Agreement!Terms : Agreement!Initialize(new)
     \/ \E caller \in Account, amount \in Amounts : Agreement!Fund(caller, amount)
     \/ \E giver \in Account, amount \in Gifts : Agreement!Gift(giver, amount)

LedgerCloses ==
  /\ Tick
  /\ UNCHANGED agreementVars

SystemNext ==
  \/ OracleCalled
  \/ AgreementCalled
  \/ Settle
  \/ Cancel
  \/ LedgerCloses

SystemSpec == SystemInit /\ [][SystemNext]_systemVars

(***************************************************************************)
(* The fairness of PriceFloor without its cancel: ledgers close, and       *)
(* somebody calls settle while it would succeed.  Nothing is assumed of    *)
(* the admin, the nodes, or whoever calls finalize_price.                  *)
(***************************************************************************)
FairSystemSpec ==
  /\ SystemSpec
  /\ WF_systemVars(LedgerCloses)
  /\ WF_systemVars(Settle)
-----------------------------------------------------------------------------
(***************************************************************************)
(* Properties.                                                             *)
(***************************************************************************)
\* The oracle keeps what the agreement expects of it: whatever the admin and
\* the nodes do, the agreement behaves as beside a market that publishes
\* positive prices and, once it has one, never is without.
ImplementsAgreement == Agreement!Spec

\* settle looks at no timestamp, and still it never pays by a superseded
\* record: the farmer is paid by the price that was finalized last, so not by
\* an earlier one of the same window, and no record is stamped later than it,
\* delayed and repeated finalizations included.
PaidBy(record) ==
  LET shortfall == (terms.floor_price - record.price) * terms.notional
      payout == IF shortfall < 0 THEN 0
                ELSE IF shortfall > balance[Contract] THEN balance[Contract]
                ELSE shortfall
  IN  terms.farmer # terms.buyer =>
        balance'[terms.farmer] = balance[terms.farmer] + payout

PaidByNewestRecord ==
  [][Agreement!WellFormed /\ ~settled /\ settled' =>
       LET newest == Last(history[Commodity])
       IN  /\ history[Commodity] # <<>>
           /\ PaidBy(newest)
           /\ \A record \in Range(history[Commodity]) :
                record.timestamp <= newest.timestamp]_systemVars

\* From the first finalized price on, a funded agreement on well-formed terms
\* ends with a settlement and not with a refund, even when no node ever
\* reports again and the admin changes whatever an admin can change.
PricedIsSettled ==
  (Agreement!WellFormed /\ funded /\ history[Commodity] # <<>>) ~> settled
=============================================================================
