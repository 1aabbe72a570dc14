# AgriFeed contracts: TLA+ models, model checking and proofs

This directory is the verification development of the AgriFeed contracts: a
SEP-40 price oracle (`contracts/agrifeed-oracle`) and a cash-settled price-floor
agreement that reads it (`contracts/agripricefloor`), both Soroban contracts in
Rust. It holds TLA+ modules translated from the Rust sources, TLC
configurations that check them on small instances, and TLAPS proofs of the main
results for every value of the constants. `PROJECT.json` is the index: which
definition models which lines, which run checks which property, the hazards of
the code and the properties that cover them, and the theorems.

## 1. Inventory of the system

| Component | Source | State | Operations |
|---|---|---|---|
| Oracle administration | `agrifeed-oracle/src/admin.rs` | admin, node list, threshold, resolution, retention, commodity list (instance storage) | `initialize`, `add_node`, `remove_node`, `set_threshold`, `set_retention`, `add_commodity` |
| Price ingestion | `agrifeed-oracle/src/ingest.rs` | per asset: pending submissions, finalized history (persistent storage) | `submit_price` (nodes), `finalize_price` (anyone) |
| SEP-40 reads | `agrifeed-oracle/src/interface.rs` | none of its own | `price`, `prices`, `lastprice`; `base`, `assets`, `decimals`, `resolution` |
| Storage lifetime | `agrifeed-oracle/src/storage.rs`, `extend_instance` in `agripricefloor/src/lib.rs` | time to live of each entry | extension on writes, `extend_instance_ttl` (anyone) |
| Price-floor agreement | `agripricefloor/src/lib.rs` | terms, `Funded`, `Settled`, `Cancelled` | `initialize` (both parties), `fund` (buyer), `settle` (anyone), `cancel` (a party) |
| Settlement token | external | balances | `transfer`, `balance` |
| Soroban host | external | ledger timestamp, storage | runs one invocation at a time, rolls back the ones that fail, checks signatures |
| TypeScript SDK | `packages/sdk/generated` | the simulated transaction in the application's hand | a method per contract function, `signAndSend`, results with the errors' messages |
| Build, CI, deployment | `.github`, `docs` | none | |

**Interaction.** Nodes submit, anybody finalizes, and the oracle's history is
what other contracts see of it. The agreement calls `lastprice` in `settle` and
in the funded branch of `cancel`, and `balance` and `transfer` of the token in
`fund`, `settle` and `cancel`. Both contracts read the ledger's timestamp.
Within an invocation there is no concurrency; between invocations every order
is possible, because `finalize_price` and `settle` are permissionless, tokens
can be sent to any address, and the parties, the nodes and the clock act on
their own. An application reaches the contracts through the generated clients: a
method simulates the call on the state of the moment, and what it returns is
sent later, on another state, with an answer that may be lost. Relayers call
`extend_instance_ttl` to keep the oracle's entries from being archived.

**What is hard about it.** The order of calls relative to windows, the maturity
and the grace period; state that outlives what it was recorded for (pending
submissions of removed nodes or of earlier windows, a history longer than a
lowered retention, the `Cancelled` flag); two exits from a funded agreement,
chosen by the answer of another contract at that moment; i128 arithmetic on
terms and prices nobody bounds; a saturating deadline; the whole token balance
used as the collateral; results of simulations that are stale when they are used,
and calls repeated because the answer was lost; lifetimes that some calls extend
and others do not. `PROJECT.json` lists each hazard at its line.

**What makes each component correct.**

- *Administration and ingestion*: a node has at most one pending submission per
  window; a finalization consumes exactly the submissions its median was
  computed from; a minority cannot move the median; the history stays ordered,
  aligned to windows and bounded; a price, once there, does not disappear.
- *Reads*: a query finds a record exactly if its window has one; a past window
  that had no price never gets one, and `lastprice` never goes back in time.
- *Storage lifetime*: tended entries and the configuration are never archived.
- *Agreement*: tokens are held exactly while it is funded; they leave at once
  and as a whole, to the two parties and to nobody else; the farmer gets the
  floor value or all there is; there is always one exit past the grace period
  and never two; the collateral does not stay locked.
- *Both together*: the oracle keeps what the agreement assumes of it; a
  settlement pays by the newest record.
- *Clients*: an application can tell from a simulation what sending may meet,
  from an error whether to give up, and a repeated call does nothing twice.

## 2. Modules

| Module | What it is | Checked by | Proofs |
|---|---|---|---|
| `PriceMedian` | `sorted_prices` and `median` as operators on a sequence of prices | through `SortedPrices` and `Oracle` | `PriceMedianProofs` |
| `SortedPrices` | the loops behind them, statement by statement | itself | `SortedPricesProofs` |
| `Oracle` | the oracle: state, one action per operation, the reads, properties | `MCOracle` | `OracleProofs` |
| `PriceFeed` | abstract specification: what the oracle promises its readers | refined by `Oracle` | `OracleProofs` |
| `StorageTTL` | lifetimes of the oracle's storage entries | itself | `StorageTTLProofs` |
| `PriceFloor` | the agreement with token, oracle and clock as environment | `MCPriceFloor` | `PriceFloorProofs` |
| `Escrow` | abstract specification: what the agreement promises about tokens | refined by `PriceFloor` | `PriceFloorProofs` |
| `AgriFeed` | oracle and agreement on one clock | itself; refines `PriceFloor` | `AgriFeedProofs` |
| `OracleClient` | the oracle's TypeScript client and an application | `MCOracleClient` | `OracleClientProofs` |
| `PriceFloorClient` | the agreement's TypeScript client and an application | `MCPriceFloorClient` | `PriceFloorClientProofs` |

### Conventions

- An action is one successful invocation. The host discards every write of an
  invocation that returns an error or traps, so a failing call is a stuttering
  step and needs no action: the early returns of the code appear as negated
  conjuncts of the guard.
- `require_auth` is the identity of the caller: the parameter `caller` or
  `node` of an action is the account that signed. The comparison with the
  stored admin, buyer or party, which is the contract's own code, is in the guard.
- An absent storage entry is its default: `<<>>` for the pending submissions and
  the history of an asset, as `read_pending` and `read_history` return an empty
  vector, and `FALSE` for the flags.
- The node and commodity lists are sets: the code keeps them free of duplicates
  and looks only at membership and length.
- `i128` and `u64` keep their bounds as the constants `MaxI128` and `MaxU64`;
  every place where the code uses a checked or saturating operation on them
  tests the bound.
- Definitions commented as mutants are deliberately wrong variants of the
  definition after them. No specification uses them. They record that the
  property named with them in `PROJECT.json` notices the change.

### Oracle

`now` is the ledger timestamp, advanced by `Tick`; several invocations may share
a timestamp, as the transactions of a ledger do. `FinalizePrice` is the whole of
`finalize_price`: guard (`ThresholdMet`, no overflow), the record stamped with
the current window, pruning (`LastRecords`) and clearing of the submissions.
`SubmitPrice` is the whole of `submit_price`, including the duplicate scan
(`IsDuplicate`). `SetRetention` prunes nothing and `RemoveNode` touches neither
the threshold nor the pending submissions, like the code. `decimals`,
`base_asset` and `source_ts` are stored and influence nothing; they are left out,
and so are the events.

The insertion sort appears by its result: `SortedPrice(prices, k)` is the price
with fewer than `k` prices below it and at least `k` up to it. `SortedPrices`
has the loops themselves, with `TakeKey`, `Shift` and `Place` for the statements
of the outer and the inner loop and two actions for the return of an odd and an
even count; its `ComputesMedian` is what licenses the short form.

`PriceFeed` is what remains when nodes, windows and thresholds are forgotten:
`Publish` appends one record, no older than the last and no later than now, and
may drop records at the old end, never the new one. The refinement maps `feed`
to `history`.

### PriceFloor

The three flags, the terms and the token's balances are the state. `market` is
what `lastprice` of the oracle would return, `NoPrice` at first; `Publish` is the
oracle finalizing a price. That a price never turns into `NoPrice` again is the
promise `PriceFeed` makes and `Oracle` is shown to keep.

`Settle` performs both transfers and sets the flag in one step, since the host
rolls them back together. `CanSettle` includes the conditions under which the
checked arithmetic and the token accept: with a negative notional the payout is
negative, the refund exceeds the balance, the token traps, and the call fails.
`CancelFunded` and `CancelUnfunded` are the two branches of `cancel`. `Gift` is
a direct transfer to the contract's address. The guards of `Fund` and `Gift`
contain the token's own conditions (the sender is covered, the receiver's
balance stays an i128). `Settle` and `CancelFunded` have no such guard for the
accounts they pay: the token's total supply is taken to be an i128, so that no
account's balance can exceed it; the configurations open with no more than that. Nothing relates the terms, because `initialize` checks
nothing: floor price, notional and maturity range over all of their types, and
farmer and buyer may be one account.

`Escrow` forgets the clock, the oracle and the payout: a deposit opens, and a
division between farmer and buyer or a refund to the buyer closes. The
refinement maps `phase` to the flags and `parties` to the terms.

### AgriFeed

`Oracle` extended with the variables of the agreement. `Agreement` is `PriceFloor`
with `market` replaced by `MarketPrice`, the price in the oracle's `lastprice`:
what `PriceFloor` takes from any market comes from the history here, and
`Publish` is no action of its own any more. A step calls one of the two
contracts or closes the ledger. That the composition implements `PriceFloor`
(`ImplementsAgreement`) carries the safety properties of `PriceFloor` over to it.

### StorageTTL

Each entry is the ledger up to which it lives. `Extended` is `extend_ttl` with the
thresholds of `storage.rs`: an entry with half of the maximum left, or more, is
left alone. `Configure` stands for the admin calls that write; `SubmitPrice` and
`FinalizePrice` extend the asset's entries and not the instance;
`ExtendInstanceTTL` extends everything of its asset. Any call on an archived
entry fails and anybody may restore one. `tended` are the assets whose relayers
call `extend_instance_ttl` at least every `Cadence` ledgers, at most half of the
maximal lifetime, which is the rhythm the threshold in `storage.rs` is made for;
`initialize` counts as the first call. Assets that nobody tends are in the model
too: they are archived and restored.

### OracleClient and PriceFloorClient

The record sets `submit_price`, `settle` and so on are the calls that the
client's methods build. `Answer` is what the contract returns for a call in the
present state, in the order of the code's checks, and `Execute` the action of a
call that succeeds; `Answer` is `Ok` exactly where `Execute` is enabled. `Result`
passes an error through the two tables of numbers, the contract's (`Error`) and
the client's (`Errors`). `Assemble` simulates; `SignAndSend` and `SendRefused`
execute on the state of that moment, and the answer arrives or is lost; `Retry`
repeats the call; `Others` is everybody else. `AssembledTransaction` itself is a
library; it is modelled from how the generated client and its comments use it.

## 3. Runs

| Run | Module, configuration | Result | Distinct states |
|---|---|---|---|
| `oracle_admin` | `MCOracle_admin.cfg` | passes | 291,936 |
| `oracle_client` | `MCOracleClient.cfg` | passes | 1.8 million |
| `sort` | `SortedPrices.cfg` | passes | 17,238 |
| `storage` | `StorageTTL.cfg` | passes | 2.6 million |
| `floor_client` | `MCPriceFloorClient.cfg` | passes | 734,000 |
| `floor_liveness` | `MCPriceFloor_liveness.cfg` | passes | 162,624 |
| `agrifeed` | `AgriFeed.cfg` | passes | 369,421 |
| `oracle_solo` | `MCOracle_solo.cfg` | `NoSoloFinalization` violated | |
| `oracle_window` | `MCOracle_window.cfg` | `OnePricePerWindow` violated | |
| `oracle_overflow` | `MCOracle_overflow.cfg` | `MedianNeverOverflows` violated | |
| `floor_cancelled` | `MCPriceFloor_cancelled.cfg` | `CancelledIsFinal` violated | |
| `floor_priced` | `MCPriceFloor_priced.cfg` | `PricedMeansSettleable` violated | |

Deadlock is not checked: an oracle without an admin or nodes may stop, a sort
ends, and the clock of every run ends at `MaxTime` or `MaxLedger`.

**`oracle_admin`.** Three interchangeable accounts (admin, node and stranger in
every combination), one asset, times 0 to 3 with windows of length 2 or 3: two
windows, each with a first instant and, but for the last window of length 3, a
last one. With two lengths a second `initialize`, were there one, could misalign
the records. Thresholds 0, 1 and 2 include the
rejected zero and one above the node count. The default retention of 2 and the
offered 0 and 1 allow a history of two to be cut by two records in one
finalization (one is appended first). Prices 0 and 1: an invalid and a valid one.
Several finalizations per window, leftovers from an earlier window, and a node
removed and added again all occur. One asset is enough because no operation on
an asset reads another asset's entries; the proofs cover any number. It checks

- `OneSubmissionPerWindow`: no two pending submissions of a node in one window,
- `HistoryOrdered`: ordered, aligned, never in the future,
- `WindowLookup`: `price()` answers for exactly the timestamps of windows with a
  kept record,
- `ClosedWindowsStayClosed`: a past window without a price never gets one. (The
  answer for a window that has one may still change: when two records share a
  window and the first is pruned, `price()` returns the second.)
- `RetentionEnforced`: at most `retention` records after any finalization,
- `QuorumPerWindow`: the threshold is at most the number of reporters times the
  number of windows the submissions span. This is what the threshold really
  buys: with submissions of one window it is the number of distinct nodes. (A
  node that was removed after it reported still counts, in the code as here.) And
  a finalization leaves no submission that could count towards another price,
- `ImplementsPriceFeed`.

**`oracle_client`.** Two interchangeable accounts, times 0 to 2 (a whole window
and the start of the next), prices 0, 1 and 3 with an i128 bound of 5, at which
3 + 3 overflows, and a threshold of 2, so that leftovers of two windows make up
to four submissions and odd and even counts occur. Any call of the client may be
in hand while anybody calls anything.

- `ForecastHolds`: which errors may still meet a call whose simulation
  succeeded, for each method; for most admin calls none,
- `FinalErrors`: the error that the application reads is the contract's, so a
  wrong number in either table, of whichever error, shows; and after which
  errors the same call always fails with the same one,
- `RetriesRefused`: a repeated `initialize` and `add_commodity` are refused, and
  so is a `submit_price` in the window of the first copy, unless a finalization
  consumed that copy,
- `ReadsNeverGoBack`: two reads of `lastprice` are in time order,
- `MajorityBoundsPrice`: a finalized median lies between the prices of every
  majority of its submissions.

**`sort`.** All sequences of one to five prices out of four values, with a bound
at which some sums overflow. `IndicesInBounds` (the reads are `get_unchecked`),
`ComputesMedian`, and `Returns`, that the loops end.

**`storage`.** Two assets, either, both or none tended; maximal lifetime 5 with
an extension threshold of 2, minimal lifetime 1, eight ledgers: time for an
entry to be extended, to reach the threshold, to be archived and restored.
`NothingArchived` for tended assets.

**`floor_client`.** Farmer, buyer and a third account in any roles, no direct
transfers. Negative and positive notionals, maturities soon and at the end of
time (where the deadline saturates), prices below, at and above the floor;
payouts below, at and above the collateral. `NoStrandedFunds`,
`ImplementsEscrow` (the third account is never paid), and for the client
`ForecastHolds` (a prepared settle on well-formed terms meets nothing but another
settle, whatever prices arrive), `FinalErrors` and `RetriesRefused` (a repeated
settle or initialize is refused for good, a repeated fund until a cancel has
paid the first one back).

**`floor_liveness`.** Two accounts and direct transfers, under fairness. The
largest timestamp is also `MaxU64`, so that a maturity of 5 saturates the
deadline. `FundedIsBacked`, `ExactlyOneExit`, `FarmerTopUp`, `ImplementsEscrow`
with transfers to the contract at any time, and `CollateralReleased`.

**`agrifeed`.** One oracle account, prices 1 and 3 around a floor of 3, two
windows and a retention of 1 or 2: the first finalization before and after the
maturity, a second record that supersedes the first in the same window or a
later one, and the pruning of the first, all while an agreement is being made,
funded, settled and cancelled. `ImplementsAgreement`; `PaidByNewestRecord`, that a
settlement is by the record finalized last, with none stamped later;
`PricedIsSettled`, that once there is a price a funded agreement is settled. With
the earlier of the maturities, 1, the grace period ends before the clock does.

**Fairness.** In `floor_liveness`: `WF(Tick)`: ledgers close and timestamps grow.
`WF(Settle)`: `settle` is permissionless and pays the parties, who can both call
it. `WF(Cancel)`: a party to a stalled agreement calls `cancel`, which is how it
gets the collateral back. Nothing is assumed of the oracle: it may publish
never, or change its price between any two steps, so weak fairness is enough
only because on well-formed terms any price settles. There is none for `fund` or
`initialize`. In `agrifeed` only `WF(LedgerCloses)` and `WF(Settle)`: nothing is
assumed of the admin, the nodes or who calls `finalize_price`, and cancel
is not needed once there is a price. In `sort`, `WF(Next)`: the host runs an
invocation to its end. The other runs check safety and assume none.

### Where the documentation and the code differ

Each is a run that finds the documented statement violated.

- `oracle_solo`: `SECURITY.md` says a single node cannot move a price alone. The
  threshold counts pending submissions of all windows, so with a threshold of
  two one node finalizes a price with one submission in each of two windows.
- `oracle_window`: `lib.rs` promises a single median per window. A second round
  of submissions in a window appends a second record; `price()` returns the
  older of the two, `lastprice()` the newer.
- `oracle_overflow`: the overflow of the median "cannot occur for well-formed
  positive prices", but every positive i128 is accepted and two large ones
  overflow the sum; the asset's finalization fails until another submission
  changes the middle prices.
- `floor_cancelled`: the `Cancelled` flag is meant to tell a cancelled agreement
  from every other state. The agreement can be funded and settled afterwards
  and the flag stays. (The same comment also calls the flag one of "at least
  once", which it is; what is refuted is that a read of it tells the states apart.
  `cancel` is also documented to change no state when
  unfunded; it sets the flag.)
- `floor_priced`: "if the oracle has a price, the agreement can be settled
  normally". On terms whose payout overflows an i128 `settle` fails and `cancel`
  is refused. A negative notional has the same effect through a trap of the
  token, where `errors.rs` promises a typed error.

Other differences met on the way, which no run is about:

- `settle` is documented to return `NotFunded` when there is no agreement; the
  maturity is looked up first and `NotYetMature` is returned.
- `fund` documents `AlreadySettled`, which cannot be returned: a settled
  agreement is still marked as funded, and `AlreadyFunded` comes first.
- `errors.rs` promises a typed error and "never a raw panic" for a malformed
  request; a fund beyond the buyer's balance and a settlement with a negative
  notional trap in the token (`Trap` in `PriceFloorClient`).
- The generated agreement client's `DataKey` lacks the contract's `Cancelled` key:
  the bindings were generated before it was added.

## 4. Proofs

The proof modules are checked by TLAPS with nothing assumed but the `ASSUME`s of
the modules they are about, which TLC evaluates in the runs: the sets offered as
inputs are of their types, bounds are natural numbers, the default retention is
positive, the relayers' cadence is at most half of the maximal lifetime, and the
model values differ from addresses. `AgriFeed` assumes of its constants what
`PriceFloor` does of its own, with `1..MaxI128` for the market's prices, so that
the theorems about `PriceFloor` can be instantiated for the composition.

**`PriceMedianProofs`.** Every rank has a price (`RankHolds`, by the least value
with enough prices up to it), so `SortedPrice` is defined and the middle
prices are ordered. `MedianIsPrice`: the median of positive i128 prices is one,
if it does not overflow. `MajorityBoundsMedian`: a majority cannot lie
strictly above or strictly below the median, by counting positions.

**`OracleProofs`.** The inductive invariant `IInv` has four parts: `TypeOK`;
`Configured` (an initialized oracle has a positive resolution, and before
initialization there are no submissions and no history); `SubmittedByNow` (no
submission is from the future); and the two properties
`OneSubmissionPerWindow` and `HistoryOrdered`. `Configured` is needed because
`Initialize` changes the resolution, which would misalign records if there were
any; `SubmittedByNow` because the duplicate check compares only with the start
of the window and would let a later-dated submission through the argument.
The arithmetic of rounding (`Quotient`, `FactorOrder`, `Rounding`) shows that two
timestamps, the earlier before the window start and the later from it on, fall in
different windows. From the invariant follow `RetentionEnforced`,
`MajorityBoundsPrice` and, step by step, `ImplementsPriceFeed`, whose witness for
the number of kept records is the smaller of the retention and the new length.
`WindowLookup` follows state by state: the search finds a record exactly if one
is stamped with the rounded timestamp (`PriceFound`), and for an aligned stamp
that means to lie less than a resolution below (`InWindow`).
`ClosedWindowsStayClosed` adds that a step brings no record but one of the
current window (`RecordsOfStep`). For `QuorumPerWindow` the pairs of node and
window of the pending submissions are all different, by `OneSubmissionPerWindow`,
so that there are at most as many submissions as pairs (`PendingBound`). That is
also the one bound on what a never finalized asset accumulates
(`OraclePendingBounded`).

Two statements of the documentation that runs find violated hold under a
condition, and the condition is proved to be enough. A threshold above one needs
two reporters when all submissions are of one window
(`OracleNoSoloInOneWindow`): it is the leftovers of earlier windows that break
the claim. And the median never overflows when no submitted price is above half
of `i128::MAX` (`OracleMedianNeverOverflows`). For the latter `TypeOK` is too
weak, as it allows any i128 price to be pending; `PricesOffered` says that what is
pending was submitted.

**`SortedPricesProofs`.** The invariant says that the vector, with the key put
back where the gap is, is a rearrangement of the submissions (`Rearranged`, by a
bijection of positions) whose first part is sorted but for the gap
(`PrefixSorted`). At the end it is sorted as a whole, so its positions hold the
ranks of the submissions (`SortedHoldsRanks`), of which `PriceMedian` takes the
middle ones: `SortComputesMedian`, for any number of submissions.
`SortCountsDown` gives the number of steps: `Remaining`, with a round of the outer
loop worth `N + 2`, falls with every statement, so the sort takes at most
`(N - 1)(N + 2) + 1` of them.

**`StorageTTLProofs`.** The invariant says that the instance and every entry of a
tended asset live until the next call for that asset is due (`Tended`). Calls
only lengthen lifetimes, an extension leaves at least half of the maximum, and no
ledger closes before a call that is due.

**`AgriFeedProofs`.** The oracle's `IInv` is an invariant of the composition, whose
every step is a step of the oracle or leaves it alone. A finalization of the
commodity then is a `Publish` of a positive price, every other step of the oracle
leaves `lastprice` as it is, and the agreement's own steps are `PriceFloor`'s:
`AgriFeedImplementsAgreement`. With it the theorems of `PriceFloorProofs`, taken
with `MarketPrice` for the market, apply to the composition
(`AgriFeedAgreementInvariants`, `AgriFeedFarmerTopUp`, `AgriFeedImplementsEscrow`):
nothing about the agreement is proved twice.
`AgriFeedPaidByNewestRecord` combines `HistoryOrdered`, by which the last record is
the newest, with the payout that `settle` computes from it. `PricedIsSettled` is
liveness and stays with TLC; what is proved of it is that nothing goes wrong on
the way: once the commodity has a price, it keeps one and the agreement is not
refunded any more (`AgriFeedNoRefundOncePriced`, since retention is never zero and
`cancel` needs an empty history), and from the maturity on `settle` succeeds until
it has (`AgriFeedSettleableOncePriced`).

**`PriceFloorProofs`.** `IInv` is `TypeOK`, `FlagOrder` (funded only once agreed,
settled only if funded), `NoStrandedFunds` and `FundedIsBacked`. `FlagOrder` is
what makes the stored terms available to `settle` and a settled agreement
impossible to fund. The lemmas on the payout show that a settlement divides the
collateral exactly, for all signed terms for which it succeeds, and
that on well-formed terms it always does; from these come `ExactlyOneExit`,
`FarmerTopUp` and `ImplementsEscrow`. The documented "if the oracle has a price, the
agreement can be settled normally", which `floor_priced` finds violated, is proved
for well-formed terms (`PriceFloorPricedMeansSettleable`). `SettleStaysPossible`
says that a settle that can succeed can until it has: this is the reason why
`floor_liveness` gets by with weak fairness of `Settle`.

**`PriceFloorClientProofs` and `OracleClientProofs`.** A client adds the variable
`assembled`, and each of its steps is a step of the contract or leaves the contract
alone (`ClientSteps`): the client modules are built so, and the lemma
`ClientFollowsContract` only records it, for the contract's theorems to be used
beside a client. The properties are about the call in hand while everybody
acts, and none is inductive as it stands. Their invariant, `ClientIInv`, consists
of

- the contract's `IInv` and the type of `assembled`;
- `SimulatedIsPrepared`: what a successful simulation saw and nobody can undo
  (`Prepared`) still holds. `ForecastHolds` compares with the answer of the present
  state, which others change; `Prepared` is the part that they do not change
  (`PreparedStays`), and it leaves only the errors in `Overtaken`
  (`PreparedOvertaken`);
- `FinalStillAnswered`, the inductive half of `FinalErrors`: each final error comes
  from a state that no step leaves, an initialized contract, a settled agreement,
  a registered commodity, or from the arguments of the call (`FinalStays`). The
  other half holds of every state: the numbers of the two tables lead to the
  name of the error that the contract returned (`ResultIsAnswer`);
- `ExecutedIsDone`: what an executed call leaves behind (`Done`). For
  `submit_price` that is, in the window of the execution, a pending submission of
  the node, or from then on a record of that window or a later one; for `fund` an
  agreement that is funded or was cancelled;
- for the oracle `ReadsStamped` and `ReadsNeverGoBack`: the record that was read
  has a time stamp, and the newest record is stamped no earlier, since every
  finalization appends one of the current window (`LatestAdvances`) and
  `HistoryOrdered` has none from the future.

**Only model-checked.** `CollateralReleased`, `PricedIsSettled` and `Returns`:
liveness under fairness, and the `ENABLED` in it, are outside of what TLAPS proves
here. Their safety halves are proved: `SettleStaysPossible`, `ExactlyOneExit`,
`AgriFeedNoRefundOncePriced`, `AgriFeedSettleableOncePriced` and `SortCountsDown`.
Every other property of a passing run is a theorem, or, where a client run checks
a property of the contract (`MajorityBoundsPrice`, `NoStrandedFunds`,
`ImplementsEscrow`), follows from one by `ClientFollowsContract`.

## 5. Not modelled

- `base` and `decimals`, which return what `initialize` stored, the `source_ts` of
  a submission, which is stored and never read, and the events.
- Of the generated clients: `deploy`, `fromJSON`, `networks` and the options of a
  method (timeouts, simulation switched off); of the `AssembledTransaction`
  library: resource fees and footprints, by which the host may refuse a
  transaction whose simulation is stale.
- Storage lifetime in the modules other than `StorageTTL`: they take entries as
  durable. An archived entry is restored before it can be accessed, so archival
  blocks calls and does not change the values that are read. The agreement has
  one entry, extended by its own state changes; there is no public function that
  extends it in between, and no rhythm to state a property about.
- Settlement tokens that do not follow the token interface (fees on transfer,
  callbacks) and the internals of authorization.
- Several agreements: each is a contract instance of its own, sharing nothing but
  the oracle and the token.
- The build, the continuous integration and the deployment, which have no state
  at run time.

## 6. Plan

Done, in this order: `PriceMedian`, `Oracle`, `PriceFeed` with its refinement,
`PriceFloor`, `Escrow` with its refinement and their proofs; then `SortedPrices`,
`StorageTTL`, the two client modules, the composition `AgriFeed`; then the proofs
about the clients, the instantiation of the agreement's theorems for the
composition, and the conditions under which the violated claims hold.

Next:

1. The theorems about one client, `ForecastHolds` above all, for an application
   that uses both contracts: `AgriFeed` with a client's transaction in hand.
2. `AgriFeed` with two agreements on one oracle, if they are ever made to share
   more than reads.
3. A lifetime model of the agreement's instance, once the contract has a public
   extension to state a rhythm for.
