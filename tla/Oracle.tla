------------------------------- MODULE Oracle -------------------------------
(***************************************************************************)
(* The agrifeed-oracle contract: administration (admin.rs), submission and *)
(* finalization of prices (ingest.rs) and the SEP-40 reads (interface.rs). *)
(*                                                                         *)
(* An action is one successful invocation.  The host rolls back every      *)
(* write of an invocation that returns an error, so a call that fails is a *)
(* stuttering step and the conditions under which a call returns an error  *)
(* are the negated conjuncts of its action's guard.                        *)
(***************************************************************************)
EXTENDS PriceMedian

CONSTANTS
  Address,            \* accounts that may call the contract
  Asset,              \* assets a caller may name
  Prices,             \* prices a caller may submit, malformed ones included
  Resolutions,        \* window lengths offered to initialize, 0 included
  Thresholds,         \* thresholds offered to set_threshold, 0 included
  Retentions,         \* limits offered to set_retention, 0 included
  DefaultRetention,   \* DEFAULT_RETENTION
  MaxTime,            \* bound on the ledger timestamps explored
  NoAddress           \* the admin slot before initialize

ASSUME OracleAssumption ==
  /\ NoAddress \notin Address
  /\ Prices \subseteq {p \in Int : p <= MaxI128}
  /\ Resolutions \subseteq Nat
  /\ Thresholds \subseteq Nat
  /\ Retentions \subseteq Nat
  /\ DefaultRetention \in Nat \ {0}
  /\ MaxTime \in Nat

VARIABLES
  now,            \* env.ledger().timestamp()
  admin,          \* DataKey::Admin
  nodes,          \* DataKey::Nodes, a list without duplicates
  threshold,      \* DataKey::Threshold
  resolution,     \* DataKey::Resolution
  retention,      \* DataKey::Retention
  commodities,    \* DataKey::Commodities, a list without duplicates
  pending,        \* DataKey::Pending(asset), <<>> when the entry is absent
  history         \* DataKey::History(asset), <<>> when the entry is absent

config == <<admin, nodes, threshold, resolution, retention, commodities>>
vars == <<now, config, pending, history>>

Timestamp == 0..MaxTime

Submission == [node : Address, price : 1..MaxI128, submitted_at : Timestamp]
PriceData  == [price : 1..MaxI128, timestamp : Timestamp]

TypeOK ==
  /\ now \in Timestamp
  /\ admin \in Address \union {NoAddress}
  /\ nodes \subseteq Address
  /\ threshold \in {0} \union Thresholds
  /\ resolution \in {0} \union Resolutions
  /\ retention \in ({DefaultRetention} \union Retentions) \ {0}
  /\ commodities \subseteq Asset
  /\ pending \in [Asset -> Seq(Submission)]
  /\ history \in [Asset -> Seq(PriceData)]
-----------------------------------------------------------------------------
\* require_initialized, and require_admin after it.
Initialized == admin # NoAddress

IsAdmin(caller) == Initialized /\ caller = admin

\* floor(ts / resolution) * resolution; unchanged while not configured.
RoundToWindow(ts) ==
  IF resolution = 0 THEN ts ELSE (ts \div resolution) * resolution

\* Mutants of LastRecords: at most one record dropped, and the newest ones.
OneRecordDropped(records, n) ==
  IF Len(records) <= n THEN records ELSE Tail(records)
OldestRecords(records, n) ==
  IF Len(records) <= n THEN records ELSE SubSeq(records, 1, n)

\* The last n records: what pruning keeps and what prices() returns.
LastRecords(records, n) ==
  IF Len(records) <= n
  THEN records
  ELSE SubSeq(records, Len(records) - n + 1, Len(records))

SubmittedPrices(asset) ==
  [i \in 1..Len(pending[asset]) |-> pending[asset][i].price]
-----------------------------------------------------------------------------
Init ==
  /\ now = 0
  /\ admin = NoAddress
  /\ nodes = {}
  /\ threshold = 0
  /\ resolution = 0
  /\ retention = DefaultRetention
  /\ commodities = {}
  /\ pending = [asset \in Asset |-> <<>>]
  /\ history = [asset \in Asset |-> <<>>]

\* Mutant of Initialize: it can be called again.
InitializeAgain(caller, length) ==
  /\ length # 0
  /\ admin' = caller
  /\ nodes' = {}
  /\ threshold' = 0
  /\ resolution' = length
  /\ commodities' = {}
  /\ retention' = DefaultRetention
  /\ UNCHANGED <<now, pending, history>>

Initialize(caller, length) ==
  /\ ~Initialized
  /\ length # 0
  /\ admin' = caller
  /\ nodes' = {}
  /\ threshold' = 0
  /\ resolution' = length
  /\ commodities' = {}
  /\ retention' = DefaultRetention
  /\ UNCHANGED <<now, pending, history>>

AddNode(caller, node) ==
  /\ IsAdmin(caller)
  /\ nodes' = nodes \union {node}
  /\ UNCHANGED <<now, admin, threshold, resolution, retention, commodities,
                 pending, history>>

\* The threshold and the node's pending submissions stay as they are.
RemoveNode(caller, node) ==
  /\ IsAdmin(caller)
  /\ nodes' = nodes \ {node}
  /\ UNCHANGED <<now, admin, threshold, resolution, retention, commodities,
                 pending, history>>

SetThreshold(caller, new) ==
  /\ IsAdmin(caller)
  /\ new # 0
  /\ new <= Cardinality(nodes)
  /\ threshold' = new
  /\ UNCHANGED <<now, admin, nodes, resolution, retention, commodities,
                 pending, history>>

\* Mutant of SetRetention: a limit of zero is accepted.
SetAnyRetention(caller, new) ==
  /\ IsAdmin(caller)
  /\ retention' = new
  /\ UNCHANGED <<now, admin, nodes, threshold, resolution, commodities,
                 pending, history>>

\* Nothing is pruned here: the next finalize does it.
SetRetention(caller, new) ==
  /\ IsAdmin(caller)
  /\ new # 0
  /\ retention' = new
  /\ UNCHANGED <<now, admin, nodes, threshold, resolution, commodities,
                 pending, history>>

AddCommodity(caller, asset) ==
  /\ IsAdmin(caller)
  /\ asset \notin commodities
  /\ commodities' = commodities \union {asset}
  /\ UNCHANGED <<now, admin, nodes, threshold, resolution, retention,
                 pending, history>>
-----------------------------------------------------------------------------
\* Mutants of IsDuplicate: only the latest submission is looked at, and a
\* submission made in the first instant of the window is overlooked.
IsLatestDuplicate(node, asset) ==
  /\ pending[asset] # <<>>
  /\ Last(pending[asset]).node = node
  /\ Last(pending[asset]).submitted_at >= RoundToWindow(now)
IsLaterDuplicate(node, asset) ==
  \E i \in DOMAIN pending[asset] :
    /\ pending[asset][i].node = node
    /\ pending[asset][i].submitted_at > RoundToWindow(now)

\* node has a pending submission recorded since the current window began.
IsDuplicate(node, asset) ==
  \E i \in DOMAIN pending[asset] :
    /\ pending[asset][i].node = node
    /\ pending[asset][i].submitted_at >= RoundToWindow(now)

SubmitPrice(node, asset, price) ==
  /\ Initialized
  /\ node \in nodes
  /\ asset \in commodities
  /\ price > 0
  /\ ~IsDuplicate(node, asset)
  /\ pending' = [pending EXCEPT ![asset] =
       Append(@, [node |-> node, price |-> price, submitted_at |-> now])]
  /\ UNCHANGED <<now, config, history>>

\* Everything finalize_price requires before it computes the median.
ThresholdMet(asset) ==
  /\ Initialized
  /\ pending[asset] # <<>>
  /\ threshold # 0
  /\ Len(pending[asset]) >= threshold

\* Mutant of FinalRecord: stamped with the window of the oldest submission.
OldestWindowRecord(asset) ==
  [price |-> Median(SubmittedPrices(asset)),
   timestamp |-> RoundToWindow(Head(pending[asset]).submitted_at)]

\* The record a finalization now would write.
FinalRecord(asset) ==
  [price |-> Median(SubmittedPrices(asset)), timestamp |-> RoundToWindow(now)]

\* Mutant of FinalizePrice: only `threshold` of the submissions are consumed.
FinalizePart(asset) ==
  /\ ThresholdMet(asset)
  /\ ~MedianOverflows(SubmittedPrices(asset))
  /\ history' = [history EXCEPT ![asset] =
       LastRecords(Append(@, FinalRecord(asset)), retention)]
  /\ pending' = [pending EXCEPT ![asset] = SubSeq(@, threshold + 1, Len(@))]
  /\ UNCHANGED <<now, config>>

FinalizePrice(asset) ==
  /\ ThresholdMet(asset)
  /\ ~MedianOverflows(SubmittedPrices(asset))
  /\ history' = [history EXCEPT ![asset] =
       LastRecords(Append(@, FinalRecord(asset)), retention)]
  /\ pending' = [pending EXCEPT ![asset] = <<>>]
  /\ UNCHANGED <<now, config>>

\* The ledger closes with a later timestamp.
Tick ==
  /\ now' \in {t \in Timestamp : t > now}
  /\ UNCHANGED <<config, pending, history>>

Next ==
  \/ \E caller \in Address :
       \/ \E length \in Resolutions : Initialize(caller, length)
       \/ \E node \in Address : AddNode(caller, node)
       \/ \E node \in Address : RemoveNode(caller, node)
       \/ \E new \in Thresholds : SetThreshold(caller, new)
       \/ \E new \in Retentions : SetRetention(caller, new)
       \/ \E asset \in Asset : AddCommodity(caller, asset)
  \/ \E node \in Address, asset \in Asset, price \in Prices :
       SubmitPrice(node, asset, price)
  \/ \E asset \in Asset : FinalizePrice(asset)
  \/ Tick

Spec == Init /\ [][Next]_vars
-----------------------------------------------------------------------------
\* The SEP-40 reads.  An Option is a sequence of at most one element.
None == <<>>
Some(value) == <<value>>

\* Mutant of Price: the queried timestamp is not rounded to its window.
PriceStampedAt(asset, timestamp) ==
  LET found == SelectInSeq(history[asset],
                 LAMBDA record : record.timestamp = timestamp)
  IN  IF found = 0 THEN None ELSE Some(history[asset][found])

\* The first record of the queried window.
Price(asset, timestamp) ==
  LET found == SelectInSeq(history[asset],
                 LAMBDA record : record.timestamp = RoundToWindow(timestamp))
  IN  IF found = 0 THEN None ELSE Some(history[asset][found])

PricesRead(asset, records) ==
  IF records = 0 \/ history[asset] = <<>>
  THEN None
  ELSE Some(LastRecords(history[asset], records))

LastPrice(asset) ==
  IF history[asset] = <<>> THEN None ELSE Some(Last(history[asset]))
-----------------------------------------------------------------------------
(***************************************************************************)
(* Properties.                                                             *)
(***************************************************************************)
\* submit_price refuses a node's second submission in a window, so no two
\* pending submissions of one node were recorded in the same window: not
\* across a removal and re-addition of the node, nor across changes of the
\* threshold, nor after older windows' submissions were left pending.
OneSubmissionPerWindow ==
  \A asset \in Asset : \A i, j \in DOMAIN pending[asset] :
    LET first == pending[asset][i]
        second == pending[asset][j]
    IN  (i < j /\ first.node = second.node) =>
          RoundToWindow(first.submitted_at) # RoundToWindow(second.submitted_at)

\* The history of an asset, which price, prices and lastprice read, is in time
\* order, stamped with starts of windows and never with a future one.
HistoryOrdered ==
  \A asset \in Asset : \A i \in DOMAIN history[asset] :
    LET record == history[asset][i]
    IN  /\ record.timestamp <= now
        /\ RoundToWindow(record.timestamp) = record.timestamp
        /\ \A j \in 1..i : history[asset][j].timestamp <= record.timestamp

\* price() finds a record for exactly the timestamps that lie in a window some
\* kept record was finalized in.
WindowLookup ==
  \A asset \in Asset, t \in Timestamp :
    Price(asset, t) # None <=>
      \E record \in Range(history[asset]) :
        record.timestamp <= t /\ t < record.timestamp + resolution

\* A window the clock has left is closed to readers: a timestamp for which
\* price() found nothing never gets a price later, however late the pending
\* submissions of that window are finalized, nor does a pruned one come back.
ClosedWindowsStayClosed ==
  [][Initialized =>
       \A asset \in Asset, t \in Timestamp :
         (/\ RoundToWindow(t) < RoundToWindow(now)
          /\ Price(asset, t) = None) => Price(asset, t)' = None]_vars

\* A step that publishes a record of an asset or takes any of its pending
\* submissions away.
Finalizes(asset) ==
  \/ history'[asset] # history[asset]
  \/ Len(pending'[asset]) < Len(pending[asset])

\* A finalization leaves at most `retention` records, however far set_retention
\* lowered the limit since the last one.
RetentionEnforced ==
  [][\A asset \in Asset :
       Finalizes(asset) => Len(history'[asset]) <= retention]_vars

\* The finalized median lies between the prices of any majority of the
\* submissions it is computed from: the others cannot move it out of there.
MajorityBoundsPrice ==
  [][\A asset \in Asset : Finalizes(asset) =>
       LET prices == SubmittedPrices(asset)
           median == Last(history'[asset]).price
       IN  \A majority \in SUBSET DOMAIN prices :
             2 * Cardinality(majority) > Len(prices) =>
               /\ \E i \in majority : prices[i] <= median
               /\ \E i \in majority : prices[i] >= median]_vars

\* The nodes and the windows of an asset's pending submissions.
Reporters(asset) ==
  {pending[asset][i].node : i \in DOMAIN pending[asset]}
Windows(asset) ==
  {RoundToWindow(pending[asset][i].submitted_at) : i \in DOMAIN pending[asset]}

\* How much agreement the threshold buys: a node counts once for each window
\* the pending submissions span, so a price finalized from one window has at
\* least `threshold` distinct reporters; and it counts towards one price only,
\* none of the submissions being left for another.
QuorumPerWindow ==
  [][\A asset \in Asset : Finalizes(asset) =>
       /\ threshold <= Cardinality(Reporters(asset))
                         * Cardinality(Windows(asset))
       /\ pending'[asset] = <<>>]_vars

\* The oracle implements the abstract price feed.
Feed == INSTANCE PriceFeed WITH feed <- history, PriceValue <- 1..MaxI128
ImplementsPriceFeed == Feed!Spec
-----------------------------------------------------------------------------
(***************************************************************************)
(* What the repository's documentation says and the code does not do.      *)
(***************************************************************************)
\* ingest.rs, above the threshold guard: "a single node can never move a price
\* alone".  With a threshold of two or more, two nodes reported.
NoSoloFinalization ==
  [][\A asset \in Asset : Finalizes(asset) /\ threshold > 1 =>
       Cardinality(Reporters(asset)) > 1]_vars

\* lib.rs: a "single median price per resolution window".
OnePricePerWindow ==
  \A asset \in Asset : \A i, j \in DOMAIN history[asset] :
    i # j => history[asset][i].timestamp # history[asset][j].timestamp

\* finalize_price: overflow of the median arithmetic "cannot occur for
\* well-formed positive prices", the only prices submit_price stores.
MedianNeverOverflows ==
  \A asset \in Asset :
    ThresholdMet(asset) => ~MedianOverflows(SubmittedPrices(asset))
=============================================================================
