----------------------------- MODULE PriceFeed -----------------------------
(***************************************************************************)
(* What the oracle promises the contracts that read it, with nodes,        *)
(* submissions and administration left out: for each asset a feed of       *)
(* positive prices in time order.  Publishing adds one record at the       *)
(* newest end and may drop records at the oldest end; no record is ever    *)
(* altered, and a feed that has a price never becomes silent again.        *)
(***************************************************************************)
EXTENDS Integers, SequencesExt

CONSTANTS Asset, PriceValue, MaxTime

VARIABLES
  now,      \* the ledger's timestamp
  feed      \* the records of each asset, oldest first

Record == [price : PriceValue, timestamp : 0..MaxTime]

\* The newest kept records of a feed; the newest one is always kept.
Keep(records, kept) == SubSeq(records, Len(records) - kept + 1, Len(records))

Init ==
  /\ now = 0
  /\ feed = [asset \in Asset |-> <<>>]

\* A record is stamped no later than now and no earlier than its predecessor.
Publish(asset, record) ==
  /\ record.timestamp <= now
  /\ feed[asset] # <<>> => Last(feed[asset]).timestamp <= record.timestamp
  /\ \E kept \in 1..(Len(feed[asset]) + 1) :
       feed' = [feed EXCEPT ![asset] = Keep(Append(@, record), kept)]
  /\ UNCHANGED now

Tick ==
  /\ now' \in {t \in 0..MaxTime : t > now}
  /\ UNCHANGED feed

Next ==
  \/ \E asset \in Asset, record \in Record : Publish(asset, record)
  \/ Tick

Spec == Init /\ [][Next]_<<now, feed>>
=============================================================================
