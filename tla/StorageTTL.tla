----------------------------- MODULE StorageTTL -----------------------------
(***************************************************************************)
(* The lifetime of the oracle's storage entries (storage.rs): every entry  *)
(* has a ledger it lives until and is archived after, and a call that      *)
(* touches an archived entry fails until somebody restores it.             *)
(*                                                                         *)
(* Ledgers are counted by sequence number.  The relayers call              *)
(* extend_instance_ttl for the assets they tend, for each at least once    *)
(* every Cadence ledgers; the other assets have only their own traffic.    *)
(***************************************************************************)
EXTENDS Integers

CONSTANTS
  Asset,      \* commodities with entries of their own
  Cadence,    \* ledgers between two calls for a tended asset, at the most
  MaxTTL,     \* env.storage().max_ttl()
  MinTTL,     \* the lifetime of a new or restored entry
  MaxLedger   \* bound on the ledgers explored

ASSUME StorageTTLAssumption ==
  /\ MaxTTL \in Nat
  /\ MinTTL \in 0..MaxTTL
  /\ Cadence \in 1..(MaxTTL \div 2)
  /\ MaxLedger \in Nat

Absent == -1

VARIABLES
  tended,     \* the assets the relayers call extend_instance_ttl for
  ledger,     \* the current ledger's sequence number
  instance,   \* the last ledger the instance storage lives in
  pending,    \* the same for DataKey::Pending(asset), or Absent
  history,    \* the same for DataKey::History(asset), or Absent
  called      \* the ledger of the last extend_instance_ttl for an asset

vars == <<tended, ledger, instance, pending, history, called>>

\* No entry lives longer than the network's maximum.
LiveUntil == 0..(ledger + MaxTTL)

TypeOK ==
  /\ tended \subseteq Asset
  /\ ledger \in 0..MaxLedger
  /\ instance \in LiveUntil
  /\ pending \in [Asset -> LiveUntil \union {Absent}]
  /\ history \in [Asset -> LiveUntil \union {Absent}]
  /\ called \in [Asset -> 0..ledger]
-----------------------------------------------------------------------------
Live(until) == until >= ledger
Accessible(until) == until = Absent \/ Live(until)

\* Mutant of Extended: the extension is added to what is left.
ExtendedBy(until) ==
  IF until - ledger < MaxTTL \div 2 THEN until + MaxTTL ELSE until

\* extend_ttl(max / 2, max), in extend_instance and extend_persistent: an entry
\* with half of the maximum left, or more, is left alone.
Extended(until) ==
  IF until - ledger < MaxTTL \div 2 THEN ledger + MaxTTL ELSE until

\* Extension of an entry that may not be there.
ExtendedIfThere(until) == IF until = Absent THEN Absent ELSE Extended(until)

\* An entry that is set keeps its lifetime, a new one has the shortest.
Written(until) == IF until = Absent THEN ledger + MinTTL ELSE until

\* Right after initialize, which extends the instance of a new contract.
Init ==
  /\ tended \in SUBSET Asset
  /\ ledger = 0
  /\ instance = Extended(MinTTL)
  /\ pending = [asset \in Asset |-> Absent]
  /\ history = [asset \in Asset |-> Absent]
  /\ called = [asset \in Asset |-> 0]

\* add_node, remove_node, set_threshold, set_retention and add_commodity; the
\* calls that find nothing to change touch nothing here either.
Configure ==
  /\ Live(instance)
  /\ instance' = Extended(instance)
  /\ UNCHANGED <<tended, ledger, pending, history, called>>

\* The instance is read, and not extended.
SubmitPrice(asset) ==
  /\ Live(instance)
  /\ Accessible(pending[asset])
  /\ pending' = [pending EXCEPT ![asset] = Extended(Written(@))]
  /\ UNCHANGED <<tended, ledger, instance, history, called>>

\* Mutant of FinalizePrice: the history's entry is not extended.
FinalizeUnextended(asset) ==
  /\ Live(instance)
  /\ pending[asset] # Absent
  /\ Live(pending[asset])
  /\ Accessible(history[asset])
  /\ history' = [history EXCEPT ![asset] = Written(@)]
  /\ pending' = [pending EXCEPT ![asset] = Absent]
  /\ UNCHANGED <<tended, ledger, instance, called>>

FinalizePrice(asset) ==
  /\ Live(instance)
  /\ pending[asset] # Absent
  /\ Live(pending[asset])
  /\ Accessible(history[asset])
  /\ history' = [history EXCEPT ![asset] = Extended(Written(@))]
  /\ pending' = [pending EXCEPT ![asset] = Absent]
  /\ UNCHANGED <<tended, ledger, instance, called>>

\* Permissionless: a relayer's call, or somebody's for an asset nobody tends.
ExtendInstanceTTL(asset) ==
  /\ Live(instance)
  /\ Accessible(pending[asset])
  /\ Accessible(history[asset])
  /\ instance' = Extended(instance)
  /\ pending' = [pending EXCEPT ![asset] = ExtendedIfThere(@)]
  /\ history' = [history EXCEPT ![asset] = ExtendedIfThere(@)]
  /\ called' = [called EXCEPT ![asset] = ledger]
  /\ UNCHANGED <<tended, ledger>>
-----------------------------------------------------------------------------
\* The environment: ledgers close, none before a call that is due, ...
CloseLedger ==
  /\ ledger < MaxLedger
  /\ \A asset \in tended : ledger < called[asset] + Cadence
  /\ ledger' = ledger + 1
  /\ UNCHANGED <<tended, instance, pending, history, called>>

\* ... and archived entries can be restored, by anybody.
RestoreInstance ==
  /\ ~Live(instance)
  /\ instance' = ledger + MinTTL
  /\ UNCHANGED <<tended, ledger, pending, history, called>>

RestorePending(asset) ==
  /\ ~Accessible(pending[asset])
  /\ pending' = [pending EXCEPT ![asset] = ledger + MinTTL]
  /\ UNCHANGED <<tended, ledger, instance, history, called>>

RestoreHistory(asset) ==
  /\ ~Accessible(history[asset])
  /\ history' = [history EXCEPT ![asset] = ledger + MinTTL]
  /\ UNCHANGED <<tended, ledger, instance, pending, called>>

Next ==
  \/ Configure
  \/ \E asset \in Asset :
       \/ SubmitPrice(asset)
       \/ FinalizePrice(asset)
       \/ ExtendInstanceTTL(asset)
       \/ RestorePending(asset)
       \/ RestoreHistory(asset)
  \/ RestoreInstance
  \/ CloseLedger

Spec == Init /\ [][Next]_vars
-----------------------------------------------------------------------------
(***************************************************************************)
(* Properties.                                                             *)
(***************************************************************************)
\* While relayers call extend_instance_ttl for an asset at least once in half
\* of the maximal lifetime, neither the configuration nor an entry of that
\* asset is ever archived, although submit_price and finalize_price never
\* extend the instance and extensions are skipped while half is left.
NothingArchived ==
  \A asset \in tended :
    /\ Live(instance)
    /\ Accessible(pending[asset])
    /\ Accessible(history[asset])
=============================================================================
