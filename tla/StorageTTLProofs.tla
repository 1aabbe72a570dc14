-------------------------- MODULE StorageTTLProofs --------------------------
(***************************************************************************)
(* Nothing that relayers tend is archived: proofs for StorageTTL.          *)
(***************************************************************************)
EXTENDS StorageTTL, TLAPS

\* What a call of extend_instance_ttl leaves for an asset, as far as it still
\* holds now: half of the maximum since the call, which covers the cadence.
Covered(until, asset) == until >= called[asset] + MaxTTL \div 2

Tended ==
  \A asset \in tended :
    /\ ledger <= called[asset] + Cadence
    /\ Covered(instance, asset)
    /\ pending[asset] # Absent => Covered(pending[asset], asset)
    /\ history[asset] # Absent => Covered(history[asset], asset)

IInv == TypeOK /\ Tended

\* Half of the maximum is a lifetime that the maximum contains.
LEMMA Half == MaxTTL \div 2 \in Nat /\ MaxTTL \div 2 <= MaxTTL
  BY StorageTTLAssumption

\* An extension never shortens a lifetime, leaves half of the maximum at
\* least, and the maximum at most.
LEMMA Extension ==
  ASSUME ledger \in Nat, NEW until \in Nat, until <= ledger + MaxTTL
  PROVE  /\ Extended(until) \in LiveUntil
         /\ Extended(until) >= until
         /\ Extended(until) >= ledger + MaxTTL \div 2
  BY Half, StorageTTLAssumption DEF Extended, LiveUntil

\* The same for a written entry that may be new.
LEMMA WrittenIsLive ==
  ASSUME ledger \in Nat, NEW until \in LiveUntil \union {Absent}
  PROVE  /\ Extended(Written(until)) \in LiveUntil
         /\ Extended(Written(until)) >= ledger + MaxTTL \div 2
<1>1. Written(until) \in Nat /\ Written(until) <= ledger + MaxTTL
  BY StorageTTLAssumption DEF Written, LiveUntil, Absent
<1>. QED BY <1>1, Extension

\* And for one that may be absent and stays so.
LEMMA ExtensionIfThere ==
  ASSUME ledger \in Nat, NEW until \in LiveUntil \union {Absent}
  PROVE  /\ ExtendedIfThere(until) \in LiveUntil \union {Absent}
         /\ until = Absent <=> ExtendedIfThere(until) = Absent
         /\ ExtendedIfThere(until) # Absent =>
              /\ ExtendedIfThere(until) >= until
              /\ ExtendedIfThere(until) >= ledger + MaxTTL \div 2
<1>1. CASE until = Absent
  BY <1>1 DEF ExtendedIfThere
<1>2. CASE until # Absent
  <2>1. until \in Nat /\ until <= ledger + MaxTTL
    BY <1>2, StorageTTLAssumption DEF LiveUntil
  <2>2. Extended(until) # Absent
    BY <2>1, Extension DEF Absent, LiveUntil
  <2>. QED BY <1>2, <2>1, <2>2, Extension DEF ExtendedIfThere
<1>. QED BY <1>1, <1>2
-----------------------------------------------------------------------------
LEMMA InitIInv == Init => IInv
<1> SUFFICES ASSUME Init PROVE IInv
  OBVIOUS
<1>1. MinTTL \in Nat /\ MinTTL <= ledger + MaxTTL /\ ledger \in Nat
  BY StorageTTLAssumption DEF Init
<1>2. instance \in LiveUntil /\ instance >= MaxTTL \div 2
  BY <1>1, Extension, Half DEF Init, LiveUntil
<1>3. TypeOK
  BY <1>1, <1>2, StorageTTLAssumption DEF Init, TypeOK
<1>4. \A asset \in tended : /\ called[asset] = 0
                            /\ pending[asset] = Absent
                            /\ history[asset] = Absent
  BY DEF Init
<1>5. instance \in Nat /\ ledger = 0 /\ Cadence \in Nat
  BY <1>1, <1>2, StorageTTLAssumption DEF Init, LiveUntil
<1>6. Tended
  BY <1>2, <1>4, <1>5, Half DEF Tended, Covered
<1>. QED BY <1>3, <1>6 DEF IInv

\* What the invariant is for.
LEMMA TendedIsLive == IInv => NothingArchived
<1> SUFFICES ASSUME IInv, NEW asset \in tended
             PROVE  /\ Live(instance)
                    /\ Accessible(pending[asset])
                    /\ Accessible(history[asset])
  BY DEF NothingArchived
<1>1. /\ asset \in Asset
      /\ ledger \in Nat
      /\ instance \in Nat
      /\ called[asset] \in Nat
      /\ pending[asset] # Absent => pending[asset] \in Nat
      /\ history[asset] # Absent => history[asset] \in Nat
  BY StorageTTLAssumption DEF IInv, TypeOK, LiveUntil
<1>2. \A until \in Nat : Covered(until, asset) => Live(until)
  BY <1>1, Half, StorageTTLAssumption DEF IInv, Tended, Covered, Live
<1>. QED BY <1>1, <1>2 DEF IInv, Tended, Accessible

\* The types survive every step.
LEMMA NextTypeOK == TypeOK /\ [Next]_vars => TypeOK'
<1> SUFFICES ASSUME TypeOK, [Next]_vars PROVE TypeOK'
  OBVIOUS
<1>1. /\ ledger \in Nat
      /\ instance \in Nat /\ instance <= ledger + MaxTTL
      /\ \A asset \in Asset : /\ pending[asset] \in LiveUntil \union {Absent}
                              /\ history[asset] \in LiveUntil \union {Absent}
  BY StorageTTLAssumption DEF TypeOK, LiveUntil
<1>2. ledger + MinTTL \in LiveUntil
  BY <1>1, StorageTTLAssumption DEF LiveUntil
<1>3. CASE Configure
  BY <1>1, <1>3, Extension DEF Configure, TypeOK, LiveUntil
<1>4. ASSUME NEW asset \in Asset, SubmitPrice(asset) PROVE TypeOK'
  BY <1>1, <1>4, WrittenIsLive DEF SubmitPrice, TypeOK, LiveUntil
<1>5. ASSUME NEW asset \in Asset, FinalizePrice(asset) PROVE TypeOK'
  BY <1>1, <1>5, WrittenIsLive DEF FinalizePrice, TypeOK, LiveUntil
<1>6. ASSUME NEW asset \in Asset, ExtendInstanceTTL(asset) PROVE TypeOK'
  <2>1. Extended(instance) \in LiveUntil
    BY <1>1, Extension
  <2>2. /\ ExtendedIfThere(pending[asset]) \in LiveUntil \union {Absent}
        /\ ExtendedIfThere(history[asset]) \in LiveUntil \union {Absent}
    BY <1>1, ExtensionIfThere
  <2>3. ledger \in 0..ledger
    BY <1>1
  <2>. QED BY <1>6, <2>1, <2>2, <2>3 DEF ExtendInstanceTTL, TypeOK, LiveUntil
<1>7. ASSUME NEW asset \in Asset, RestorePending(asset) PROVE TypeOK'
  BY <1>2, <1>7 DEF RestorePending, TypeOK, LiveUntil
<1>8. ASSUME NEW asset \in Asset, RestoreHistory(asset) PROVE TypeOK'
  BY <1>2, <1>8 DEF RestoreHistory, TypeOK, LiveUntil
<1>9. CASE RestoreInstance
  BY <1>2, <1>9 DEF RestoreInstance, TypeOK, LiveUntil
<1>10. CASE CloseLedger
  <2>1. ledger' = ledger + 1 /\ ledger' \in 0..MaxLedger
    BY <1>1, <1>10, StorageTTLAssumption DEF CloseLedger, TypeOK
  <2>2. LiveUntil \subseteq LiveUntil' /\ 0..ledger \subseteq (0..ledger)'
    BY <1>1, <2>1, StorageTTLAssumption DEF LiveUntil
  <2>. QED BY <1>10, <2>1, <2>2 DEF CloseLedger, TypeOK
<1>11. CASE UNCHANGED vars
  BY <1>11 DEF vars, TypeOK, LiveUntil
<1>. QED
  BY <1>3, <1>4, <1>5, <1>6, <1>7, <1>8, <1>9, <1>10, <1>11 DEF Next

\* A step keeps every tended asset covered: the calls lengthen lifetimes, the
\* ledger waits for a call that is due, and nothing tended needs restoring.
LEMMA NextTended == IInv /\ [Next]_vars => Tended'
<1> SUFFICES ASSUME IInv, [Next]_vars PROVE Tended'
  OBVIOUS
<1>1. /\ tended \subseteq Asset
      /\ ledger \in Nat
      /\ instance \in Nat /\ instance <= ledger + MaxTTL
      /\ \A asset \in Asset : /\ pending[asset] \in LiveUntil \union {Absent}
                              /\ history[asset] \in LiveUntil \union {Absent}
                              /\ pending[asset] \in Int
                              /\ history[asset] \in Int
                              /\ called[asset] \in Nat
                              /\ called[asset] <= ledger
  BY StorageTTLAssumption DEF IInv, TypeOK, LiveUntil, Absent
<1>2. \A asset \in tended : /\ Live(instance)
                            /\ Accessible(pending[asset])
                            /\ Accessible(history[asset])
  BY TendedIsLive DEF NothingArchived
<1>3. CASE Configure
  <2>1. instance' \in Nat /\ instance' >= instance
    BY <1>1, <1>3, Extension DEF Configure, LiveUntil
  <2>. QED BY <1>1, <1>3, <2>1, Half DEF Configure, IInv, Tended, Covered
<1>4. ASSUME NEW asset \in Asset, SubmitPrice(asset) PROVE Tended'
  <2>1. /\ Extended(Written(pending[asset])) \in Nat
        /\ Extended(Written(pending[asset])) >= ledger + MaxTTL \div 2
    BY <1>1, WrittenIsLive DEF LiveUntil
  <2>2. pending' = [pending EXCEPT ![asset] = Extended(Written(pending[asset]))]
    BY <1>4 DEF SubmitPrice
  <2>. QED BY <1>1, <1>4, <2>1, <2>2, Half
           DEF SubmitPrice, IInv, TypeOK, Tended, Covered
<1>5. ASSUME NEW asset \in Asset, FinalizePrice(asset) PROVE Tended'
  <2>1. /\ Extended(Written(history[asset])) \in Nat
        /\ Extended(Written(history[asset])) >= ledger + MaxTTL \div 2
    BY <1>1, WrittenIsLive DEF LiveUntil
  <2>. QED BY <1>1, <1>5, <2>1, Half
           DEF FinalizePrice, IInv, TypeOK, Tended, Covered
<1>6. ASSUME NEW asset \in Asset, ExtendInstanceTTL(asset) PROVE Tended'
  <2>1. /\ instance' \in Nat
        /\ instance' >= instance
        /\ instance' >= ledger + MaxTTL \div 2
    BY <1>1, <1>6, Extension DEF ExtendInstanceTTL, LiveUntil
  <2>2. /\ pending'[asset] \in Int
        /\ pending'[asset] # Absent => pending'[asset] >= ledger + MaxTTL \div 2
    BY <1>1, <1>6, ExtensionIfThere, Half
       DEF ExtendInstanceTTL, IInv, TypeOK, LiveUntil, Absent
  <2>3. /\ history'[asset] \in Int
        /\ history'[asset] # Absent => history'[asset] >= ledger + MaxTTL \div 2
    BY <1>1, <1>6, ExtensionIfThere, Half
       DEF ExtendInstanceTTL, IInv, TypeOK, LiveUntil, Absent
  <2>4. /\ tended' = tended /\ ledger' = ledger
        /\ called'[asset] = ledger
        /\ \A other \in Asset \ {asset} : /\ pending'[other] = pending[other]
                                          /\ history'[other] = history[other]
                                          /\ called'[other] = called[other]
    BY <1>6 DEF ExtendInstanceTTL, IInv, TypeOK
  <2>. QED BY <1>1, <2>1, <2>2, <2>3, <2>4, Half, StorageTTLAssumption
           DEF IInv, Tended, Covered
<1>7. ASSUME NEW asset \in Asset, RestorePending(asset) PROVE Tended'
  BY <1>1, <1>2, <1>7 DEF RestorePending, IInv, TypeOK, Tended, Covered
<1>8. ASSUME NEW asset \in Asset, RestoreHistory(asset) PROVE Tended'
  BY <1>1, <1>2, <1>8 DEF RestoreHistory, IInv, TypeOK, Tended, Covered
<1>9. CASE RestoreInstance
  BY <1>2, <1>9 DEF RestoreInstance, Tended
<1>10. CASE CloseLedger
  BY <1>1, <1>10, StorageTTLAssumption DEF CloseLedger, IInv, Tended, Covered
<1>11. CASE UNCHANGED vars
  BY <1>11 DEF vars, IInv, Tended, Covered
<1>. QED
  BY <1>3, <1>4, <1>5, <1>6, <1>7, <1>8, <1>9, <1>10, <1>11 DEF Next

LEMMA StorageIInv == Spec => []IInv
<1>1. IInv /\ [Next]_vars => IInv'
  BY NextTypeOK, NextTended DEF IInv
<1>. QED BY InitIInv, <1>1, PTL DEF Spec

\* No lifetime exceeds the network's maximum and no call is dated in the
\* future, for every maximum, minimum and cadence.
THEOREM StorageTypeOK == Spec => []TypeOK
<1>1. IInv => TypeOK
  BY DEF IInv
<1>. QED BY StorageIInv, <1>1, PTL

\* Relayers that call extend_instance_ttl for an asset at least once in half of
\* the maximal lifetime keep the instance and the asset's entries alive.
THEOREM StorageNothingArchived == Spec => []NothingArchived
  BY StorageIInv, TendedIsLive, PTL
=============================================================================
