------------------------------- MODULE Escrow -------------------------------
(***************************************************************************)
(* What a price-floor agreement promises about the tokens it holds, with   *)
(* the clock, the oracle and the payout arithmetic left out: the buyer     *)
(* deposits once, and what is held leaves at once and as a whole, either   *)
(* divided between farmer and buyer, which ends the agreement, or back to  *)
(* the buyer.  Nobody else is ever paid.                                   *)
(***************************************************************************)
EXTENDS Integers

CONSTANTS
  Account,      \* token holders other than the contract
  Contract,     \* the contract's own address
  NoTerms,      \* no agreement yet
  Opening       \* the balances an account may start with

VARIABLES
  parties,      \* NoTerms, or who is farmer and who is buyer
  phase,        \* "open", "funded" or "settled"
  balance       \* the settlement token's balances

Move(from, to, amount) ==
  [balance EXCEPT ![from] = @ - amount, ![to] = @ + amount]

\* The farmer is paid `share` of what is held and the buyer the rest.
Divided(share) ==
  [holder \in DOMAIN balance |->
     IF holder = Contract THEN 0
     ELSE balance[holder]
            + (IF holder = parties.farmer THEN share ELSE 0)
            + (IF holder = parties.buyer THEN balance[Contract] - share ELSE 0)]

Init ==
  /\ parties = NoTerms
  /\ phase = "open"
  /\ balance \in [Account \union {Contract} -> Opening]
  /\ balance[Contract] = 0

Agree ==
  /\ parties = NoTerms
  /\ parties' \in [farmer : Account, buyer : Account]
  /\ UNCHANGED <<phase, balance>>

Deposit ==
  /\ parties # NoTerms
  /\ phase = "open"
  /\ phase' = "funded"
  /\ \E amount \in 1..balance[parties.buyer] :
       balance' = Move(parties.buyer, Contract, amount)
  /\ UNCHANGED parties

Divide ==
  /\ phase = "funded"
  /\ phase' = "settled"
  /\ \E share \in 0..balance[Contract] : balance' = Divided(share)
  /\ UNCHANGED parties

Refund ==
  /\ phase = "funded"
  /\ phase' = "open"
  /\ balance' = Divided(0)
  /\ UNCHANGED parties

\* Tokens sent to the contract's address outside the agreement.
Gift ==
  /\ \E giver \in Account : \E amount \in 1..balance[giver] :
       balance' = Move(giver, Contract, amount)
  /\ UNCHANGED <<parties, phase>>

Next == Agree \/ Deposit \/ Divide \/ Refund \/ Gift

Spec == Init /\ [][Next]_<<parties, phase, balance>>
=============================================================================
