-------------------------- MODULE PriceFloorClient --------------------------
(***************************************************************************)
(* The generated TypeScript client of agripricefloor                       *)
(* (packages/sdk/generated/pricefloor/src/index.ts) and an application     *)
(* that works through it, beside everybody else who calls the contract.    *)
(*                                                                         *)
(* Each method of the client constructs a transaction and simulates it on  *)
(* the contract's state of that moment: the AssembledTransaction holds the *)
(* simulation's result.  signAndSend() executes the transaction later, on  *)
(* whatever the state is then; its answer may get lost, and the            *)
(* application may simulate and send the same call again.                  *)
(*                                                                         *)
(* The payout that settle returns in its Ok is left out: FarmerTopUp says  *)
(* what is paid.                                                           *)
(***************************************************************************)
EXTENDS PriceFloor

CONSTANT NoTransaction

VARIABLE assembled   \* NoTransaction, or the AssembledTransaction in hand

clientVars == <<vars, assembled>>
-----------------------------------------------------------------------------
(***************************************************************************)
(* The calls that the client's methods construct transactions for.         *)
(***************************************************************************)
fund == [method : {"fund"}, buyer : Account, amount : Amounts]

cancel == [method : {"cancel"}, caller : Account]

settle == [method : {"settle"}]

initialize == [method : {"initialize"}, terms : Terms]

Calls == fund \union cancel \union settle \union initialize
-----------------------------------------------------------------------------
(***************************************************************************)
(* What the contract answers now, in the order the code checks.  "Trap" is *)
(* a failure of the token's transfer, which has no error of the contract.  *)
(***************************************************************************)
FundAnswer(buyer, amount) ==
  IF ~Agreed THEN "Unauthorized"
  ELSE IF buyer # terms.buyer THEN "Unauthorized"
  ELSE IF amount <= 0 THEN "InvalidAmount"
  ELSE IF funded THEN "AlreadyFunded"
  ELSE IF settled THEN "AlreadySettled"
  ELSE IF amount > balance[buyer] \/ Collateral + amount > MaxI128 THEN "Trap"
  ELSE "Ok"

\* Mutant of SettleAnswer: the flag is not looked at.
SettleAnswerUnguarded ==
  IF ~Agreed THEN "NotYetMature"
  ELSE IF now < terms.maturity THEN "NotYetMature"
  ELSE IF ~funded THEN "NotFunded"
  ELSE IF market = NoPrice THEN "OracleDataUnavailable"
  ELSE IF ~NoOverflow THEN "ArithmeticOverflow"
  ELSE IF Paid(Payout) + Paid(RefundDue) > Collateral THEN "Trap"
  ELSE "Ok"

SettleAnswer ==
  IF settled THEN "AlreadySettled"
  ELSE IF ~Agreed THEN "NotYetMature"
  ELSE IF now < terms.maturity THEN "NotYetMature"
  ELSE IF ~funded THEN "NotFunded"
  ELSE IF market = NoPrice THEN "OracleDataUnavailable"
  ELSE IF ~NoOverflow THEN "ArithmeticOverflow"
  ELSE IF Paid(Payout) + Paid(RefundDue) > Collateral THEN "Trap"
  ELSE "Ok"

\* The deadline and the oracle's answer are refused with the same error.
StillToWait ==
  IF funded
  THEN \/ now < SaturatingAdd(terms.maturity, SettleFailureGrace)
       \/ market # NoPrice
  ELSE now < SaturatingAdd(terms.maturity, UnfundedCancelGrace)

CancelAnswer(caller) ==
  IF ~IsParty(caller) THEN "Unauthorized"
  ELSE IF settled THEN "AlreadySettled"
  ELSE IF StillToWait THEN "GracePeriodNotElapsed"
  ELSE "Ok"

InitializeAnswer == IF Agreed THEN "AlreadyInitialized" ELSE "Ok"

Answer(call) ==
  CASE call.method = "fund"       -> FundAnswer(call.buyer, call.amount)
    [] call.method = "cancel"     -> CancelAnswer(call.caller)
    [] call.method = "settle"     -> SettleAnswer
    [] call.method = "initialize" -> InitializeAnswer

\* What an invocation that succeeds does.
Execute(call) ==
  CASE call.method = "fund"       -> Fund(call.buyer, call.amount)
    [] call.method = "cancel"     -> CancelFunded(call.caller)
                                       \/ CancelUnfunded(call.caller)
    [] call.method = "settle"     -> Settle
    [] call.method = "initialize" -> Initialize(call.terms)
-----------------------------------------------------------------------------
(***************************************************************************)
(* Errors travel as the contract's numbers, and the client turns a number  *)
(* into the message its table has for it.                                  *)
(***************************************************************************)
Error ==
  [AlreadyInitialized |-> 1, NotFunded |-> 2, AlreadyFunded |-> 3,
   AlreadySettled |-> 4, NotYetMature |-> 5, OracleDataUnavailable |-> 6,
   GracePeriodNotElapsed |-> 7, Unauthorized |-> 8, InvalidAmount |-> 9,
   ArithmeticOverflow |-> 10]

\* Mutant of Errors: a table generated from another numbering.
DriftedErrors ==
  <<"AlreadyInitialized", "NotYetMature", "AlreadyFunded", "AlreadySettled",
    "NotFunded", "OracleDataUnavailable", "GracePeriodNotElapsed",
    "Unauthorized", "InvalidAmount", "ArithmeticOverflow">>

Errors ==
  <<"AlreadyInitialized", "NotFunded", "AlreadyFunded", "AlreadySettled",
    "NotYetMature", "OracleDataUnavailable", "GracePeriodNotElapsed",
    "Unauthorized", "InvalidAmount", "ArithmeticOverflow">>

\* The result the application reads.
Result(call) ==
  LET answer == Answer(call)
  IN  IF answer \in DOMAIN Error THEN Errors[Error[answer]] ELSE answer
-----------------------------------------------------------------------------
ClientInit ==
  /\ Init
  /\ assembled = NoTransaction

\* The AssembledTransaction of a call: its latest result, how far it got, and
\* whether a transaction of this call has been executed with success.
Assembled(call, result, stage, executed) ==
  [call |-> call, result |-> result, stage |-> stage, executed |-> executed]

\* A method of the client is called.
Assemble(call) ==
  /\ assembled = NoTransaction
  /\ assembled' = Assembled(call, Result(call), "simulated", FALSE)
  /\ UNCHANGED vars

\* The same call is tried again, whether or not its answer arrived.
Retry ==
  /\ assembled # NoTransaction
  /\ assembled.stage # "simulated"
  /\ assembled' = [assembled EXCEPT !.result = Result(assembled.call),
                                    !.stage = "simulated"]
  /\ UNCHANGED vars

\* Only a transaction whose simulation succeeded can be sent.
ReadyToSend ==
  /\ assembled # NoTransaction
  /\ assembled.stage = "simulated"
  /\ assembled.result = "Ok"

\* signAndSend(): the transaction is executed, and the answer arrives or not.
SignAndSend ==
  /\ ReadyToSend
  /\ Answer(assembled.call) = "Ok"
  /\ Execute(assembled.call)
  /\ \E stage \in {"answered", "lost"} :
       assembled' = [assembled EXCEPT !.stage = stage, !.executed = TRUE]

SendRefused ==
  /\ ReadyToSend
  /\ Answer(assembled.call) # "Ok"
  /\ \/ assembled' = [assembled EXCEPT !.stage = "answered",
                                       !.result = Result(assembled.call)]
     \/ assembled' = [assembled EXCEPT !.stage = "lost"]
  /\ UNCHANGED vars

\* The application is done with the call.
Drop ==
  /\ assembled # NoTransaction
  /\ assembled' = NoTransaction
  /\ UNCHANGED vars

\* Everybody else, the ledger, the token and the oracle.
Others == Next /\ UNCHANGED assembled

ClientNext ==
  \/ \E call \in Calls : Assemble(call)
  \/ Retry
  \/ SignAndSend
  \/ SendRefused
  \/ Drop
  \/ Others

ClientSpec == ClientInit /\ [][ClientNext]_clientVars
-----------------------------------------------------------------------------
(***************************************************************************)
(* Properties.                                                             *)
(***************************************************************************)
\* The errors a transaction may run into although its simulation succeeded,
\* because of what others did in between.
Overtaken(call) ==
  CASE call.method = "fund"       -> {"AlreadyFunded", "Trap"}
    [] call.method = "cancel"     -> {"AlreadySettled", "GracePeriodNotElapsed"}
    [] call.method = "settle"     -> IF WellFormed THEN {"AlreadySettled"}
                                     ELSE {"AlreadySettled",
                                           "ArithmeticOverflow", "Trap"}
    [] call.method = "initialize" -> {"AlreadyInitialized"}

\* A result read from a simulation is a forecast: between the simulation and
\* signAndSend() a prepared fund is overtaken only by another fund or by the
\* buyer's spending, a prepared cancel by a fund, a settle or the oracle's first
\* price, and a prepared settle on well-formed terms by nothing but another
\* settle, no matter which prices arrive and who tries to cancel.
ForecastHolds ==
  ReadyToSend => Answer(assembled.call) \in {"Ok"} \union Overtaken(assembled.call)

\* The errors that nothing can change any more.
Final(call) ==
  CASE call.method = "fund"       -> {"InvalidAmount", "AlreadySettled"}
    [] call.method = "cancel"     -> {"AlreadySettled"}
    [] call.method = "settle"     -> {"AlreadySettled"}
    [] call.method = "initialize" -> {"AlreadyInitialized"}

\* The error the application reads is the one the contract answered with; and
\* if it is AlreadySettled, AlreadyInitialized or InvalidAmount, as far as they
\* are final, it may give up: the same call gets the same error for ever.
FinalErrors ==
  assembled # NoTransaction =>
    /\ Result(assembled.call) = Answer(assembled.call)
    /\ assembled.result \in Final(assembled.call) =>
         Answer(assembled.call) = assembled.result

\* A retry after a lost answer does nothing twice: once executed, a settle and
\* an initialize are refused for good, and a fund until the collateral it
\* brought has been paid back by a cancel (what the contract then holds was
\* sent to its address directly).
RetriesRefused ==
  (/\ assembled # NoTransaction
   /\ assembled.executed
   /\ Answer(assembled.call) = "Ok") =>
     \/ assembled.call.method = "cancel"
     \/ /\ assembled.call.method = "fund"
        /\ cancelled
        /\ Gifts = {} => Collateral = 0
=============================================================================
