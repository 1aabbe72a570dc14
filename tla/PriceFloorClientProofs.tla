----------------------- MODULE PriceFloorClientProofs -----------------------
(***************************************************************************)
(* What an application can rely on when it calls the agreement through its *)
(* TypeScript client, for all values of the constants.                     *)
(*                                                                         *)
(* The client adds one variable to the contract's, and every step of it is *)
(* a step of the contract or leaves the contract alone.  So what is proved *)
(* of the contract holds beside the client, and what is proved of one call *)
(* under [Next]_vars holds for the transaction in hand, whoever acts.      *)
(***************************************************************************)
EXTENDS PriceFloorClient, PriceFloorProofs

(***************************************************************************)
(* The transaction in hand.                                                *)
(***************************************************************************)
Answers == {"Ok", "Trap", "AlreadyInitialized", "NotFunded", "AlreadyFunded",
            "AlreadySettled", "NotYetMature", "OracleDataUnavailable",
            "GracePeriodNotElapsed", "Unauthorized", "InvalidAmount",
            "ArithmeticOverflow"}

Transaction == [call : Calls, result : Answers,
                stage : {"simulated", "answered", "lost"}, executed : BOOLEAN]

ClientTypeOK == assembled \in Transaction \union {NoTransaction}

\* The method of a call says which of its fields it has.
LEMMA CallTypes ==
  ASSUME NEW call \in Calls
  PROVE  \/ call \in fund /\ call.method = "fund"
         \/ call \in cancel /\ call.method = "cancel"
         \/ call \in settle /\ call.method = "settle"
         \/ call \in initialize /\ call.method = "initialize"
BY DEF Calls, fund, cancel, settle, initialize

\* What Answer is, method by method.
LEMMA AnswerOf ==
  ASSUME NEW call \in Calls
  PROVE  /\ call.method = "fund" =>
              Answer(call) = FundAnswer(call.buyer, call.amount)
         /\ call.method = "cancel" => Answer(call) = CancelAnswer(call.caller)
         /\ call.method = "settle" => Answer(call) = SettleAnswer
         /\ call.method = "initialize" => Answer(call) = InitializeAnswer
BY DEF Answer

\* The contract's numbers and the client's messages agree: the application
\* reads what the contract answered.
LEMMA TablesAgree ==
  ASSUME NEW answer \in Answers
  PROVE  (IF answer \in DOMAIN Error THEN Errors[Error[answer]] ELSE answer)
           = answer
BY DEF Answers, Error, Errors

LEMMA ResultIsAnswer ==
  \A call \in Calls : Answer(call) \in Answers /\ Result(call) = Answer(call)
<1> SUFFICES ASSUME NEW call \in Calls
             PROVE  Answer(call) \in Answers /\ Result(call) = Answer(call)
  OBVIOUS
<1>1. /\ call.method = "fund" =>
           FundAnswer(call.buyer, call.amount) \in Answers
      /\ call.method = "cancel" => CancelAnswer(call.caller) \in Answers
      /\ SettleAnswer \in Answers
      /\ InitializeAnswer \in Answers
  BY DEF FundAnswer, CancelAnswer, SettleAnswer, InitializeAnswer, Answers
<1>2. Answer(call) \in Answers
  BY <1>1, CallTypes, AnswerOf
<1>3. QED
  BY <1>2, TablesAgree DEF Result

(***************************************************************************)
(* The client's steps.                                                     *)
(***************************************************************************)
\* An execution is the contract's step for the call.
LEMMA ExecuteSteps ==
  ASSUME NEW call \in Calls, Execute(call)
  PROVE  Next
<1>1. CASE call \in fund /\ call.method = "fund"
  <2>1. call.buyer \in Account /\ call.amount \in Amounts
    BY <1>1 DEF fund
  <2>2. QED
    BY <1>1, <2>1 DEF Execute, Next
<1>2. CASE call \in cancel /\ call.method = "cancel"
  <2>1. call.caller \in Account
    BY <1>2 DEF cancel
  <2>2. QED
    BY <1>2, <2>1 DEF Execute, Next, Cancel
<1>3. CASE call \in settle /\ call.method = "settle"
  BY <1>3 DEF Execute, Next
<1>4. CASE call \in initialize /\ call.method = "initialize"
  <2>1. call.terms \in Terms
    BY <1>4 DEF initialize
  <2>2. QED
    BY <1>4, <2>1 DEF Execute, Next
<1>5. QED
  BY <1>1, <1>2, <1>3, <1>4, CallTypes

\* No client does what the contract does not allow.
LEMMA ClientSteps ==
  ASSUME ClientTypeOK, [ClientNext]_clientVars
  PROVE  [Next]_vars
<1>1. CASE SignAndSend
  <2>1. assembled.call \in Calls /\ Execute(assembled.call)
    BY <1>1 DEF SignAndSend, ReadyToSend, ClientTypeOK, Transaction
  <2>2. QED
    BY <2>1, ExecuteSteps
<1>2. CASE Others
  BY <1>2 DEF Others
<1>3. CASE UNCHANGED clientVars
  BY <1>3 DEF clientVars
<1>4. QED
  BY <1>1, <1>2, <1>3 DEF ClientNext, Assemble, Retry, SendRefused, Drop

\* An answer depends on the contract's state only.
LEMMA AnswerUnchanged ==
  ASSUME NEW call \in Calls, UNCHANGED vars
  PROVE  Answer(call)' = Answer(call)
<1>1. UNCHANGED <<terms, funded, settled, balance, now, market>>
  BY DEF vars
<1>2. UNCHANGED <<Agreed, Collateral, Paid(Payout), Paid(RefundDue), NoOverflow>>
  BY <1>1 DEF Agreed, Collateral, Paid, Payout, RefundDue, NoOverflow,
              BelowFloor, Gross, Shortfall, I128
<1>3. FundAnswer(call.buyer, call.amount)' = FundAnswer(call.buyer, call.amount)
  BY <1>1, <1>2 DEF FundAnswer
<1>4. CancelAnswer(call.caller)' = CancelAnswer(call.caller)
  BY <1>1, <1>2 DEF CancelAnswer, IsParty, StillToWait, SaturatingAdd
<1>5. SettleAnswer' = SettleAnswer
  BY <1>1, <1>2 DEF SettleAnswer
<1>6. InitializeAnswer' = InitializeAnswer
  BY <1>2 DEF InitializeAnswer
<1>7. QED
  BY <1>3, <1>4, <1>5, <1>6 DEF Answer

\* Where the transaction in hand after a step comes from: its result is what
\* the contract answers then, or it was in hand before with that result, and
\* it is prepared still; if it was ever executed, then in this step or before.
InHandBefore(transaction) ==
  /\ assembled # NoTransaction
  /\ assembled.call = transaction.call

LEMMA TransactionStep ==
  ASSUME ClientTypeOK, [ClientNext]_clientVars, assembled' # NoTransaction
  PROVE  /\ assembled' \in Transaction
         /\ \/ assembled'.result = Answer(assembled.call)'
            \/ /\ InHandBefore(assembled')
               /\ assembled'.result = assembled.result
               /\ assembled'.stage = "simulated" => assembled.stage = "simulated"
         /\ assembled'.executed => \/ Execute(assembled'.call)
                                   \/ InHandBefore(assembled') /\ assembled.executed
<1>1. ASSUME NEW call \in Calls, Assemble(call)
      PROVE  /\ assembled' \in Transaction
             /\ assembled'.result = Answer(assembled.call)'
             /\ ~assembled'.executed
  <2>1. assembled' = Assembled(call, Answer(call), "simulated", FALSE)
    BY <1>1, ResultIsAnswer DEF Assemble
  <2>2. assembled' \in Transaction
    BY <2>1, ResultIsAnswer DEF Assembled, Transaction
  <2>3. /\ assembled'.call = call /\ assembled'.result = Answer(call)
        /\ ~assembled'.executed
    BY <2>1 DEF Assembled
  <2>4. Answer(call)' = Answer(call)
    BY <1>1, AnswerUnchanged DEF Assemble
  <2>5. QED
    BY <2>2, <2>3, <2>4
<1>2. ASSUME Retry \/ SignAndSend \/ SendRefused
      PROVE  /\ assembled \in Transaction /\ assembled # NoTransaction
             /\ Result(assembled.call) = Answer(assembled.call)
             /\ Answer(assembled.call) \in Answers
  <2>1. assembled \in Transaction /\ assembled # NoTransaction
    BY <1>2 DEF Retry, SignAndSend, SendRefused, ReadyToSend, ClientTypeOK
  <2>2. assembled.call \in Calls
    BY <2>1 DEF Transaction
  <2>3. QED
    BY <2>1, <2>2, ResultIsAnswer
<1>3. CASE Retry
  <2>1. assembled' = [assembled EXCEPT !.result = Answer(assembled.call),
                                       !.stage = "simulated"]
    BY <1>2, <1>3 DEF Retry
  <2>2. /\ assembled' \in Transaction
        /\ assembled'.call = assembled.call
        /\ assembled'.result = Answer(assembled.call)
        /\ assembled'.executed = assembled.executed
    BY <1>2, <1>3, <2>1 DEF Transaction
  <2>3. Answer(assembled'.call) = Answer(assembled.call)'
    BY <1>3, <2>2, AnswerUnchanged DEF Retry, Transaction
  <2>4. QED
    BY <1>2, <1>3, <2>2, <2>3 DEF InHandBefore
<1>4. CASE SignAndSend
  <2>1. PICK stage \in {"answered", "lost"} :
          assembled' = [assembled EXCEPT !.stage = stage, !.executed = TRUE]
    BY <1>4 DEF SignAndSend
  <2>2. /\ assembled' \in Transaction
        /\ assembled'.call = assembled.call
        /\ assembled'.result = assembled.result
        /\ assembled'.stage # "simulated"
    BY <1>2, <1>4, <2>1 DEF Transaction
  <2>3. QED
    BY <1>2, <1>4, <2>2 DEF SignAndSend, InHandBefore
<1>5. CASE SendRefused
  <2>1. CASE assembled' = [assembled EXCEPT !.stage = "answered",
                                            !.result = Answer(assembled.call)]
    <3>1. /\ assembled' \in Transaction
          /\ assembled'.call = assembled.call
          /\ assembled'.result = Answer(assembled.call)
          /\ assembled'.executed = assembled.executed
      BY <1>2, <1>5, <2>1 DEF Transaction
    <3>2. Answer(assembled'.call) = Answer(assembled.call)'
      BY <1>5, <3>1, AnswerUnchanged DEF SendRefused, Transaction
    <3>3. QED
      BY <1>2, <1>5, <3>1, <3>2 DEF InHandBefore
  <2>2. CASE assembled' = [assembled EXCEPT !.stage = "lost"]
    <3>1. /\ assembled' \in Transaction
          /\ assembled'.call = assembled.call
          /\ assembled'.result = assembled.result
          /\ assembled'.stage # "simulated"
          /\ assembled'.executed = assembled.executed
      BY <1>2, <1>5, <2>2 DEF Transaction
    <3>2. QED
      BY <1>2, <1>5, <3>1 DEF InHandBefore
  <2>3. QED
    BY <1>2, <1>5, <2>1, <2>2 DEF SendRefused
<1>6. CASE UNCHANGED assembled
  BY <1>6 DEF ClientTypeOK, InHandBefore
<1>7. CASE Drop
  BY <1>7 DEF Drop
<1>8. QED
  BY <1>1, <1>3, <1>4, <1>5, <1>6, <1>7 DEF ClientNext, Others, clientVars

(***************************************************************************)
(* What others cannot take away from a call.                               *)
(***************************************************************************)
LEMMA AmountsType ==
  ASSUME NEW amount \in Amounts
  PROVE  amount \in Int
BY PriceFloorAssumption

\* What a simulation that succeeded has seen and nobody can undo.
Prepared(call) ==
  CASE call.method = "fund"       -> /\ Agreed
                                     /\ call.buyer = terms.buyer
                                     /\ call.amount > 0
    [] call.method = "cancel"     -> IsParty(call.caller)
    [] call.method = "settle"     -> \/ settled
                                     \/ /\ Agreed
                                        /\ now >= terms.maturity
                                        /\ funded
                                        /\ market # NoPrice
    [] call.method = "initialize" -> TRUE

LEMMA SimulationPrepares ==
  TypeOK => \A call \in Calls : Answer(call) = "Ok" => Prepared(call)
<1> SUFFICES ASSUME TypeOK, NEW call \in Calls, Answer(call) = "Ok"
             PROVE  Prepared(call)
  OBVIOUS
<1>1. CASE call \in fund /\ call.method = "fund"
  <2>1. FundAnswer(call.buyer, call.amount) = "Ok"
    BY <1>1, AnswerOf
  <2>2. call.amount \in Int
    BY <1>1, AmountsType DEF fund
  <2>3. QED
    BY <1>1, <2>1, <2>2 DEF FundAnswer, Prepared
<1>2. CASE call.method = "cancel"
  BY <1>2, AnswerOf DEF CancelAnswer, Prepared
<1>3. CASE call.method = "settle"
  <2>1. SettleAnswer = "Ok"
    BY <1>3, AnswerOf
  <2>2. /\ ~(now < terms.maturity)
        /\ Agreed /\ funded /\ market # NoPrice
    BY <2>1 DEF SettleAnswer
  <2>3. now \in Int /\ terms.maturity \in Int
    BY <2>2, TermsType, PriceFloorAssumption DEF TypeOK
  <2>4. QED
    BY <1>3, <2>2, <2>3 DEF Prepared
<1>4. CASE call.method = "initialize"
  BY <1>4 DEF Prepared
<1>5. QED
  BY <1>1, <1>2, <1>3, <1>4, CallTypes

LEMMA PreparedStays ==
  ASSUME IInv, [Next]_vars, NEW call \in Calls, Prepared(call)
  PROVE  Prepared(call)'
<1>1. CASE call.method = "fund"
  BY <1>1, AgreementStays DEF Prepared
<1>2. CASE call.method = "cancel"
  BY <1>2, AgreementStays DEF Prepared, IsParty
<1>3. CASE call.method = "settle"
  <2>1. settled => settled'
    BY AgreementStays
  <2>2. ASSUME Agreed, now >= terms.maturity, funded, market # NoPrice
        PROVE  /\ Agreed' /\ funded' /\ (market # NoPrice)'
               /\ now' >= terms.maturity'
    <3>1. terms.maturity \in Int
      BY <2>2, TermsType DEF IInv
    <3>2. QED
      BY <2>2, <3>1, AgreementStays
  <2>3. QED
    BY <1>3, <2>1, <2>2 DEF Prepared
<1>4. CASE call.method = "initialize"
  BY <1>4 DEF Prepared
<1>5. QED
  BY <1>1, <1>2, <1>3, <1>4, CallTypes

\* A call that was prepared meets nothing worse than being overtaken.
LEMMA PreparedOvertaken ==
  ASSUME IInv, NEW call \in Calls, Prepared(call)
  PROVE  Answer(call) \in {"Ok"} \union Overtaken(call)
<1>0. TypeOK /\ FlagOrder
  BY DEF IInv
<1>1. CASE call \in fund /\ call.method = "fund"
  <2>1. /\ Agreed /\ call.buyer = terms.buyer /\ call.amount > 0
        /\ call.amount \in Int
    BY <1>1, AmountsType DEF Prepared, fund
  <2>2. settled => funded
    BY <1>0 DEF FlagOrder
  <2>3. FundAnswer(call.buyer, call.amount) \in {"Ok", "AlreadyFunded", "Trap"}
    BY <2>1, <2>2 DEF FundAnswer
  <2>4. QED
    BY <1>1, <2>3, AnswerOf DEF Overtaken
<1>2. CASE call.method = "cancel"
  <2>1. CancelAnswer(call.caller) \in {"Ok", "AlreadySettled", "GracePeriodNotElapsed"}
    BY <1>2 DEF Prepared, CancelAnswer
  <2>2. QED
    BY <1>2, <2>1, AnswerOf DEF Overtaken
<1>3. CASE call.method = "settle"
  <2>1. CASE settled
    BY <1>3, <2>1, AnswerOf DEF SettleAnswer, Overtaken
  <2>2. CASE ~settled
    <3>1. Agreed /\ now >= terms.maturity /\ funded /\ market # NoPrice
      BY <1>3, <2>2 DEF Prepared
    <3>2. now \in Int /\ terms.maturity \in Int
      BY <1>0, <3>1, TermsType, PriceFloorAssumption DEF TypeOK
    <3>3. ~(now < terms.maturity)
      BY <3>1, <3>2
    <3>4. SettleAnswer = IF ~NoOverflow THEN "ArithmeticOverflow"
                         ELSE IF Paid(Payout) + Paid(RefundDue) > Collateral
                         THEN "Trap" ELSE "Ok"
      BY <2>2, <3>1, <3>3 DEF SettleAnswer
    <3>5. CASE WellFormed
      <4>1. /\ NoOverflow
            /\ Payout \in 0..Collateral /\ Collateral \in Nat
        BY <1>0, <3>1, <3>5, WellFormedSettles, CollateralType
      <4>2. ~(Paid(Payout) + Paid(RefundDue) > Collateral)
        BY <4>1 DEF Paid, RefundDue
      <4>3. QED
        BY <1>3, <3>4, <4>1, <4>2, AnswerOf
    <3>6. CASE ~WellFormed
      BY <1>3, <3>4, <3>6, AnswerOf DEF Overtaken
    <3>7. QED
      BY <3>5, <3>6
  <2>3. QED
    BY <2>1, <2>2
<1>4. CASE call.method = "initialize"
  BY <1>4, AnswerOf DEF InitializeAnswer, Overtaken
<1>5. QED
  BY <1>1, <1>2, <1>3, <1>4, CallTypes

\* An answer the application may take as final is never taken back.
LEMMA FinalStays ==
  ASSUME IInv, [Next]_vars, NEW call \in Calls, Answer(call) \in Final(call)
  PROVE  Answer(call)' = Answer(call)
<1>1. CASE call \in fund /\ call.method = "fund"
  <2>1. FundAnswer(call.buyer, call.amount) \in {"InvalidAmount", "AlreadySettled"}
    BY <1>1, AnswerOf DEF Final
  <2>2. ~(settled /\ ~funded)
    BY DEF IInv, FlagOrder
  <2>3. Agreed /\ call.buyer = terms.buyer /\ call.amount <= 0
    BY <2>1, <2>2 DEF FundAnswer
  <2>4. /\ FundAnswer(call.buyer, call.amount) = "InvalidAmount"
        /\ FundAnswer(call.buyer, call.amount)' = "InvalidAmount"
    BY <2>3, AgreementStays DEF FundAnswer
  <2>5. QED
    BY <1>1, <2>4 DEF Answer
<1>2. CASE call.method = "cancel"
  <2>1. CancelAnswer(call.caller) = "AlreadySettled"
    BY <1>2, AnswerOf DEF Final
  <2>2. IsParty(call.caller) /\ settled
    BY <2>1 DEF CancelAnswer
  <2>3. IsParty(call.caller)' /\ settled'
    BY <2>2, AgreementStays DEF IsParty
  <2>4. CancelAnswer(call.caller)' = "AlreadySettled"
    BY <2>3 DEF CancelAnswer
  <2>5. QED
    BY <1>2, <2>1, <2>4 DEF Answer
<1>3. CASE call.method = "settle"
  <2>1. SettleAnswer = "AlreadySettled"
    BY <1>3, AnswerOf DEF Final
  <2>2. settled
    BY <2>1 DEF SettleAnswer
  <2>3. SettleAnswer' = "AlreadySettled"
    BY <2>2, AgreementStays DEF SettleAnswer
  <2>4. QED
    BY <1>3, <2>1, <2>3 DEF Answer
<1>4. CASE call.method = "initialize"
  <2>1. InitializeAnswer = "AlreadyInitialized"
    BY <1>4, AnswerOf DEF Final
  <2>2. Agreed
    BY <2>1 DEF InitializeAnswer
  <2>3. InitializeAnswer' = "AlreadyInitialized"
    BY <2>2, AgreementStays DEF InitializeAnswer
  <2>4. QED
    BY <1>4, <2>1, <2>3 DEF Answer
<1>5. QED
  BY <1>1, <1>2, <1>3, <1>4, CallTypes

\* The trace that an execution leaves behind.
Done(call) ==
  CASE call.method = "fund"       -> funded \/ cancelled
    [] call.method = "cancel"     -> TRUE
    [] call.method = "settle"     -> settled
    [] call.method = "initialize" -> Agreed

LEMMA ExecuteDone ==
  ASSUME NEW call \in Calls, Execute(call)
  PROVE  Done(call)'
<1>1. CASE call.method = "fund"
  BY <1>1 DEF Execute, Fund, Done
<1>2. CASE call.method = "cancel"
  BY <1>2 DEF Done
<1>3. CASE call.method = "settle"
  BY <1>3 DEF Execute, Settle, Done
<1>4. CASE call \in initialize /\ call.method = "initialize"
  <2>1. call.terms # NoTerms
    BY <1>4, NoTermsAssumption DEF initialize
  <2>2. QED
    BY <1>4, <2>1 DEF Execute, Initialize, Done, Agreed
<1>5. QED
  BY <1>1, <1>2, <1>3, <1>4, CallTypes

LEMMA DoneStays ==
  ASSUME IInv, [Next]_vars, NEW call \in Calls, Done(call)
  PROVE  Done(call)'
BY AgreementStays, CallTypes DEF Done

\* What has left its trace succeeds again only where it does no harm.
LEMMA DoneRefused ==
  ASSUME IInv, NEW call \in Calls, Done(call), Answer(call) = "Ok"
  PROVE  \/ call.method = "cancel"
         \/ /\ call.method = "fund"
            /\ cancelled
            /\ Gifts = {} => Collateral = 0
<1>1. CASE call.method = "fund"
  <2>1. FundAnswer(call.buyer, call.amount) = "Ok"
    BY <1>1, AnswerOf
  <2>2. ~funded
    BY <2>1 DEF FundAnswer
  <2>3. cancelled
    BY <1>1, <2>2 DEF Done
  <2>4. Gifts = {} => Collateral = 0
    BY <2>2, CollateralType DEF IInv, NoStrandedFunds
  <2>5. QED
    BY <1>1, <2>3, <2>4
<1>2. CASE call.method = "settle"
  BY <1>2, AnswerOf DEF Done, SettleAnswer
<1>3. CASE call.method = "initialize"
  BY <1>3, AnswerOf DEF Done, InitializeAnswer
<1>4. QED
  BY <1>1, <1>2, <1>3, CallTypes

(***************************************************************************)
(* The inductive invariant: the contract's, and what the transaction in    *)
(* hand knows of it.                                                       *)
(***************************************************************************)
SimulatedIsPrepared == ReadyToSend => Prepared(assembled.call)

ExecutedIsDone ==
  assembled # NoTransaction /\ assembled.executed => Done(assembled.call)

\* A final error that was read is the contract's answer still.
FinalStillAnswered ==
  (/\ assembled # NoTransaction
   /\ assembled.result \in Final(assembled.call)) =>
     Answer(assembled.call) = assembled.result

ClientIInv ==
  /\ IInv
  /\ ClientTypeOK
  /\ SimulatedIsPrepared
  /\ FinalStillAnswered
  /\ ExecutedIsDone

LEMMA ClientInitIInv == ClientInit => ClientIInv
BY InitIInv DEF ClientInit, ClientIInv, ClientTypeOK, SimulatedIsPrepared,
                ReadyToSend, FinalStillAnswered, ExecutedIsDone

LEMMA SimulationPreparesAfter ==
  (TypeOK => \A call \in Calls : Answer(call) = "Ok" => Prepared(call))'
BY SimulationPrepares, PTL

LEMMA ClientNextIInv ==
  ASSUME ClientIInv, [ClientNext]_clientVars
  PROVE  ClientIInv'
<1>1. IInv /\ ClientTypeOK /\ [Next]_vars
  BY ClientSteps DEF ClientIInv
<1>2. IInv'
  BY <1>1, NextIInv
<1>3. CASE assembled' = NoTransaction
  BY <1>2, <1>3 DEF ClientIInv, ClientTypeOK, SimulatedIsPrepared,
                    ReadyToSend, FinalStillAnswered, ExecutedIsDone
<1>4. CASE assembled' # NoTransaction
  <2>1. assembled' \in Transaction /\ assembled'.call \in Calls
    BY <1>1, <1>4, TransactionStep DEF Transaction
  <2>2. ClientTypeOK'
    BY <2>1 DEF ClientTypeOK, Transaction
  <2>3. SimulatedIsPrepared'
    <3>1. SUFFICES ASSUME assembled'.stage = "simulated", assembled'.result = "Ok"
                   PROVE  Prepared(assembled.call)'
      BY DEF SimulatedIsPrepared, ReadyToSend
    <3>2. CASE assembled'.result = Answer(assembled.call)'
      BY <1>2, <2>1, <3>1, <3>2, SimulationPreparesAfter DEF IInv
    <3>3. CASE /\ InHandBefore(assembled')
               /\ assembled'.result = assembled.result
               /\ assembled'.stage = "simulated" => assembled.stage = "simulated"
      <4>1. Prepared(assembled'.call)
        BY <3>1, <3>3 DEF InHandBefore, ClientIInv, SimulatedIsPrepared, ReadyToSend
      <4>2. QED
        BY <1>1, <2>1, <4>1, PreparedStays
    <3>4. QED
      BY <1>1, <1>4, <3>2, <3>3, TransactionStep
  <2>4. FinalStillAnswered'
    <3>1. SUFFICES ASSUME assembled'.result \in Final(assembled'.call)
                   PROVE  Answer(assembled.call)' = assembled'.result
      BY DEF FinalStillAnswered
    <3>2. CASE InHandBefore(assembled') /\ assembled'.result = assembled.result
      <4>1. Answer(assembled'.call) = assembled'.result
        BY <3>1, <3>2 DEF InHandBefore, ClientIInv, FinalStillAnswered
      <4>2. QED
        BY <1>1, <2>1, <3>1, <4>1, FinalStays
    <3>3. QED
      BY <1>1, <1>4, <3>2, TransactionStep
  <2>5. ExecutedIsDone'
    <3>1. SUFFICES ASSUME assembled'.executed
                   PROVE  Done(assembled.call)'
      BY DEF ExecutedIsDone
    <3>2. CASE Execute(assembled'.call)
      BY <2>1, <3>2, ExecuteDone
    <3>3. CASE InHandBefore(assembled') /\ assembled.executed
      <4>1. Done(assembled'.call)
        BY <3>3 DEF InHandBefore, ClientIInv, ExecutedIsDone
      <4>2. QED
        BY <1>1, <2>1, <4>1, DoneStays
    <3>4. QED
      BY <1>1, <1>4, <3>1, <3>2, <3>3, TransactionStep
  <2>6. QED
    BY <1>2, <2>2, <2>3, <2>4, <2>5 DEF ClientIInv
<1>5. QED
  BY <1>3, <1>4

LEMMA ClientInvariance == ClientSpec => []ClientIInv
<1>1. QED
  BY ClientInitIInv, ClientNextIInv, PTL DEF ClientSpec

(***************************************************************************)
(* Whatever a client does, the agreement behaves as the contract alone     *)
(* allows: its theorems hold beside the client too.                        *)
(***************************************************************************)
LEMMA ClientFollowsContract == ClientSpec => Spec
<1>1. ClientInit => Init
  BY DEF ClientInit
<1>2. ClientIInv /\ [ClientNext]_clientVars => [Next]_vars
  BY ClientSteps DEF ClientIInv
<1>3. QED
  BY <1>1, <1>2, ClientInvariance, PTL DEF ClientSpec, Spec

(***************************************************************************)
(* Between a simulation that succeeds and the execution, others can cause  *)
(* the errors in Overtaken and no other: no price and no caller stops a    *)
(* prepared settle on well-formed terms, except by settling first.         *)
(***************************************************************************)
THEOREM ClientForecastHolds == ClientSpec => []ForecastHolds
<1>1. ClientIInv => ForecastHolds
  <2> SUFFICES ASSUME ClientIInv, ReadyToSend
               PROVE  Answer(assembled.call) \in {"Ok"} \union Overtaken(assembled.call)
    BY DEF ForecastHolds
  <2>1. assembled.call \in Calls
    BY DEF ClientIInv, ClientTypeOK, Transaction, ReadyToSend
  <2>2. IInv /\ Prepared(assembled.call)
    BY DEF ClientIInv, SimulatedIsPrepared
  <2>3. QED
    BY <2>1, <2>2, PreparedOvertaken
<1>2. QED
  BY <1>1, ClientInvariance, PTL

(***************************************************************************)
(* The client's table gives every error of the contract its own name, and  *)
(* AlreadySettled, AlreadyInitialized and InvalidAmount are final: the     *)
(* application that reads one may give up.                                 *)
(***************************************************************************)
THEOREM ClientFinalErrors == ClientSpec => []FinalErrors
<1>1. ClientIInv => FinalErrors
  BY ResultIsAnswer DEF ClientIInv, ClientTypeOK, Transaction,
                        FinalStillAnswered, FinalErrors
<1>2. QED
  BY <1>1, ClientInvariance, PTL

(***************************************************************************)
(* A call that is retried after its answer was lost is not executed twice, *)
(* except a cancel, which may be repeated while it is due, and a fund      *)
(* whose collateral a cancel has returned.                                 *)
(***************************************************************************)
THEOREM ClientRetriesRefused == ClientSpec => []RetriesRefused
<1>1. ClientIInv => RetriesRefused
  <2> SUFFICES ASSUME ClientIInv, assembled # NoTransaction, assembled.executed,
                      Answer(assembled.call) = "Ok"
               PROVE  \/ assembled.call.method = "cancel"
                      \/ /\ assembled.call.method = "fund"
                         /\ cancelled
                         /\ Gifts = {} => Collateral = 0
    BY DEF RetriesRefused
  <2>1. assembled.call \in Calls
    BY DEF ClientIInv, ClientTypeOK, Transaction
  <2>2. IInv /\ Done(assembled.call)
    BY DEF ClientIInv, ExecutedIsDone
  <2>3. QED
    BY <2>1, <2>2, DoneRefused
<1>2. QED
  BY <1>1, ClientInvariance, PTL
=============================================================================
