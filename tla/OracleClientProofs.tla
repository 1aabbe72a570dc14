------------------------- MODULE OracleClientProofs -------------------------
(***************************************************************************)
(* What an application can rely on when it calls the oracle through its    *)
(* TypeScript client, for all values of the constants.                     *)
(*                                                                         *)
(* The argument is that of PriceFloorClientProofs: every step of the       *)
(* client is a step of the contract or leaves the contract alone, so what  *)
(* is proved of one call under [Next]_vars holds for the transaction in    *)
(* hand, whoever acts.                                                     *)
(***************************************************************************)
EXTENDS OracleClient, OracleProofs

(***************************************************************************)
(* The transaction in hand.                                                *)
(***************************************************************************)
Calls == Reads \union Writes

Statuses == {"Ok", "AlreadyInitialized", "NotInitialized", "NotAdmin",
             "NotAuthorizedNode", "UnknownCommodity", "CommodityAlreadyExists",
             "ThresholdNotMet", "NoPendingSubmissions", "DuplicateSubmission",
             "InvalidPrice", "InvalidThreshold"}

\* The values that reads return are of many shapes, so only their presence is
\* part of the type.
IsResult(result) ==
  /\ result = [status |-> result.status, value |-> result.value]
  /\ result.status \in Statuses

IsTransaction(t) ==
  /\ t = Assembled(t.call, t.result, t.stage, t.executed)
  /\ t.call \in Calls
  /\ IsResult(t.result)
  /\ t.stage \in {"simulated", "answered", "lost"}
  /\ t.executed \in Timestamp \union {NotYet}

ClientTypeOK == assembled # NoTransaction => IsTransaction(assembled)

\* The method of a call says which of its fields it has.
LEMMA WriteTypes ==
  ASSUME NEW call \in Writes
  PROVE  \/ call \in initialize /\ call.method = "initialize"
         \/ call \in add_node /\ call.method = "add_node"
         \/ call \in remove_node /\ call.method = "remove_node"
         \/ call \in add_commodity /\ call.method = "add_commodity"
         \/ call \in set_retention /\ call.method = "set_retention"
         \/ call \in set_threshold /\ call.method = "set_threshold"
         \/ call \in submit_price /\ call.method = "submit_price"
         \/ call \in finalize_price /\ call.method = "finalize_price"
         \/ call \in extend_instance_ttl /\ call.method = "extend_instance_ttl"
BY DEF Writes, initialize, add_node, remove_node, add_commodity,
       set_retention, set_threshold, submit_price, finalize_price,
       extend_instance_ttl

LEMMA ReadTypes ==
  ASSUME NEW call \in Reads
  PROVE  \/ call \in price /\ call.method = "price"
         \/ call \in assets /\ call.method = "assets"
         \/ call \in prices /\ call.method = "prices"
         \/ call \in lastprice /\ call.method = "lastprice"
         \/ call \in read_resolution /\ call.method = "resolution"
BY DEF Reads, price, assets, prices, lastprice, read_resolution

\* Nobody sends a read.
LEMMA ReadsAreNotWrites ==
  ASSUME NEW call \in Reads
  PROVE  call \notin Writes
BY ReadTypes, WriteTypes

\* What Answer is, method by method.
LEMMA AnswerOf ==
  ASSUME NEW call
  PROVE  /\ call.method = "initialize" =>
              Answer(call) = InitializeAnswer(call.resolution)
         /\ call.method \in {"add_node", "remove_node"} =>
              Answer(call) = AdminAnswer(call.admin, Ok(<<>>))
         /\ call.method = "set_threshold" =>
              Answer(call) = AdminAnswer(call.admin, ThresholdAnswer(call.threshold))
         /\ call.method = "set_retention" =>
              Answer(call) = AdminAnswer(call.admin, RetentionAnswer(call.retention))
         /\ call.method = "add_commodity" =>
              Answer(call) = AdminAnswer(call.admin, CommodityAnswer(call.asset))
         /\ call.method = "submit_price" =>
              Answer(call) = SubmitAnswer(call.node, call.asset, call.price)
         /\ call.method = "finalize_price" =>
              Answer(call) = FinalizeAnswer(call.asset)
         /\ call.method = "extend_instance_ttl" => Answer(call) = ExtendAnswer
         /\ call.method = "price" =>
              Answer(call) = Ok(Price(call.asset, call.timestamp))
         /\ call.method = "prices" =>
              Answer(call) = Ok(PricesRead(call.asset, call.records))
         /\ call.method = "lastprice" => Answer(call) = Ok(LastPrice(call.asset))
         /\ call.method = "assets" => Answer(call) = Ok(<<commodities>>)
         /\ call.method = "resolution" => Answer(call) = Ok(<<resolution>>)
BY DEF Answer

LEMMA OkIsResult ==
  ASSUME NEW value
  PROVE  IsResult(Ok(value)) /\ Ok(value).status = "Ok"
BY DEF IsResult, Ok, Statuses

LEMMA ErrIsResult ==
  ASSUME NEW error \in Statuses
  PROVE  IsResult(Err(error)) /\ Err(error).status = error
BY DEF IsResult, Err

\* The contract's numbers and the client's messages agree: the application
\* reads what the contract answered.
LEMMA TablesAgree ==
  ASSUME NEW answer, IsResult(answer)
  PROVE  (IF answer.status \in DOMAIN Error
          THEN [answer EXCEPT !.status = Errors[Error[answer.status]]]
          ELSE answer) = answer
<1>1. CASE answer.status \in DOMAIN Error
  <2>1. Errors[Error[answer.status]] = answer.status
    BY <1>1 DEF Error, Errors
  <2>2. [answer EXCEPT !.status = answer.status] = answer
    BY DEF IsResult
  <2>3. QED
    BY <1>1, <2>1, <2>2
<1>2. CASE answer.status \notin DOMAIN Error
  BY <1>2
<1>3. QED
  BY <1>1, <1>2

LEMMA ResultIsAnswer ==
  \A call \in Calls : IsResult(Answer(call)) /\ Result(call) = Answer(call)
<1> SUFFICES ASSUME NEW call \in Calls
             PROVE  IsResult(Answer(call)) /\ Result(call) = Answer(call)
  OBVIOUS
<1>0. \A error \in Statuses : IsResult(Err(error))
  BY ErrIsResult
<1>1. IsResult(Ok(<<>>))
  BY OkIsResult
<1>2. ASSUME call \in Reads
      PROVE  IsResult(Answer(call))
  BY <1>2, ReadTypes, AnswerOf, OkIsResult
<1>3. /\ IsResult(InitializeAnswer(call.resolution))
      /\ IsResult(ThresholdAnswer(call.threshold))
      /\ IsResult(RetentionAnswer(call.retention))
      /\ IsResult(CommodityAnswer(call.asset))
      /\ IsResult(ExtendAnswer)
      /\ IsResult(SubmitAnswer(call.node, call.asset, call.price))
  BY <1>0, <1>1 DEF InitializeAnswer, ThresholdAnswer, RetentionAnswer,
       CommodityAnswer, ExtendAnswer, SubmitAnswer, Statuses
<1>4. IsResult(FinalizeAnswer(call.asset))
  BY <1>0, OkIsResult DEF FinalizeAnswer, Statuses
<1>5. \A answer : IsResult(answer) => IsResult(AdminAnswer(call.admin, answer))
  BY <1>0 DEF AdminAnswer, Statuses
<1>6. ASSUME call \in Writes
      PROVE  IsResult(Answer(call))
  BY <1>1, <1>3, <1>4, <1>5, <1>6, WriteTypes, AnswerOf
<1>7. IsResult(Answer(call))
  BY <1>2, <1>6 DEF Calls
<1>8. QED
  BY <1>7, TablesAgree DEF Result

(***************************************************************************)
(* The client's steps.                                                     *)
(***************************************************************************)
\* An execution is the contract's step for the call.
LEMMA ExecuteSteps ==
  ASSUME NEW call \in Writes, Execute(call)
  PROVE  [Next]_vars
<1>1. CASE call \in initialize /\ call.method = "initialize"
  <2>1. call.admin \in Address /\ call.resolution \in Resolutions
    BY <1>1 DEF initialize
  <2>2. QED
    BY <1>1, <2>1 DEF Execute, Next
<1>2. CASE \/ call \in add_node /\ call.method = "add_node"
           \/ call \in remove_node /\ call.method = "remove_node"
  <2>1. call.admin \in Address /\ call.node \in Address
    BY <1>2 DEF add_node, remove_node
  <2>2. QED
    BY <1>2, <2>1 DEF Execute, Next
<1>3. CASE call \in add_commodity /\ call.method = "add_commodity"
  <2>1. call.admin \in Address /\ call.asset \in Asset
    BY <1>3 DEF add_commodity
  <2>2. QED
    BY <1>3, <2>1 DEF Execute, Next
<1>4. CASE call \in set_retention /\ call.method = "set_retention"
  <2>1. call.admin \in Address /\ call.retention \in Retentions
    BY <1>4 DEF set_retention
  <2>2. QED
    BY <1>4, <2>1 DEF Execute, Next
<1>5. CASE call \in set_threshold /\ call.method = "set_threshold"
  <2>1. call.admin \in Address /\ call.threshold \in Thresholds
    BY <1>5 DEF set_threshold
  <2>2. QED
    BY <1>5, <2>1 DEF Execute, Next
<1>6. CASE call \in submit_price /\ call.method = "submit_price"
  <2>1. call.node \in Address /\ call.asset \in Asset /\ call.price \in Prices
    BY <1>6 DEF submit_price
  <2>2. QED
    BY <1>6, <2>1 DEF Execute, Next
<1>7. CASE call \in finalize_price /\ call.method = "finalize_price"
  <2>1. call.asset \in Asset
    BY <1>7 DEF finalize_price
  <2>2. QED
    BY <1>7, <2>1 DEF Execute, Next
<1>8. CASE call \in extend_instance_ttl /\ call.method = "extend_instance_ttl"
  BY <1>8 DEF Execute
<1>9. QED
  BY <1>1, <1>2, <1>3, <1>4, <1>5, <1>6, <1>7, <1>8, WriteTypes

\* No client does what the contract does not allow.
LEMMA ClientSteps ==
  ASSUME [ClientNext]_clientVars
  PROVE  [Next]_vars
<1>1. CASE SignAndSend
  BY <1>1, ExecuteSteps DEF SignAndSend, ReadyToSend
<1>2. CASE Others
  BY <1>2 DEF Others
<1>3. CASE UNCHANGED clientVars
  BY <1>3 DEF clientVars
<1>4. QED
  BY <1>1, <1>2, <1>3 DEF ClientNext, Assemble, Retry, SendRefused, Drop

\* An answer depends on the contract's state only.
LEMMA AnswerUnchanged ==
  ASSUME NEW call \in Calls, UNCHANGED vars
  PROVE  Answer(call)' = Answer(call)
<1>1. UNCHANGED <<now, admin, nodes, threshold, resolution, retention,
                  commodities, pending, history>>
  BY DEF vars, config
<1>2. Initialized' = Initialized /\ \A t : RoundToWindow(t)' = RoundToWindow(t)
  BY <1>1 DEF Initialized, RoundToWindow
<1>3. CASE call \in Reads
  <2>1. Price(call.asset, call.timestamp)' = Price(call.asset, call.timestamp)
    BY <1>1, <1>2 DEF Price, SelectInSeq
  <2>2. PricesRead(call.asset, call.records)' = PricesRead(call.asset, call.records)
    BY <1>1 DEF PricesRead, LastRecords
  <2>3. LastPrice(call.asset)' = LastPrice(call.asset)
    BY <1>1 DEF LastPrice
  <2>4. QED
    BY <1>1, <1>3, <2>1, <2>2, <2>3, ReadTypes DEF Answer, Ok
<1>4. CASE call \in Writes
  <2>1. InitializeAnswer(call.resolution)' = InitializeAnswer(call.resolution)
    BY <1>2 DEF InitializeAnswer, Ok, Err
  <2>2. /\ ThresholdAnswer(call.threshold)' = ThresholdAnswer(call.threshold)
        /\ RetentionAnswer(call.retention)' = RetentionAnswer(call.retention)
        /\ CommodityAnswer(call.asset)' = CommodityAnswer(call.asset)
    BY <1>1 DEF ThresholdAnswer, RetentionAnswer, CommodityAnswer, Ok, Err
  <2>3. SubmitAnswer(call.node, call.asset, call.price)'
          = SubmitAnswer(call.node, call.asset, call.price)
    BY <1>1, <1>2 DEF SubmitAnswer, IsDuplicate, Ok, Err
  <2>4. SubmittedPrices(call.asset)' = SubmittedPrices(call.asset)
    BY <1>1 DEF SubmittedPrices
  <2>5. FinalizeAnswer(call.asset)' = FinalizeAnswer(call.asset)
    BY <1>1, <1>2, <2>4 DEF FinalizeAnswer, FinalRecord, Ok, Err
  <2>6. ExtendAnswer' = ExtendAnswer
    BY <1>2 DEF ExtendAnswer, Ok, Err
  <2>7. QED
    BY <1>1, <1>2, <1>4, <2>1, <2>2, <2>3, <2>5, <2>6, WriteTypes
       DEF Answer, AdminAnswer, Ok, Err
<1>5. QED
  BY <1>3, <1>4 DEF Calls

\* A transaction is a record of its four fields.
LEMMA AssembledFields ==
  ASSUME NEW call, NEW result, NEW stage, NEW executed
  PROVE  LET t == Assembled(call, result, stage, executed)
         IN  /\ t.call = call /\ t.result = result
             /\ t.stage = stage /\ t.executed = executed
BY DEF Assembled

\* Where the transaction in hand after a step comes from.  Its result is what
\* the contract answers then, or it is that of a success answered just now, or
\* the transaction was in hand before with that result and is prepared still.
\* If it was ever executed, then in this step or before.
InHandBefore(t) ==
  /\ assembled # NoTransaction
  /\ assembled.call = t.call

FreshResult == assembled'.result = Answer(assembled.call)'

AnsweredNow ==
  /\ assembled'.call \in Writes
  /\ assembled'.stage = "answered"
  /\ assembled'.result.status = "Ok"

OldResult ==
  /\ InHandBefore(assembled')
  /\ assembled'.result = assembled.result
  /\ assembled'.stage = "simulated" => assembled.stage = "simulated"

ExecutedNow == Execute(assembled'.call) /\ assembled'.executed = now

ExecutedBefore ==
  InHandBefore(assembled') /\ assembled'.executed = assembled.executed

LEMMA TransactionStep ==
  ASSUME ClientTypeOK, now \in Timestamp, [ClientNext]_clientVars,
         assembled' # NoTransaction
  PROVE  /\ IsTransaction(assembled')
         /\ FreshResult \/ AnsweredNow \/ OldResult
         /\ \/ assembled'.executed = NotYet
            \/ assembled'.call \in Writes /\ ExecutedNow
            \/ ExecutedBefore
<1>1. ASSUME NEW call \in Calls, Assemble(call)
      PROVE  /\ IsTransaction(assembled')
             /\ FreshResult
             /\ assembled'.executed = NotYet
  <2>1. assembled' = Assembled(call, Answer(call), "simulated", NotYet)
    BY <1>1, ResultIsAnswer DEF Assemble
  <2>2. /\ assembled'.call = call /\ assembled'.result = Answer(call)
        /\ assembled'.stage = "simulated" /\ assembled'.executed = NotYet
    BY <2>1 DEF Assembled
  <2>3. IsTransaction(assembled')
    BY <2>1, <2>2, ResultIsAnswer DEF IsTransaction
  <2>4. Answer(call)' = Answer(call)
    BY <1>1, AnswerUnchanged DEF Assemble
  <2>5. QED
    BY <2>2, <2>3, <2>4 DEF FreshResult
<1>2. ASSUME Retry \/ SignAndSend \/ SendRefused
      PROVE  /\ assembled # NoTransaction
             /\ IsTransaction(assembled)
             /\ assembled.call \in Calls
             /\ IsResult(Answer(assembled.call))
             /\ Result(assembled.call) = Answer(assembled.call)
  <2>1. assembled # NoTransaction /\ IsTransaction(assembled)
    BY <1>2 DEF Retry, SignAndSend, SendRefused, ReadyToSend, ClientTypeOK
  <2>2. assembled.call \in Calls
    BY <2>1 DEF IsTransaction
  <2>3. QED
    BY <2>1, <2>2, ResultIsAnswer
<1>3. CASE Retry
  <2>1. assembled' = Assembled(assembled.call, Answer(assembled.call),
                               "simulated", assembled.executed)
    BY <1>2, <1>3 DEF Retry, IsTransaction, Assembled
  <2>2. /\ assembled'.call = assembled.call
        /\ assembled'.result = Answer(assembled.call)
        /\ assembled'.stage = "simulated"
        /\ assembled'.executed = assembled.executed
    BY <2>1, AssembledFields
  <2>3. IsTransaction(assembled')
    BY <1>2, <1>3, <2>1, <2>2 DEF IsTransaction
  <2>4. FreshResult
    BY <1>2, <1>3, <2>2, AnswerUnchanged DEF Retry, FreshResult
  <2>5. QED
    BY <1>2, <1>3, <2>2, <2>3, <2>4 DEF ExecutedBefore, InHandBefore
<1>4. CASE SignAndSend
  <2>1. /\ assembled.call \in Writes
        /\ Answer(assembled.call).status = "Ok"
        /\ Execute(assembled.call)
    BY <1>4 DEF SignAndSend, ReadyToSend
  <2>2. CASE assembled' = [assembled EXCEPT !.stage = "answered",
                                            !.result = Answer(assembled.call),
                                            !.executed = now]
    <3>1. assembled' = Assembled(assembled.call, Answer(assembled.call),
                                 "answered", now)
      BY <1>2, <1>4, <2>2 DEF IsTransaction, Assembled
    <3>2. /\ assembled'.call = assembled.call
          /\ assembled'.result = Answer(assembled.call)
          /\ assembled'.stage = "answered"
          /\ assembled'.executed = now
      BY <3>1, AssembledFields
    <3>3. IsTransaction(assembled')
      BY <1>2, <1>4, <3>1, <3>2 DEF IsTransaction
    <3>4. QED
      BY <2>1, <3>2, <3>3 DEF AnsweredNow, ExecutedNow
  <2>3. CASE assembled' = [assembled EXCEPT !.stage = "lost", !.executed = now]
    <3>1. assembled' = Assembled(assembled.call, assembled.result, "lost", now)
      BY <1>2, <1>4, <2>3 DEF IsTransaction, Assembled
    <3>2. /\ assembled'.call = assembled.call
          /\ assembled'.result = assembled.result
          /\ assembled'.stage = "lost"
          /\ assembled'.executed = now
      BY <3>1, AssembledFields
    <3>3. IsTransaction(assembled')
      BY <1>2, <1>4, <3>1, <3>2 DEF IsTransaction
    <3>4. QED
      BY <1>2, <1>4, <2>1, <3>2, <3>3 DEF OldResult, InHandBefore, ExecutedNow
  <2>4. QED
    BY <1>2, <1>4, <2>2, <2>3 DEF SignAndSend
<1>5. CASE SendRefused
  <2>1. CASE assembled' = [assembled EXCEPT !.stage = "answered",
                                            !.result = Answer(assembled.call)]
    <3>1. assembled' = Assembled(assembled.call, Answer(assembled.call),
                                 "answered", assembled.executed)
      BY <1>2, <1>5, <2>1 DEF IsTransaction, Assembled
    <3>2. /\ assembled'.call = assembled.call
          /\ assembled'.result = Answer(assembled.call)
          /\ assembled'.stage = "answered"
          /\ assembled'.executed = assembled.executed
      BY <3>1, AssembledFields
    <3>3. IsTransaction(assembled')
      BY <1>2, <1>5, <3>1, <3>2 DEF IsTransaction
    <3>4. FreshResult
      BY <1>2, <1>5, <3>2, AnswerUnchanged DEF SendRefused, FreshResult
    <3>5. QED
      BY <1>2, <1>5, <3>2, <3>3, <3>4 DEF ExecutedBefore, InHandBefore
  <2>2. CASE assembled' = [assembled EXCEPT !.stage = "lost"]
    <3>1. assembled' = Assembled(assembled.call, assembled.result, "lost",
                                 assembled.executed)
      BY <1>2, <1>5, <2>2 DEF IsTransaction, Assembled
    <3>2. /\ assembled'.call = assembled.call
          /\ assembled'.result = assembled.result
          /\ assembled'.stage = "lost"
          /\ assembled'.executed = assembled.executed
      BY <3>1, AssembledFields
    <3>3. IsTransaction(assembled')
      BY <1>2, <1>5, <3>1, <3>2 DEF IsTransaction
    <3>4. QED
      BY <1>2, <1>5, <3>2, <3>3 DEF OldResult, ExecutedBefore, InHandBefore
  <2>3. QED
    BY <1>2, <1>5, <2>1, <2>2 DEF SendRefused
<1>6. CASE UNCHANGED assembled
  BY <1>6 DEF ClientTypeOK, OldResult, ExecutedBefore, InHandBefore
<1>7. CASE Drop
  BY <1>7 DEF Drop
<1>8. QED
  BY <1>1, <1>3, <1>4, <1>5, <1>6, <1>7
     DEF ClientNext, Others, clientVars, Calls

(***************************************************************************)
(* What others cannot take away from a call.                               *)
(***************************************************************************)
\* Once initialized, the contract keeps its admin and its resolution, and a
\* commodity that is registered stays so.
LEMMA ConfigurationStays ==
  ASSUME IInv, [Next]_vars
  PROVE  /\ Initialized => Initialized' /\ UNCHANGED <<admin, resolution>>
         /\ Initialized => commodities \subseteq commodities'
         /\ now \in Nat /\ now' \in Nat /\ now <= now'
<1>1. now \in Nat /\ now' \in Nat
  BY NextIInv, OracleAssumption DEF IInv, TypeOK, Timestamp
<1>2. ASSUME NEW caller \in Address,
             \/ \E node \in Address : AddNode(caller, node)
             \/ \E node \in Address : RemoveNode(caller, node)
             \/ \E new \in Thresholds : SetThreshold(caller, new)
             \/ \E new \in Retentions : SetRetention(caller, new)
             \/ \E asset \in Asset : AddCommodity(caller, asset)
      PROVE  /\ UNCHANGED <<now, admin, resolution>>
             /\ commodities \subseteq commodities'
  BY <1>2 DEF AddNode, RemoveNode, SetThreshold, SetRetention, AddCommodity
<1>3. ASSUME NEW caller \in Address, NEW length \in Resolutions,
             Initialize(caller, length)
      PROVE  ~Initialized /\ UNCHANGED now
  BY <1>3 DEF Initialize
<1>4. ASSUME \/ \E node \in Address, asset \in Asset, new \in Prices :
                  SubmitPrice(node, asset, new)
             \/ \E asset \in Asset : FinalizePrice(asset)
             \/ UNCHANGED vars
      PROVE  UNCHANGED <<now, admin, resolution, commodities>>
  BY <1>4 DEF SubmitPrice, FinalizePrice, vars, config
<1>5. CASE Tick
  BY <1>1, <1>5 DEF Tick, config, Initialized
<1>6. QED
  BY <1>1, <1>2, <1>3, <1>4, <1>5 DEF Next, Initialized

\* What a simulation that succeeded has seen and nobody can undo.
Prepared(call) ==
  CASE call.method = "initialize" -> call.resolution # 0
    [] call.method \in {"add_node", "remove_node", "set_threshold",
                        "add_commodity"} -> IsAdmin(call.admin)
    [] call.method = "set_retention" -> IsAdmin(call.admin) /\ call.retention # 0
    [] call.method = "submit_price" -> /\ Initialized
                                       /\ call.asset \in commodities
                                       /\ ~(call.price <= 0)
    [] call.method \in {"finalize_price", "extend_instance_ttl"} -> Initialized

\* The answers of the administration calls.
LEMMA AdminAnswers ==
  ASSUME NEW caller, NEW answer
  PROVE  /\ IsAdmin(caller) => AdminAnswer(caller, answer) = answer
         /\ Initialized /\ caller # admin =>
              AdminAnswer(caller, answer) = Err("NotAdmin")
         /\ ~Initialized => AdminAnswer(caller, answer) = Err("NotInitialized")
BY DEF AdminAnswer, IsAdmin

LEMMA AdminStatus ==
  ASSUME NEW caller, NEW answer
  PROVE  AdminAnswer(caller, answer).status \in {"Ok", "InvalidThreshold",
                                          "CommodityAlreadyExists"}
           => IsAdmin(caller) /\ AdminAnswer(caller, answer) = answer
BY DEF AdminAnswer, IsAdmin, Err

LEMMA SimulationPrepares ==
  \A call \in Writes : Answer(call).status = "Ok" => Prepared(call)
<1> SUFFICES ASSUME NEW call \in Writes, Answer(call).status = "Ok"
             PROVE  Prepared(call)
  OBVIOUS
<1>1. CASE call.method = "initialize"
  BY <1>1, AnswerOf DEF InitializeAnswer, Err, Prepared
<1>2. CASE call.method \in {"add_node", "remove_node", "set_threshold",
                            "add_commodity"}
  <2>1. IsAdmin(call.admin)
    BY <1>2, AnswerOf, AdminStatus
  <2>2. QED
    BY <1>2, <2>1 DEF Prepared
<1>3. CASE call.method = "set_retention"
  <2>1. IsAdmin(call.admin) /\ RetentionAnswer(call.retention).status = "Ok"
    BY <1>3, AnswerOf, AdminStatus
  <2>2. QED
    BY <1>3, <2>1 DEF RetentionAnswer, Err, Prepared
<1>4. CASE call.method = "submit_price"
  <2>1. SubmitAnswer(call.node, call.asset, call.price).status = "Ok"
    BY <1>4, AnswerOf
  <2>2. QED
    BY <1>4, <2>1 DEF SubmitAnswer, Err, Prepared
<1>5. CASE call.method = "finalize_price"
  <2>1. FinalizeAnswer(call.asset).status = "Ok"
    BY <1>5, AnswerOf
  <2>2. Initialized
    BY <2>1 DEF FinalizeAnswer, Err
  <2>3. QED
    BY <1>5, <2>2 DEF Prepared
<1>6. CASE call.method = "extend_instance_ttl"
  BY <1>6, AnswerOf DEF ExtendAnswer, Err, Prepared
<1>7. QED
  BY <1>1, <1>2, <1>3, <1>4, <1>5, <1>6, WriteTypes

LEMMA PreparedStays ==
  ASSUME IInv, [Next]_vars, NEW call \in Writes, Prepared(call)
  PROVE  Prepared(call)'
<1>1. /\ Initialized => Initialized'
      /\ IsAdmin(call.admin) => IsAdmin(call.admin)'
      /\ Initialized /\ call.asset \in commodities => call.asset \in commodities'
  BY ConfigurationStays DEF IsAdmin
<1>2. QED
  BY <1>1, WriteTypes DEF Prepared

\* A call that was prepared meets nothing worse than being overtaken.
LEMMA PreparedOvertaken ==
  ASSUME NEW call \in Writes, Prepared(call)
  PROVE  Answer(call).status \in {"Ok"} \union Overtaken(call)
<1>1. CASE call.method = "initialize"
  <2>1. InitializeAnswer(call.resolution).status \in {"Ok", "AlreadyInitialized"}
    BY <1>1 DEF InitializeAnswer, Ok, Err, Prepared
  <2>2. QED
    BY <1>1, <2>1, AnswerOf DEF Overtaken
<1>2. CASE call.method \in {"add_node", "remove_node"}
  <2>1. Answer(call) = Ok(<<>>)
    BY <1>2, AnswerOf, AdminAnswers DEF Prepared
  <2>2. QED
    BY <2>1 DEF Ok
<1>3. CASE call.method = "set_threshold"
  <2>1. Answer(call) = ThresholdAnswer(call.threshold)
    BY <1>3, AnswerOf, AdminAnswers DEF Prepared
  <2>2. QED
    BY <1>3, <2>1 DEF ThresholdAnswer, Ok, Err, Overtaken
<1>4. CASE call.method = "add_commodity"
  <2>1. Answer(call) = CommodityAnswer(call.asset)
    BY <1>4, AnswerOf, AdminAnswers DEF Prepared
  <2>2. QED
    BY <1>4, <2>1 DEF CommodityAnswer, Ok, Err, Overtaken
<1>5. CASE call.method = "set_retention"
  <2>1. Answer(call) = RetentionAnswer(call.retention) /\ call.retention # 0
    BY <1>5, AnswerOf, AdminAnswers DEF Prepared
  <2>2. QED
    BY <2>1 DEF RetentionAnswer, Ok
<1>6. CASE call.method = "submit_price"
  <2>1. SubmitAnswer(call.node, call.asset, call.price).status
          \in {"Ok", "NotAuthorizedNode", "DuplicateSubmission"}
    BY <1>6 DEF Prepared, SubmitAnswer, Ok, Err
  <2>2. QED
    BY <1>6, <2>1, AnswerOf DEF Overtaken
<1>7. CASE call.method = "finalize_price"
  <2>1. FinalizeAnswer(call.asset).status
          \in {"Ok", "NoPendingSubmissions", "ThresholdNotMet", "InvalidPrice"}
    BY <1>7 DEF Prepared, FinalizeAnswer, Ok, Err
  <2>2. QED
    BY <1>7, <2>1, AnswerOf DEF Overtaken
<1>8. CASE call.method = "extend_instance_ttl"
  <2>1. Answer(call) = Ok(<<>>)
    BY <1>8, AnswerOf DEF Prepared, ExtendAnswer
  <2>2. QED
    BY <2>1 DEF Ok
<1>9. QED
  BY <1>1, <1>2, <1>3, <1>4, <1>5, <1>6, <1>7, <1>8, WriteTypes

\* An answer the application may take as final is never taken back.
LEMMA FinalStays ==
  ASSUME IInv, [Next]_vars, NEW call \in Calls, Answer(call).status \in Final(call)
  PROVE  Answer(call)'.status = Answer(call).status
<1>1. CASE call.method = "initialize"
  <2>1. InitializeAnswer(call.resolution).status = "AlreadyInitialized"
    BY <1>1, AnswerOf DEF Final
  <2>2. Initialized /\ Initialized'
    BY <2>1, ConfigurationStays DEF InitializeAnswer, Ok, Err
  <2>3. InitializeAnswer(call.resolution)'.status = "AlreadyInitialized"
    BY <2>2 DEF InitializeAnswer, Err
  <2>4. QED
    BY <1>1, <2>1, <2>3 DEF Answer
<1> DEFINE Administration == {"add_node", "remove_node", "set_threshold",
                              "add_commodity", "set_retention"}
<1>2. ASSUME call.method \in Administration, Initialized, call.admin # admin
      PROVE  /\ Answer(call).status = "NotAdmin"
             /\ Answer(call)'.status = "NotAdmin"
  <2>1. Initialized' /\ call.admin # admin'
    BY <1>2, ConfigurationStays
  <2>2. Answer(call) = Err("NotAdmin") /\ Answer(call)' = Err("NotAdmin")
    BY <1>2, <2>1 DEF Answer, AdminAnswer, Err
  <2>3. QED
    BY <2>2 DEF Err
<1>3. ASSUME call.method \in Administration, ~Initialized
      PROVE  FALSE
  <2>1. Answer(call) = Err("NotInitialized")
    BY <1>3, AnswerOf, AdminAnswers
  <2>2. QED
    BY <1>3, <2>1 DEF Err, Final
<1>4. CASE call.method \in {"add_node", "remove_node", "set_threshold"}
  <2>1. IsAdmin(call.admin) => Answer(call).status # "NotAdmin"
    BY <1>4, AnswerOf, AdminAnswers DEF ThresholdAnswer, Ok, Err
  <2>2. Answer(call).status = "NotAdmin"
    BY <1>4 DEF Final
  <2>3. QED
    BY <1>2, <1>3, <1>4, <2>1, <2>2 DEF IsAdmin
<1>5. CASE call.method = "add_commodity"
  <2>1. CASE IsAdmin(call.admin)
    <3>1. CommodityAnswer(call.asset).status \in {"NotAdmin", "CommodityAlreadyExists"}
      BY <1>5, <2>1, AnswerOf, AdminAnswers DEF Final
    <3>2. call.asset \in commodities /\ call.asset \in commodities'
      BY <2>1, <3>1, ConfigurationStays DEF CommodityAnswer, Ok, IsAdmin
    <3>3. IsAdmin(call.admin)'
      BY <2>1, ConfigurationStays DEF IsAdmin
    <3>4. Answer(call)' = Err("CommodityAlreadyExists")
      BY <1>5, <3>2, <3>3 DEF Answer, AdminAnswer, CommodityAnswer, IsAdmin, Err
    <3>5. Answer(call) = Err("CommodityAlreadyExists")
      BY <1>5, <2>1, <3>2, AnswerOf, AdminAnswers DEF CommodityAnswer
    <3>6. QED
      BY <3>4, <3>5
  <2>2. QED
    BY <1>2, <1>3, <1>5, <2>1 DEF IsAdmin
<1>6. CASE call.method = "set_retention"
  <2>1. CASE IsAdmin(call.admin)
    <3>1. RetentionAnswer(call.retention).status \in {"NotAdmin", "InvalidThreshold"}
      BY <1>6, <2>1, AnswerOf, AdminAnswers DEF Final
    <3>2. call.retention = 0
      BY <3>1 DEF RetentionAnswer, Ok
    <3>3. IsAdmin(call.admin)'
      BY <2>1, ConfigurationStays DEF IsAdmin
    <3>4. Answer(call)' = Err("InvalidThreshold")
      BY <1>6, <3>2, <3>3 DEF Answer, AdminAnswer, RetentionAnswer, IsAdmin, Err
    <3>5. Answer(call) = Err("InvalidThreshold")
      BY <1>6, <2>1, <3>2, AnswerOf, AdminAnswers DEF RetentionAnswer
    <3>6. QED
      BY <3>4, <3>5
  <2>2. QED
    BY <1>2, <1>3, <1>6, <2>1 DEF IsAdmin
<1>7. QED
  BY <1>1, <1>4, <1>5, <1>6 DEF Final

(***************************************************************************)
(* What becomes of a submission and of the latest price.                   *)
(***************************************************************************)
\* Only a finalization of the asset takes its pending submissions away or
\* touches its history.
LEMMA AssetStep ==
  ASSUME IInv, [Next]_vars, NEW asset \in Asset
  PROVE  \/ FinalizePrice(asset)
         \/ /\ history'[asset] = history[asset]
            /\ \A i \in DOMAIN pending[asset] :
                 i \in DOMAIN pending'[asset] /\ pending'[asset][i] = pending[asset][i]
<1>0. /\ pending \in [Asset -> Seq(Submission)]
      /\ history \in [Asset -> Seq(PriceData)]
  BY DEF IInv, TypeOK
<1>1. ASSUME NEW node \in Address, NEW other \in Asset, NEW value \in Prices,
             SubmitPrice(node, other, value)
      PROVE  /\ history'[asset] = history[asset]
             /\ \A i \in DOMAIN pending[asset] :
                  /\ i \in DOMAIN pending'[asset]
                  /\ pending'[asset][i] = pending[asset][i]
  <2> DEFINE new == [node |-> node, price |-> value, submitted_at |-> now]
  <2>1. /\ pending' = [pending EXCEPT ![other] = Append(pending[other], new)]
        /\ history' = history
    BY <1>1 DEF SubmitPrice
  <2> HIDE DEF new
  <2>2. CASE other = asset
    <3>1. pending'[asset] = Append(pending[asset], new)
      BY <1>0, <2>1, <2>2
    <3>2. pending[asset] \in Seq(Submission)
      BY <1>0
    <3>3. \A i \in DOMAIN pending[asset] :
            /\ i \in DOMAIN Append(pending[asset], new)
            /\ Append(pending[asset], new)[i] = pending[asset][i]
      BY <3>2
    <3>4. QED
      BY <2>1, <3>1, <3>3
  <2>3. CASE other # asset
    BY <1>0, <2>1, <2>3
  <2>4. QED
    BY <2>2, <2>3
<1>2. ASSUME NEW other \in Asset, FinalizePrice(other), other # asset
      PROVE  history'[asset] = history[asset] /\ pending'[asset] = pending[asset]
  BY <1>0, <1>2 DEF FinalizePrice
<1>3. ASSUME NEW caller \in Address,
             \/ \E length \in Resolutions : Initialize(caller, length)
             \/ \E node \in Address : AddNode(caller, node)
             \/ \E node \in Address : RemoveNode(caller, node)
             \/ \E new \in Thresholds : SetThreshold(caller, new)
             \/ \E new \in Retentions : SetRetention(caller, new)
             \/ \E other \in Asset : AddCommodity(caller, other)
      PROVE  UNCHANGED <<pending, history>>
  BY <1>3 DEF Initialize, AddNode, RemoveNode, SetThreshold, SetRetention,
              AddCommodity
<1>4. ASSUME Tick \/ UNCHANGED vars
      PROVE  UNCHANGED <<pending, history>>
  BY <1>4 DEF Tick, vars
<1>5. QED
  BY <1>1, <1>2, <1>3, <1>4 DEF Next

\* The latest record of an asset carries the start of a window that has begun.
LEMMA LatestType ==
  ASSUME IInv, NEW asset \in Asset, history[asset] # <<>>
  PROVE  /\ Last(history[asset]).timestamp \in Nat
         /\ Last(history[asset]).timestamp <= RoundToWindow(now)
<1> DEFINE n == Len(history[asset])
<1>1. history[asset] \in Seq(PriceData)
  BY DEF IInv, TypeOK
<1>2. n \in DOMAIN history[asset] /\ history[asset][n] \in PriceData
  BY <1>1, EmptySeq
<1>3. history[asset][n].timestamp \in Nat
  BY <1>2, OracleAssumption DEF PriceData, Timestamp
<1>4. /\ history[asset][n].timestamp <= now
      /\ RoundToWindow(history[asset][n].timestamp) = history[asset][n].timestamp
  BY <1>2 DEF IInv, HistoryOrdered
<1>5. resolution \in Nat /\ now \in Nat
  BY ResolutionType DEF IInv
<1>6. history[asset][n].timestamp <= RoundToWindow(now)
  BY <1>3, <1>4, <1>5, Rounding
<1>7. QED
  BY <1>3, <1>6 DEF Last

\* A finalization makes the current window's price the latest.
LEMMA LatestAfterFinalize ==
  ASSUME IInv, NEW asset \in Asset, FinalizePrice(asset)
  PROVE  /\ history'[asset] # <<>>
         /\ Last(history'[asset]).timestamp = RoundToWindow(now)
BY FinalizedHistory, FinalRecordProperties DEF IInv, FinalizePrice, ThresholdMet

\* No step makes the latest record disappear or replaces it with an older one.
LEMMA LatestAdvances ==
  ASSUME IInv, [Next]_vars, NEW asset \in Asset, history[asset] # <<>>
  PROVE  /\ history'[asset] # <<>>
         /\ Last(history[asset]).timestamp <= Last(history'[asset]).timestamp
<1>1. CASE FinalizePrice(asset)
  BY <1>1, LatestType, LatestAfterFinalize
<1>2. CASE history'[asset] = history[asset]
  BY <1>2, LatestType
<1>3. QED
  BY <1>1, <1>2, AssetStep

(***************************************************************************)
(* The trace that an execution leaves behind.                              *)
(***************************************************************************)
\* A submission recorded at ts is pending, or the asset has a price of that
\* window or a later one.
Received(node, asset, ts) ==
  /\ Initialized
  /\ ts <= now
  /\ \/ \E i \in DOMAIN pending[asset] : /\ pending[asset][i].node = node
                                         /\ pending[asset][i].submitted_at = ts
     \/ /\ history[asset] # <<>>
        /\ RoundToWindow(ts) <= Last(history[asset]).timestamp

Done(call, ts) ==
  CASE call.method = "initialize"    -> Initialized
    [] call.method = "add_commodity" -> Initialized /\ call.asset \in commodities
    [] call.method = "submit_price"  -> Received(call.node, call.asset, ts)
    [] OTHER                         -> TRUE

LEMMA SubmitReceived ==
  ASSUME IInv, NEW node \in Address, NEW asset \in Asset, NEW value \in Prices,
         SubmitPrice(node, asset, value), NEW ts, ts = now
  PROVE  Received(node, asset, ts)'
<1> DEFINE new == [node |-> node, price |-> value, submitted_at |-> now]
<1> DEFINE n == Len(pending[asset]) + 1
<1>1. /\ pending' = [pending EXCEPT ![asset] = Append(pending[asset], new)]
      /\ UNCHANGED <<now, admin>> /\ Initialized
  BY DEF SubmitPrice, config
<1>2. /\ pending \in [Asset -> Seq(Submission)] /\ now \in Nat
  BY ResolutionType DEF IInv, TypeOK
<1>3. /\ new.node = node /\ new.submitted_at = now
  OBVIOUS
<1> HIDE DEF new
<1>4. /\ pending'[asset] = Append(pending[asset], new)
      /\ pending[asset] \in Seq(Submission)
  BY <1>1, <1>2
<1>5. n \in DOMAIN pending'[asset] /\ pending'[asset][n] = new
  BY <1>4
<1>6. Initialized' /\ ts <= now'
  BY <1>1, <1>2 DEF Initialized
<1> HIDE DEF n
<1>7. QED
  BY <1>1, <1>3, <1>5, <1>6 DEF Received

LEMMA ReceivedStays ==
  ASSUME IInv, [Next]_vars, NEW node, NEW asset \in Asset, NEW ts \in Nat,
         Received(node, asset, ts)
  PROVE  Received(node, asset, ts)'
<1>1. /\ Initialized' /\ resolution' = resolution
      /\ ts <= now /\ ts <= now' /\ now \in Nat
  BY ConfigurationStays DEF Received
<1>2. RoundToWindow(ts)' = RoundToWindow(ts)
  BY <1>1 DEF RoundToWindow
<1>3. resolution \in Nat
  BY ResolutionType DEF IInv
<1>4. RoundToWindow(ts) \in Nat /\ RoundToWindow(ts) <= RoundToWindow(now)
  BY <1>1, <1>3, Rounding
<1>5. CASE FinalizePrice(asset)
  <2>1. /\ history'[asset] # <<>>
        /\ RoundToWindow(ts) <= Last(history'[asset]).timestamp
    BY <1>4, <1>5, LatestAfterFinalize
  <2>2. QED
    BY <1>1, <1>2, <2>1 DEF Received
<1>6. CASE /\ history'[asset] = history[asset]
           /\ \A i \in DOMAIN pending[asset] :
                /\ i \in DOMAIN pending'[asset]
                /\ pending'[asset][i] = pending[asset][i]
  BY <1>1, <1>2, <1>6 DEF Received
<1>7. QED
  BY <1>5, <1>6, AssetStep

\* A submission that was received is refused for the rest of its window, until
\* a price of the window has been published.
LEMMA ReceivedRefused ==
  ASSUME IInv, NEW node, NEW asset \in Asset, NEW ts \in Nat,
         Received(node, asset, ts), ~IsDuplicate(node, asset),
         RoundToWindow(ts) = RoundToWindow(now)
  PROVE  /\ history[asset] # <<>>
         /\ Last(history[asset]).timestamp = RoundToWindow(now)
<1>1. resolution \in Nat /\ now \in Nat
  BY ResolutionType DEF IInv
<1>2. RoundToWindow(now) \in Nat /\ RoundToWindow(now) <= ts
  BY <1>1, Rounding
<1>3. ~ \E i \in DOMAIN pending[asset] : /\ pending[asset][i].node = node
                                         /\ pending[asset][i].submitted_at = ts
  BY <1>2 DEF IsDuplicate
<1>4. /\ history[asset] # <<>>
      /\ RoundToWindow(now) <= Last(history[asset]).timestamp
  BY <1>3 DEF Received
<1>5. QED
  BY <1>2, <1>4, LatestType

LEMMA ExecuteDone ==
  ASSUME IInv, NEW call \in Writes, Execute(call), NEW ts, ts = now
  PROVE  Done(call, ts)'
<1>1. CASE call \in initialize /\ call.method = "initialize"
  <2>1. call.admin # NoAddress
    BY <1>1, OracleAssumption DEF initialize
  <2>2. QED
    BY <1>1, <2>1 DEF Execute, Initialize, Done, Initialized
<1>2. CASE call.method = "add_commodity"
  BY <1>2 DEF Execute, AddCommodity, IsAdmin, Done, Initialized
<1>3. CASE call \in submit_price /\ call.method = "submit_price"
  <2>1. call.node \in Address /\ call.asset \in Asset /\ call.price \in Prices
    BY <1>3 DEF submit_price
  <2>2. SubmitPrice(call.node, call.asset, call.price)
    BY <1>3 DEF Execute
  <2>3. Received(call.node, call.asset, ts)'
    BY <2>1, <2>2, SubmitReceived
  <2>4. QED
    BY <1>3, <2>3 DEF Done
<1>4. QED
  BY <1>1, <1>2, <1>3, WriteTypes DEF Done

LEMMA DoneStays ==
  ASSUME IInv, [Next]_vars, NEW call \in Calls, NEW ts \in Nat, Done(call, ts)
  PROVE  Done(call, ts)'
<1>1. CASE call.method = "initialize"
  BY <1>1, ConfigurationStays DEF Done
<1>2. CASE call.method = "add_commodity"
  BY <1>2, ConfigurationStays DEF Done
<1>3. CASE call \in submit_price /\ call.method = "submit_price"
  <2>1. call.asset \in Asset
    BY <1>3 DEF submit_price
  <2>2. Received(call.node, call.asset, ts)'
    BY <1>3, <2>1, ReceivedStays DEF Done
  <2>3. QED
    BY <1>3, <2>2 DEF Done
<1>4. QED
  BY <1>1, <1>2, <1>3, WriteTypes, ReadTypes DEF Done, Calls

\* What has left its trace succeeds again only where it does no harm.
LEMMA DoneRefused ==
  ASSUME IInv, NEW call \in Calls, NEW ts \in Nat, Done(call, ts),
         Answer(call).status = "Ok"
  PROVE  CASE call.method \in {"initialize", "add_commodity"} -> FALSE
           [] call.method = "submit_price" ->
                RoundToWindow(ts) = RoundToWindow(now) =>
                  LET last == LastPrice(call.asset)
                  IN  last # None /\ last[1].timestamp = RoundToWindow(now)
           [] OTHER -> TRUE
<1>1. CASE call.method = "initialize"
  BY <1>1, AnswerOf DEF Done, InitializeAnswer, Err
<1>2. CASE call.method = "add_commodity"
  <2>1. CommodityAnswer(call.asset).status = "Ok"
    BY <1>2, AnswerOf, AdminStatus
  <2>2. QED
    BY <1>2, <2>1 DEF Done, CommodityAnswer, Err
<1>3. CASE call \in submit_price /\ call.method = "submit_price"
  <2>1. call.asset \in Asset
    BY <1>3 DEF submit_price
  <2>2. SubmitAnswer(call.node, call.asset, call.price).status = "Ok"
    BY <1>3, AnswerOf
  <2>3. ~IsDuplicate(call.node, call.asset)
    BY <2>2 DEF SubmitAnswer, Err
  <2>4. SUFFICES ASSUME RoundToWindow(ts) = RoundToWindow(now)
                 PROVE  /\ LastPrice(call.asset) # None
                        /\ LastPrice(call.asset)[1].timestamp = RoundToWindow(now)
    BY <1>3
  <2>5. /\ history[call.asset] # <<>>
        /\ Last(history[call.asset]).timestamp = RoundToWindow(now)
    BY <1>3, <2>1, <2>3, <2>4, ReceivedRefused DEF Done
  <2>6. LastPrice(call.asset) = <<Last(history[call.asset])>>
    BY <2>5 DEF LastPrice, Some
  <2>7. QED
    BY <2>5, <2>6 DEF None
<1>4. QED
  BY <1>1, <1>2, <1>3, WriteTypes, ReadTypes DEF Calls

(***************************************************************************)
(* The inductive invariant: the contract's, and what the transaction in    *)
(* hand knows of it.                                                       *)
(***************************************************************************)
SimulatedIsPrepared == ReadyToSend => Prepared(assembled.call)

ExecutedIsDone ==
  assembled # NoTransaction /\ assembled.executed # NotYet =>
    Done(assembled.call, assembled.executed)

\* A price that was read is a record.
ReadsStamped ==
  (/\ assembled # NoTransaction
   /\ assembled.call \in lastprice
   /\ assembled.result.value # None) =>
     assembled.result.value[1].timestamp \in Nat

\* A final error that was read is the contract's answer still.
FinalStillAnswered ==
  (/\ assembled # NoTransaction
   /\ assembled.result.status \in Final(assembled.call)) =>
     Answer(assembled.call).status = assembled.result.status

ClientIInv ==
  /\ IInv
  /\ ClientTypeOK
  /\ SimulatedIsPrepared
  /\ FinalStillAnswered
  /\ ExecutedIsDone
  /\ ReadsStamped
  /\ ReadsNeverGoBack

LEMMA ClientInitIInv == ClientInit => ClientIInv
BY InitIInv DEF ClientInit, ClientIInv, ClientTypeOK, SimulatedIsPrepared,
                ReadyToSend, FinalStillAnswered, ExecutedIsDone, ReadsStamped,
                ReadsNeverGoBack

LEMMA SimulationPreparesAfter ==
  (\A call \in Writes : Answer(call).status = "Ok" => Prepared(call))'
BY SimulationPrepares, PTL

\* What lastprice answers.
LEMMA LastPriceRead ==
  IInv => \A asset \in Asset :
    /\ Ok(LastPrice(asset)).value = LastPrice(asset)
    /\ LastPrice(asset) # None <=> history[asset] # <<>>
    /\ LastPrice(asset) # None =>
         /\ LastPrice(asset)[1].timestamp = Last(history[asset]).timestamp
         /\ LastPrice(asset)[1].timestamp \in Nat
<1> SUFFICES ASSUME IInv, NEW asset \in Asset
             PROVE  /\ Ok(LastPrice(asset)).value = LastPrice(asset)
                    /\ LastPrice(asset) # None <=> history[asset] # <<>>
                    /\ LastPrice(asset) # None =>
                         /\ LastPrice(asset)[1].timestamp
                              = Last(history[asset]).timestamp
                         /\ LastPrice(asset)[1].timestamp \in Nat
  OBVIOUS
<1>1. Ok(LastPrice(asset)).value = LastPrice(asset)
  BY DEF Ok
<1>2. CASE history[asset] = <<>>
  BY <1>1, <1>2 DEF LastPrice, None
<1>3. CASE history[asset] # <<>>
  <2>1. LastPrice(asset) = <<Last(history[asset])>>
    BY <1>3 DEF LastPrice, Some
  <2>2. LastPrice(asset) # None /\ LastPrice(asset)[1] = Last(history[asset])
    BY <2>1 DEF None
  <2>3. QED
    BY <1>1, <1>3, <2>2, LatestType
<1>4. QED
  BY <1>2, <1>3

LEMMA LastPriceReadAfter ==
  (IInv => \A asset \in Asset :
     /\ Ok(LastPrice(asset)).value = LastPrice(asset)
     /\ LastPrice(asset) # None <=> history[asset] # <<>>
     /\ LastPrice(asset) # None =>
          /\ LastPrice(asset)[1].timestamp = Last(history[asset]).timestamp
          /\ LastPrice(asset)[1].timestamp \in Nat)'
BY LastPriceRead, PTL

\* A read that is made now, or was right before the step, is right after it.
LEMMA ReadsStep ==
  ASSUME ClientIInv, IInv', [Next]_vars,
         FreshResult \/ AnsweredNow \/ OldResult,
         assembled'.call \in lastprice, assembled'.result.value # None
  PROVE  /\ assembled'.result.value[1].timestamp \in Nat
         /\ LastPrice(assembled.call.asset)' # None
         /\ assembled'.result.value[1].timestamp
              <= LastPrice(assembled.call.asset)'[1].timestamp
<1> DEFINE asset == assembled'.call.asset
<1>1. /\ asset \in Asset /\ assembled'.call.method = "lastprice"
      /\ assembled'.call \in Reads
  BY DEF lastprice, Reads
<1>2. CASE FreshResult
  <2>1. Answer(assembled.call)' = Ok(LastPrice(assembled.call.asset))'
    BY <1>1 DEF Answer
  <2>2. assembled'.result.value = LastPrice(assembled.call.asset)'
    BY <1>1, <1>2, <2>1, LastPriceReadAfter DEF FreshResult
  <2>3. LastPrice(assembled.call.asset)'[1].timestamp \in Nat
    BY <1>1, <2>2, LastPriceReadAfter DEF None
  <2>4. QED
    BY <2>2, <2>3 DEF None
<1>3. CASE AnsweredNow
  BY <1>1, <1>3, ReadsAreNotWrites DEF AnsweredNow
<1>4. CASE OldResult
  <2>1. /\ assembled # NoTransaction /\ assembled.call = assembled'.call
        /\ assembled.result = assembled'.result
    BY <1>4 DEF OldResult, InHandBefore
  <2>2. /\ assembled'.result.value[1].timestamp \in Nat
        /\ LastPrice(asset) # None
        /\ assembled'.result.value[1].timestamp <= LastPrice(asset)[1].timestamp
    BY <2>1 DEF ClientIInv, ReadsStamped, ReadsNeverGoBack
  <2>3. IInv
    BY DEF ClientIInv
  <2>4. /\ history[asset] # <<>>
        /\ LastPrice(asset)[1].timestamp = Last(history[asset]).timestamp
        /\ LastPrice(asset)[1].timestamp \in Nat
    BY <1>1, <2>2, <2>3, LastPriceRead
  <2>5. /\ history'[asset] # <<>>
        /\ Last(history[asset]).timestamp <= Last(history'[asset]).timestamp
    BY <1>1, <2>3, <2>4, LatestAdvances
  <2>6. /\ LastPrice(assembled.call.asset)' # None
        /\ LastPrice(assembled.call.asset)'[1].timestamp
             = Last(history'[asset]).timestamp
        /\ LastPrice(assembled.call.asset)'[1].timestamp \in Nat
    BY <1>1, <2>5, LastPriceReadAfter DEF None
  <2>7. QED
    BY <2>2, <2>4, <2>5, <2>6
<1>5. QED
  BY <1>2, <1>3, <1>4

LEMMA ClientNextIInv ==
  ASSUME ClientIInv, [ClientNext]_clientVars
  PROVE  ClientIInv'
<1>1. IInv /\ ClientTypeOK /\ [Next]_vars /\ now \in Timestamp
  BY ClientSteps DEF ClientIInv, IInv, TypeOK
<1>2. IInv'
  BY <1>1, NextIInv
<1>3. CASE assembled' = NoTransaction
  BY <1>2, <1>3 DEF ClientIInv, ClientTypeOK, SimulatedIsPrepared, ReadyToSend,
                    FinalStillAnswered, ExecutedIsDone, ReadsStamped,
                    ReadsNeverGoBack
<1>4. CASE assembled' # NoTransaction
  <2>1. /\ IsTransaction(assembled')
        /\ FreshResult \/ AnsweredNow \/ OldResult
        /\ \/ assembled'.executed = NotYet
           \/ assembled'.call \in Writes /\ ExecutedNow
           \/ ExecutedBefore
    BY <1>1, <1>4, TransactionStep
  <2>2. assembled'.call \in Calls
    BY <2>1 DEF IsTransaction
  <2>3. ClientTypeOK'
    BY <2>1 DEF ClientTypeOK, IsTransaction
  <2>4. SimulatedIsPrepared'
    <3>1. SUFFICES ASSUME assembled'.call \in Writes, assembled'.stage = "simulated",
                          assembled'.result.status = "Ok"
                   PROVE  Prepared(assembled.call)'
      BY DEF SimulatedIsPrepared, ReadyToSend
    <3>2. CASE FreshResult
      BY <3>1, <3>2, SimulationPreparesAfter DEF FreshResult
    <3>3. CASE OldResult
      <4>1. Prepared(assembled'.call)
        BY <3>1, <3>3 DEF OldResult, InHandBefore, ClientIInv,
                          SimulatedIsPrepared, ReadyToSend
      <4>2. QED
        BY <1>1, <3>1, <4>1, PreparedStays
    <3>4. QED
      BY <2>1, <3>1, <3>2, <3>3 DEF AnsweredNow
  <2>5. FinalStillAnswered'
    <3>1. SUFFICES ASSUME assembled'.result.status \in Final(assembled'.call)
                   PROVE  Answer(assembled.call)'.status = assembled'.result.status
      BY DEF FinalStillAnswered
    <3>2. CASE FreshResult
      BY <3>2 DEF FreshResult
    <3>3. CASE AnsweredNow
      BY <3>1, <3>3 DEF AnsweredNow, Final
    <3>4. CASE OldResult
      <4>1. Answer(assembled'.call).status = assembled'.result.status
        BY <3>1, <3>4
           DEF OldResult, InHandBefore, ClientIInv, FinalStillAnswered
      <4>2. QED
        BY <1>1, <2>2, <3>1, <4>1, FinalStays
    <3>5. QED
      BY <2>1, <3>2, <3>3, <3>4
  <2>6. ExecutedIsDone'
    <3>1. SUFFICES ASSUME assembled'.executed # NotYet
                   PROVE  Done(assembled.call, assembled.executed)'
      BY DEF ExecutedIsDone
    <3>2. assembled'.executed \in Nat
      BY <2>1, <3>1, OracleAssumption DEF IsTransaction, Timestamp
    <3>3. CASE assembled'.call \in Writes /\ ExecutedNow
      BY <1>1, <3>3, ExecuteDone DEF ExecutedNow
    <3>4. CASE ExecutedBefore
      <4>1. Done(assembled'.call, assembled'.executed)
        BY <3>1, <3>4 DEF ExecutedBefore, InHandBefore, ClientIInv, ExecutedIsDone
      <4>2. QED
        BY <1>1, <2>2, <3>2, <4>1, DoneStays
    <3>5. QED
      BY <2>1, <3>1, <3>3, <3>4
  <2>7. ReadsStamped' /\ ReadsNeverGoBack'
    BY <1>1, <1>2, <2>1, ReadsStep DEF ReadsStamped, ReadsNeverGoBack
  <2>8. QED
    BY <1>2, <2>3, <2>4, <2>5, <2>6, <2>7 DEF ClientIInv
<1>5. QED
  BY <1>3, <1>4

LEMMA ClientInvariance == ClientSpec => []ClientIInv
<1>1. QED
  BY ClientInitIInv, ClientNextIInv, PTL DEF ClientSpec

(***************************************************************************)
(* Whatever a client does, the oracle behaves as the contract alone        *)
(* allows: its theorems hold beside the client too.                        *)
(***************************************************************************)
LEMMA ClientFollowsContract == ClientSpec => Spec
<1>1. ClientInit => Init
  BY DEF ClientInit
<1>2. [ClientNext]_clientVars => [Next]_vars
  BY ClientSteps
<1>3. QED
  BY <1>1, <1>2, PTL DEF ClientSpec, Spec

(***************************************************************************)
(* Between a simulation that succeeds and the execution, others can cause  *)
(* the errors in Overtaken and no other: nothing takes add_node,           *)
(* remove_node, set_retention and extend_instance_ttl away from the admin. *)
(***************************************************************************)
THEOREM ClientForecastHolds == ClientSpec => []ForecastHolds
<1>1. ClientIInv => ForecastHolds
  <2> SUFFICES ASSUME ClientIInv, ReadyToSend
               PROVE  Answer(assembled.call).status
                        \in {"Ok"} \union Overtaken(assembled.call)
    BY DEF ForecastHolds
  <2>1. assembled.call \in Writes
    BY DEF ReadyToSend
  <2>2. Prepared(assembled.call)
    BY DEF ClientIInv, SimulatedIsPrepared
  <2>3. QED
    BY <2>1, <2>2, PreparedOvertaken
<1>2. QED
  BY <1>1, ClientInvariance, PTL

(***************************************************************************)
(* The client's table gives every error of the contract its own name, and  *)
(* the errors in Final are final: the application that reads one may give  *)
(* up.                                                                     *)
(***************************************************************************)
THEOREM ClientFinalErrors == ClientSpec => []FinalErrors
<1>1. ClientIInv => FinalErrors
  BY ResultIsAnswer DEF ClientIInv, ClientTypeOK, IsTransaction,
                        FinalStillAnswered, FinalErrors
<1>2. QED
  BY <1>1, ClientInvariance, PTL

(***************************************************************************)
(* An initialize, a commodity or a submission that is retried after its    *)
(* answer was lost is not executed twice; the retried submission gets      *)
(* through in its window only once the first copy has made it into a       *)
(* price of that window.                                                   *)
(***************************************************************************)
THEOREM ClientRetriesRefused == ClientSpec => []RetriesRefused
<1>1. ClientIInv => RetriesRefused
  <2> SUFFICES ASSUME ClientIInv, assembled # NoTransaction,
                      assembled.executed # NotYet,
                      Answer(assembled.call).status = "Ok"
               PROVE  RetriesRefused
    BY DEF RetriesRefused
  <2>1. assembled.call \in Calls /\ assembled.executed \in Nat
    BY OracleAssumption DEF ClientIInv, ClientTypeOK, IsTransaction, Timestamp
  <2>2. IInv /\ Done(assembled.call, assembled.executed)
    BY DEF ClientIInv, ExecutedIsDone
  <2>3. QED
    BY <2>1, <2>2, DoneRefused DEF RetriesRefused
<1>2. QED
  BY <1>1, ClientInvariance, PTL

(***************************************************************************)
(* lastprice never falls back to an older record than one that was read,   *)
(* and never to None, across prunes, retention changes and late            *)
(* finalizations.                                                          *)
(***************************************************************************)
THEOREM ClientReadsNeverGoBack == ClientSpec => []ReadsNeverGoBack
<1>1. ClientIInv => ReadsNeverGoBack
  BY DEF ClientIInv
<1>2. QED
  BY <1>1, ClientInvariance, PTL
=============================================================================
