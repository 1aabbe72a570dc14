---------------------------- MODULE OracleClient ----------------------------
(***************************************************************************)
(* The generated TypeScript client of agrifeed-oracle                      *)
(* (packages/sdk/generated/oracle/src/index.ts) and an application that    *)
(* works through it, beside everybody else who calls the contract.         *)
(*                                                                         *)
(* Each method of the client constructs a transaction and simulates it on  *)
(* the contract's state of that moment: the AssembledTransaction holds the *)
(* simulation's result, which is all there is to a read.  signAndSend()    *)
(* executes a transaction that changes the state later, on whatever the    *)
(* state is then; its answer may get lost, and the application may         *)
(* simulate and send the same call again.                                  *)
(*                                                                         *)
(* decimals and base_asset, and the methods that read them, are left out:  *)
(* the contract stores them once and looks at them never.                  *)
(***************************************************************************)
EXTENDS Oracle

CONSTANTS
  Records,        \* numbers of records asked of prices, 0 included
  NoTransaction

ASSUME OracleClientAssumption == Records \subseteq Nat

VARIABLE assembled   \* NoTransaction, or the AssembledTransaction in hand

clientVars == <<vars, assembled>>
-----------------------------------------------------------------------------
(***************************************************************************)
(* The calls that the client's methods construct transactions for.         *)
(***************************************************************************)
add_node == [method : {"add_node"}, admin : Address, node : Address]

initialize ==
  [method : {"initialize"}, admin : Address, resolution : Resolutions]

remove_node == [method : {"remove_node"}, admin : Address, node : Address]

add_commodity == [method : {"add_commodity"}, admin : Address, asset : Asset]

set_retention ==
  [method : {"set_retention"}, admin : Address, retention : Retentions]

set_threshold ==
  [method : {"set_threshold"}, admin : Address, threshold : Thresholds]

submit_price ==
  [method : {"submit_price"}, node : Address, asset : Asset, price : Prices]

finalize_price == [method : {"finalize_price"}, asset : Asset]

extend_instance_ttl == [method : {"extend_instance_ttl"}, asset : Asset]

price == [method : {"price"}, asset : Asset, timestamp : Timestamp]

assets == [method : {"assets"}]

prices == [method : {"prices"}, asset : Asset, records : Records]

lastprice == [method : {"lastprice"}, asset : Asset]

read_resolution == [method : {"resolution"}]

Reads == price \union assets \union prices \union lastprice \union read_resolution

Writes ==
  UNION {initialize, add_node, remove_node, add_commodity, set_retention,
         set_threshold, submit_price, finalize_price, extend_instance_ttl}
-----------------------------------------------------------------------------
(***************************************************************************)
(* What the contract answers now, in the order the code checks.            *)
(***************************************************************************)
Ok(value) == [status |-> "Ok", value |-> value]
Err(error) == [status |-> error, value |-> <<>>]

InitializeAnswer(length) ==
  IF Initialized THEN Err("AlreadyInitialized")
  ELSE IF length = 0 THEN Err("InvalidThreshold")
  ELSE Ok(<<>>)

\* The two checks every administration call begins with.
AdminAnswer(caller, answer) ==
  IF ~Initialized THEN Err("NotInitialized")
  ELSE IF caller # admin THEN Err("NotAdmin")
  ELSE answer

ThresholdAnswer(new) ==
  IF new = 0 \/ new > Cardinality(nodes)
  THEN Err("InvalidThreshold")
  ELSE Ok(<<>>)

RetentionAnswer(new) == IF new = 0 THEN Err("InvalidThreshold") ELSE Ok(<<>>)

CommodityAnswer(asset) ==
  IF asset \in commodities THEN Err("CommodityAlreadyExists") ELSE Ok(<<>>)

SubmitAnswer(node, asset, submitted) ==
  IF ~Initialized THEN Err("NotInitialized")
  ELSE IF node \notin nodes THEN Err("NotAuthorizedNode")
  ELSE IF asset \notin commodities THEN Err("UnknownCommodity")
  ELSE IF submitted <= 0 THEN Err("InvalidPrice")
  ELSE IF IsDuplicate(node, asset) THEN Err("DuplicateSubmission")
  ELSE Ok(<<>>)

FinalizeAnswer(asset) ==
  IF ~Initialized THEN Err("NotInitialized")
  ELSE IF pending[asset] = <<>> THEN Err("NoPendingSubmissions")
  ELSE IF threshold = 0 THEN Err("ThresholdNotMet")
  ELSE IF Len(pending[asset]) < threshold THEN Err("ThresholdNotMet")
  ELSE IF MedianOverflows(SubmittedPrices(asset)) THEN Err("InvalidPrice")
  ELSE Ok(<<FinalRecord(asset)>>)

ExtendAnswer == IF Initialized THEN Ok(<<>>) ELSE Err("NotInitialized")

Answer(call) ==
  CASE call.method = "initialize"      -> InitializeAnswer(call.resolution)
    [] call.method = "add_node"        -> AdminAnswer(call.admin, Ok(<<>>))
    [] call.method = "remove_node"     -> AdminAnswer(call.admin, Ok(<<>>))
    [] call.method = "set_threshold"   ->
         AdminAnswer(call.admin, ThresholdAnswer(call.threshold))
    [] call.method = "set_retention"   ->
         AdminAnswer(call.admin, RetentionAnswer(call.retention))
    [] call.method = "add_commodity"   ->
         AdminAnswer(call.admin, CommodityAnswer(call.asset))
    [] call.method = "submit_price"    ->
         SubmitAnswer(call.node, call.asset, call.price)
    [] call.method = "finalize_price"  -> FinalizeAnswer(call.asset)
    [] call.method = "extend_instance_ttl" -> ExtendAnswer
    [] call.method = "price"      -> Ok(Price(call.asset, call.timestamp))
    [] call.method = "prices"     -> Ok(PricesRead(call.asset, call.records))
    [] call.method = "lastprice"  -> Ok(LastPrice(call.asset))
    [] call.method = "assets"     -> Ok(<<commodities>>)
    [] call.method = "resolution" -> Ok(<<resolution>>)

\* What an invocation that succeeds does.  Lifetimes are StorageTTL's subject.
Execute(call) ==
  CASE call.method = "initialize"     -> Initialize(call.admin, call.resolution)
    [] call.method = "add_node"       -> AddNode(call.admin, call.node)
    [] call.method = "remove_node"    -> RemoveNode(call.admin, call.node)
    [] call.method = "set_threshold"  -> SetThreshold(call.admin, call.threshold)
    [] call.method = "set_retention"  -> SetRetention(call.admin, call.retention)
    [] call.method = "add_commodity"  -> AddCommodity(call.admin, call.asset)
    [] call.method = "submit_price"   ->
         SubmitPrice(call.node, call.asset, call.price)
    [] call.method = "finalize_price" -> FinalizePrice(call.asset)
    [] call.method = "extend_instance_ttl" -> UNCHANGED vars
-----------------------------------------------------------------------------
(***************************************************************************)
(* Errors travel as the contract's numbers, and the client turns a number  *)
(* into the message its table has for it.                                  *)
(***************************************************************************)
Error ==
  [AlreadyInitialized |-> 1, NotInitialized |-> 2, NotAdmin |-> 3,
   NotAuthorizedNode |-> 4, UnknownCommodity |-> 5,
   CommodityAlreadyExists |-> 6, ThresholdNotMet |-> 7,
   NoPendingSubmissions |-> 8, DuplicateSubmission |-> 9,
   InvalidPrice |-> 10, InvalidThreshold |-> 11]

\* Mutant of Errors: a table generated from another numbering.
DriftedErrors ==
  <<"AlreadyInitialized", "NotInitialized", "NotAdmin", "NotAuthorizedNode",
    "UnknownCommodity", "CommodityAlreadyExists", "NoPendingSubmissions",
    "ThresholdNotMet", "DuplicateSubmission", "InvalidPrice",
    "InvalidThreshold">>

Errors ==
  <<"AlreadyInitialized", "NotInitialized", "NotAdmin", "NotAuthorizedNode",
    "UnknownCommodity", "CommodityAlreadyExists", "ThresholdNotMet",
    "NoPendingSubmissions", "DuplicateSubmission", "InvalidPrice",
    "InvalidThreshold">>

\* The result the application reads.
Result(call) ==
  LET answer == Answer(call)
  IN  IF answer.status \in DOMAIN Error
      THEN [answer EXCEPT !.status = Errors[Error[answer.status]]]
      ELSE answer
-----------------------------------------------------------------------------
ClientInit ==
  /\ Init
  /\ assembled = NoTransaction

NotYet == -1

\* The AssembledTransaction of a call: its latest result, how far it got, and
\* when a transaction of this call was last executed with success.
Assembled(call, result, stage, executed) ==
  [call |-> call, result |-> result, stage |-> stage, executed |-> executed]

\* A method of the client is called.
Assemble(call) ==
  /\ assembled = NoTransaction
  /\ assembled' = Assembled(call, Result(call), "simulated", NotYet)
  /\ UNCHANGED vars

\* The same call is tried again, whether or not its answer arrived.
Retry ==
  /\ assembled # NoTransaction
  /\ assembled.stage # "simulated"
  /\ assembled' = [assembled EXCEPT !.result = Result(assembled.call),
                                    !.stage = "simulated"]
  /\ UNCHANGED vars

\* Only a call that changes the state, and whose simulation succeeded, is sent.
ReadyToSend ==
  /\ assembled # NoTransaction
  /\ assembled.call \in Writes
  /\ assembled.stage = "simulated"
  /\ assembled.result.status = "Ok"

\* signAndSend(): the transaction is executed, and the answer arrives or not.
SignAndSend ==
  /\ ReadyToSend
  /\ Answer(assembled.call).status = "Ok"
  /\ Execute(assembled.call)
  /\ \/ assembled' = [assembled EXCEPT !.stage = "answered",
                                       !.result = Result(assembled.call),
                                       !.executed = now]
     \/ assembled' = [assembled EXCEPT !.stage = "lost", !.executed = now]

SendRefused ==
  /\ ReadyToSend
  /\ Answer(assembled.call).status # "Ok"
  /\ \/ assembled' = [assembled EXCEPT !.stage = "answered",
                                       !.result = Result(assembled.call)]
     \/ assembled' = [assembled EXCEPT !.stage = "lost"]
  /\ UNCHANGED vars

\* The application is done with the call.
Drop ==
  /\ assembled # NoTransaction
  /\ assembled' = NoTransaction
  /\ UNCHANGED vars

\* Everybody else, and the ledger.
Others == Next /\ UNCHANGED assembled

ClientNext ==
  \/ \E call \in Reads \union Writes : Assemble(call)
  \/ Retry
  \/ SignAndSend
  \/ SendRefused
  \/ Drop
  \/ Others

ClientSpec == ClientInit /\ [][ClientNext]_clientVars
-----------------------------------------------------------------------------
(***************************************************************************)
(* Properties.                                                             *)
(***************************************************************************)
\* The errors a transaction may run into although its simulation succeeded,
\* because of what others did in between.
Overtaken(call) ==
  CASE call.method = "initialize"     -> {"AlreadyInitialized"}
    [] call.method = "set_threshold"  -> {"InvalidThreshold"}
    [] call.method = "add_commodity"  -> {"CommodityAlreadyExists"}
    [] call.method = "submit_price"   -> {"NotAuthorizedNode", "DuplicateSubmission"}
    [] call.method = "finalize_price" -> {"NoPendingSubmissions",
                                          "ThresholdNotMet", "InvalidPrice"}
    [] OTHER -> {}

\* A result read from a simulation is a forecast: between the simulation and
\* signAndSend() a prepared submission is overtaken only by the node's removal
\* or by another submission of the same node, a prepared threshold only by a
\* removal of nodes, a prepared initialize or add_commodity only by another one,
\* and add_node, remove_node and set_retention by nothing at all.
ForecastHolds ==
  ReadyToSend =>
    Answer(assembled.call).status \in {"Ok"} \union Overtaken(assembled.call)

\* The errors that nothing can change any more.
Final(call) ==
  CASE call.method = "initialize"    -> {"AlreadyInitialized"}
    [] call.method = "add_commodity" -> {"NotAdmin", "CommodityAlreadyExists"}
    [] call.method = "set_retention" -> {"NotAdmin", "InvalidThreshold"}
    [] call.method \in {"add_node", "remove_node", "set_threshold"} -> {"NotAdmin"}
    [] OTHER -> {}

\* The error the application reads is the one the contract answered with, so
\* that it takes no other for a final one and no final one for another; and if
\* it reads a final one it may give up: the same call gets it for ever.
FinalErrors ==
  assembled # NoTransaction =>
    /\ Result(assembled.call) = Answer(assembled.call)
    /\ assembled.result.status \in Final(assembled.call) =>
         Answer(assembled.call).status = assembled.result.status

\* A retry after a lost answer does nothing twice: an initialize or a commodity
\* is refused, and a submission in the window of the first copy is refused
\* unless that copy has been finalized into a price of the same window.
RetriesRefused ==
  (/\ assembled # NoTransaction
   /\ assembled.executed # NotYet
   /\ Answer(assembled.call).status = "Ok") =>
     CASE assembled.call.method \in {"initialize", "add_commodity"} -> FALSE
       [] assembled.call.method = "submit_price" ->
            RoundToWindow(assembled.executed) = RoundToWindow(now) =>
              LET last == LastPrice(assembled.call.asset)
              IN  last # None /\ last[1].timestamp = RoundToWindow(now)
       [] OTHER -> TRUE

\* A price read earlier is never newer than one read now: lastprice does not
\* fall back to an older record and does not become None, whatever is pruned
\* and reconfigured in between.
ReadsNeverGoBack ==
  (/\ assembled # NoTransaction
   /\ assembled.call \in lastprice
   /\ assembled.result.value # None) =>
     LET last == LastPrice(assembled.call.asset)
     IN  /\ last # None
         /\ assembled.result.value[1].timestamp <= last[1].timestamp
=============================================================================
