------------------------------ MODULE Recovery ------------------------------
(***************************************************************************)
(* The account session across connections: the recovery half of            *)
(* drain_callbacks in src/trading.cpp. After OnFrontConnected the account  *)
(* authenticates, logs in, sees to the settlement, and asks for its        *)
(* orders, trades, positions and funds, one request after the answer to    *)
(* the one before; what it trades meanwhile is the module Session.         *)
(*                                                                         *)
(* Answers and pushed messages come in different flows, so rows of one     *)
(* query and what happened after it interleave. Messages pushed between a  *)
(* disconnection and the next login are lost; answers to requests of an    *)
(* earlier connection may still arrive. The account knows every order it   *)
(* is told of: orders of an earlier run and of other programs, which       *)
(* import_owned_order takes in or refuses, are not part of this module.    *)
(***************************************************************************)
EXTENDS Session

CONSTANT
  MaxConnects  \* bound of the model: connections, the last of which stays

ASSUME RecoveryAssumption == MaxConnects \in Nat

VARIABLES
  confirms,  \* confirm_settlement, which the configuration sets
  phase,     \* recovery.phase
  settled,   \* settlement_confirmed
  seen,      \* orders whose record is seen_during_recovery
  link,      \* connection to the counter: "Down", "Up" or "LoggedIn"
  asked,     \* the phase whose request the counter has still to answer
  answers,   \* rows on their way to the account thread
  executed,  \* the trades of the day at the counter, in their order
  connects,  \* connections so far
  crossed,   \* a trade crossed the position query of the last recovery
  alarmed    \* a pushed message contradicted the book during that recovery

settlement == <<confirms, settled>>
recovery == <<settlement, phase, seen, asked, answers>>
world == <<link, executed, connects>>
history == <<crossed, alarmed>>
recoveryVars == <<vars, recovery, world, history>>

-----------------------------------------------------------------------------
(* Phases and answers *)

Querying == {"QueryingOrders", "QueryingTrades", "QueryingPositions",
             "QueryingFunds"}
\* The phases with a request to the counter
Asking == {"Authenticating", "LoggingIn", "QueryingSettlementConfirmation",
           "ConfirmingSettlement"} \cup Querying
Phases == {"Connecting", "Disconnected", "Ready", "Frozen"} \cup Asking

\* One callback of an answer to the request made in phase: row is its payload,
\* if it has one; current is whether its request id is the expected one. An
\* error stands also for a payload the account cannot accept (a foreign order
\* or trade, a negative position, funds that are no amount).
Row(p, row, last) ==
  [phase |-> p, row |-> row, last |-> last, current |-> TRUE, error |-> FALSE]
Flawed(p) == [Row(p, <<>>, TRUE) EXCEPT !.error = TRUE]

\* A new expected_recovery_request_id
Outdated(rows) == [i \in DOMAIN rows |-> [rows[i] EXCEPT !.current = FALSE]]

-----------------------------------------------------------------------------
(* The counter *)

\* The orders the counter knows, in the order of their numbers
KnownOrders ==
  LET known == {o \in Orders : counter[o].status # "None"} IN
  [i \in 1 .. Cardinality(known) |->
     CHOOSE o \in known : Cardinality({p \in known : p <= o}) = i]

\* ctp_order_report_type of the order as it stands
StatusReport(o) ==
  LET c == counter[o] IN
  [id |-> o, cum |-> c.filled,
   type |-> CASE c.status = "Live" -> "Submitted"
              [] c.status = "Accepted" /\ c.filled > 0 -> "PartiallyFilled"
              [] OTHER -> c.status]

\* Positions, one row for each side that holds lots
SideRows ==
  LET row(side, lots) == If(lots > 0, [side |-> side, quantity |-> lots]) IN
  row("long", OpenLots("Buy")) \o row("short", OpenLots("Sell"))

Payloads(p) ==
  CASE p = "QueryingOrders" -> {[i \in DOMAIN KnownOrders |->
                                   StatusReport(KnownOrders[i])]}
    [] p = "QueryingTrades" -> {executed}
    [] p = "QueryingPositions" -> {SideRows}
    [] p = "QueryingSettlementConfirmation" -> {<<>>, <<FALSE>>, <<TRUE>>}
    [] OTHER -> {<<TRUE>>}

\* A query without results is answered by one callback without payload.
RowsOf(p, payloads) ==
  IF payloads = <<>> THEN <<Row(p, <<>>, TRUE)>>
  ELSE [i \in DOMAIN payloads |->
          Row(p, <<payloads[i]>>, i = Len(payloads))]

\* The login ends what could not be delivered since the connection broke
\* (subscribe_private_topic asks for THOST_TERT_QUICK).
CounterAnswer ==
  /\ link # "Down" /\ asked # "None"
  /\ \/ /\ \E payloads \in Payloads(asked) :
             answers' = answers \o RowsOf(asked, payloads)
        /\ IF asked = "LoggingIn"
           THEN link' = "LoggedIn" /\ reports' = <<>> /\ trades' = <<>>
           ELSE UNCHANGED <<link, reports, trades>>
     \/ /\ answers' = Append(answers, Flawed(asked))
        /\ UNCHANGED <<link, reports, trades>>
  /\ asked' = "None"
  /\ UNCHANGED <<account, counter, phase, settlement, seen, executed, connects,
                 history>>

\* Between the answer to the trade query and the answer to the position query
BetweenAnswers ==
  \/ phase = "QueryingTrades" /\ asked = "None"
  \/ phase = "QueryingPositions" /\ asked # "None"

CounterActs ==
  /\ \E o \in Orders : CounterStep(o)
  /\ LET fills == trades' # trades IN
     /\ executed' = IF fills THEN Append(executed, trades'[Len(trades')])
                    ELSE executed
     /\ crossed' = (crossed \/ (fills /\ BetweenAnswers))
  /\ UNCHANGED <<recovery, link, connects, alarmed>>

-----------------------------------------------------------------------------
(* Requests *)

\* The handler ends without a request, having found the given faults.
Stay(reasons) ==
  /\ SetFaults(reasons)
  /\ UNCHANGED <<phase, asked>>

\* recovery_failure
Fail(reasons) ==
  /\ phase' = "Frozen"
  /\ SetFaults(reasons \o If(phase # "Frozen", "RecoveryFailed"))
  /\ UNCHANGED asked

\* The API refuses the request: the phase is already that of the request.
NotSent(reasons) ==
  /\ phase' = "Frozen"
  /\ SetFaults(Append(reasons, "RecoveryFailed"))
  /\ UNCHANGED asked

Sent(p) == phase' = p /\ asked' = p

Request(p, reasons) ==
  \/ Sent(p) /\ SetFaults(reasons)
  \/ NotSent(reasons)

\* Variant: an account that trades goes on trading while it asks
BeginQueriesUnfrozen(reasons) ==
  /\ Request("QueryingOrders", reasons)
  /\ seen' = {}
  /\ crossed' = FALSE /\ alarmed' = FALSE

\* begin_query_reconciliation
BeginQueries(reasons) ==
  /\ \/ /\ Sent("QueryingOrders")
        /\ frozen' = TRUE
        /\ fault' = IF fault = "None" /\ reasons # <<>> THEN Head(reasons)
                    ELSE fault
     \/ NotSent(reasons)
  /\ seen' = {}
  /\ crossed' = FALSE /\ alarmed' = FALSE

-----------------------------------------------------------------------------
(* drain_callbacks, one row of an answer *)

Expected(m) == phase = m.phase /\ m.current

\* Variant: an answer without payload ends nothing
EndsWithPayload(m) == m.last /\ m.row # <<>>

\* is_last: the request is answered
Ends(m) == m.last

Receives(p) ==
  /\ phase = p
  /\ answers # <<>>
  /\ Expected(Head(answers)) /\ ~Head(answers).error

\* The row is used up; a request made in its handler outdates the others.
Consume ==
  answers' = IF phase' = phase THEN Tail(answers) ELSE Outdated(Tail(answers))

ReceiveLogin ==
  /\ \/ /\ Receives("Authenticating")
        /\ Request("LoggingIn", <<>>)
        /\ UNCHANGED <<settlement, seen, history>>
     \/ /\ Receives("LoggingIn") /\ confirms
        /\ settled' = FALSE
        /\ UNCHANGED confirms
        /\ Request("QueryingSettlementConfirmation", <<>>)
        /\ UNCHANGED <<seen, history>>
     \/ /\ Receives("LoggingIn") /\ ~confirms
        /\ BeginQueries(<<>>)
        /\ UNCHANGED settlement
  /\ Consume
  /\ UNCHANGED <<book, records, exit, daily, openOrders, environment, world>>

ReceiveSettlement ==
  /\ \/ /\ Receives("QueryingSettlementConfirmation")
        /\ settled' = (settled \/ Head(answers).row = <<TRUE>>)
        /\ UNCHANGED confirms
        /\ \/ /\ ~settled'
              /\ Request("ConfirmingSettlement", <<>>)
              /\ UNCHANGED <<seen, history>>
           \/ settled' /\ BeginQueries(<<>>)
     \/ /\ Receives("ConfirmingSettlement")
        /\ BeginQueries(<<>>)
        /\ UNCHANGED settlement
  /\ Consume
  /\ UNCHANGED <<book, records, exit, daily, openOrders, environment, world>>

\* Variant: the orders the counter did not name not looked for
MissingNever(b, named) == FALSE

\* An order without an end that the counter did not name
Missing(b, named) ==
  \E o \in Records \ named : b.orders[o].state \notin Terminal \cup {"Absent"}

ReceiveOrderRow ==
  /\ Receives("QueryingOrders")
  /\ LET m == Head(answers)
         row == m.row
         result == ApplyOrderReport(book, row[1])
         refused == row # <<>> /\ result.reconcile
     IN /\ book' = IF row = <<>> THEN book ELSE result.book
        /\ seen' = IF row = <<>> THEN seen ELSE seen \cup {row[1].id}
        /\ records' = IF row = <<>> \/ refused THEN records
                      ELSE Release(records, book', row[1].id)
        /\ openOrders' = openOrders - (CountOpen(records) - CountOpen(records'))
        /\ \/ refused /\ Fail(<<>>)
           \/ ~refused /\ ~Ends(m) /\ Stay(<<>>)
           \/ ~refused /\ Ends(m) /\ Missing(book', seen') /\ Fail(<<>>)
           \/ /\ ~refused /\ Ends(m) /\ ~Missing(book', seen')
              /\ Request("QueryingTrades", <<>>)
  /\ Consume
  /\ UNCHANGED <<exit, daily, environment, settlement, world, history>>

\* The last row asks for the positions, and forgets those of the book.
ReceiveTradeRow ==
  /\ Receives("QueryingTrades")
  /\ LET m == Head(answers)
         row == m.row
         t == row[1]
         result == ApplyTrade(book, t)
         applied == IF row = <<>> THEN book ELSE result.book
         refused == row # <<>> /\ result.reconcile
         reasons == IF row = <<>> THEN <<>> ELSE TradeFaults(t.id, result)
         asks == ~refused /\ Ends(m)
     IN /\ book' = IF asks THEN BeginPositionReconciliation(applied)
                   ELSE applied
        /\ exit' = IF row = <<>> \/ refused THEN exit
                   ELSE ExitAfterTrade(t.id, t, result)
        /\ \/ refused /\ Fail(<<>>)
           \/ ~refused /\ ~Ends(m) /\ Stay(reasons)
           \/ asks /\ Request("QueryingPositions", reasons)
  /\ Consume
  /\ UNCHANGED <<records, daily, openOrders, environment, settlement, seen, world,
                 history>>

\* A row adds to what the book holds: the counter may split a side over rows.
ReceivePositionRow ==
  /\ Receives("QueryingPositions")
  /\ LET m == Head(answers)
         row == m.row
         more(side) == IF row # <<>> /\ row[1].side = side
                       THEN row[1].quantity ELSE 0
         result == SetReconciledPosition(book, Instrument,
                                         Held.long + more("long"),
                                         Held.short + more("short"))
         refused == row # <<>> /\ result.code = "CapacityExceeded"
     IN /\ book' = IF row = <<>> THEN book ELSE result.book
        /\ \/ refused /\ Fail(<<>>)
           \/ ~refused /\ ~Ends(m) /\ Stay(<<>>)
           \/ ~refused /\ Ends(m) /\ Request("QueryingFunds", <<>>)
  /\ Consume
  /\ UNCHANGED <<records, exit, daily, openOrders, environment, settlement, seen,
                 world, history>>

ReceiveFunds ==
  /\ Receives("QueryingFunds")
  /\ book' = CompleteReconciliation(book)
  /\ frozen' = FALSE
  /\ phase' = "Ready"
  /\ Consume
  /\ UNCHANGED <<records, exit, daily, openOrders, fault, environment, settlement,
                 seen, asked, world, history>>

\* An answer that was not expected, or an error
ReceiveFlawed ==
  /\ answers # <<>>
  /\ ~Expected(Head(answers)) \/ Head(answers).error
  /\ Fail(<<>>)
  /\ Consume
  /\ UNCHANGED <<book, records, exit, daily, openOrders, environment, settlement,
                 seen, world, history>>

ReceiveAnswer ==
  ReceiveLogin \/ ReceiveSettlement \/ ReceiveOrderRow \/ ReceiveTradeRow
    \/ ReceivePositionRow \/ ReceiveFunds \/ ReceiveFlawed

-----------------------------------------------------------------------------
(* The link *)

\* OnFrontDisconnected. What has reached the account was handled before; what
\* has not is lost, and orders and cancel requests on their way may be.
Disconnected ==
  /\ link # "Down" /\ connects < MaxConnects
  /\ link' = "Down"
  /\ phase' = "Disconnected" /\ asked' = "None"
  /\ SetFaults(<<"Disconnected">>)
  /\ answers' \in {<<>>, answers}
  /\ \E lost \in SUBSET {o \in Orders : counter[o].status = "Live"} :
       counter' = [o \in Orders |-> IF o \in lost THEN NoCounterOrder
                                    ELSE [counter[o] EXCEPT !.asked = FALSE]]
  /\ reports' = <<>> /\ trades' = <<>>
  /\ UNCHANGED <<book, records, exit, daily, openOrders, settlement, seen,
                 executed, connects, history>>

\* OnFrontConnected
Connected ==
  /\ link = "Down"
  /\ link' = "Up" /\ connects' = connects + 1
  /\ \/ /\ Sent("Authenticating")
        /\ frozen' = TRUE
        /\ UNCHANGED fault
     \/ NotSent(<<>>)
  /\ answers' = Outdated(answers)
  /\ UNCHANGED <<book, records, exit, daily, openOrders, environment, settlement,
                 seen, executed, history>>

\* A callback that finds the queue full, and the drain that notices it (the
\* module CallbackDrain has the steps in between)
Overflow ==
  /\ link # "Down"
  /\ \/ reports # <<>> /\ reports' = Front(reports) /\ UNCHANGED <<trades, answers>>
     \/ trades # <<>> /\ trades' = Front(trades) /\ UNCHANGED <<reports, answers>>
     \/ answers # <<>> /\ answers' = Front(answers) /\ UNCHANGED <<reports, trades>>
  /\ \/ phase = "Ready" /\ BeginQueries(<<"CallbackQueueOverflow">>)
     \/ /\ phase \in Asking
        /\ Fail(<<"CallbackQueueOverflow">>)
        /\ UNCHANGED <<seen, history>>
     \/ /\ phase = "Frozen"
        /\ Stay(<<"CallbackQueueOverflow">>)
        /\ UNCHANGED <<seen, history>>
  /\ UNCHANGED <<book, records, exit, daily, openOrders, counter, settlement, world>>

\* request_reconciliation
RequestReconciliation ==
  /\ phase = "Ready" /\ ~frozen /\ ~book.reconciliation
  /\ BeginQueries(<<>>)
  /\ UNCHANGED <<book, records, exit, daily, openOrders, environment, settlement,
                 answers, world>>

\* mark_fault, called by a worker whose market queue has overflowed
MarkFault ==
  /\ SetFaults(<<"MarketQueueOverflow">>)
  /\ UNCHANGED <<book, records, exit, daily, openOrders, environment, recovery,
                 world, history>>

-----------------------------------------------------------------------------
(* The specification *)

\* start has been called.
RecoveryInit ==
  /\ NothingYet
  /\ frozen = TRUE
  /\ confirms \in BOOLEAN
  /\ phase = "Connecting"
  /\ settled = FALSE
  /\ seen = {}
  /\ link = "Down"
  /\ asked = "None"
  /\ answers = <<>>
  /\ executed = <<>>
  /\ connects = 0
  /\ crossed = FALSE /\ alarmed = FALSE

\* What else the account thread is called for
Call ==
  /\ Submit \/ Cancel \/ OnMarket
  /\ UNCHANGED <<recovery, world, history>>

ReceivePushedReport ==
  /\ link = "LoggedIn" /\ ReceiveReport
  /\ alarmed' = (alarmed \/ (phase \in Querying
                               /\ ReportResult(Head(reports)).reconcile))
  /\ UNCHANGED <<recovery, world, crossed>>

\* A close applied while the positions are being collected finds none of them.
ReceivePushedTrade ==
  /\ link = "LoggedIn" /\ ReceiveTrade
  /\ crossed' = (crossed \/ (phase = "QueryingPositions"
                               /\ ~Opens(Head(trades))))
  /\ alarmed' = (alarmed \/ (phase \in Querying
                               /\ ApplyTrade(book, Head(trades)).reconcile))
  /\ UNCHANGED <<recovery, world>>

RecoveryNext ==
  UNCHANGED plan /\
  \/ Call \/ ReceivePushedReport \/ ReceivePushedTrade \/ ReceiveAnswer
  \/ Connected \/ Disconnected \/ Overflow \/ RequestReconciliation \/ MarkFault
  \/ CounterActs \/ CounterAnswer

RecoverySpec ==
  RecoveryInit /\ [][RecoveryNext]_recoveryVars

-----------------------------------------------------------------------------
(* Properties *)

RecoveryTypeOK ==
  /\ StateTypes
  /\ phase \in Phases /\ asked \in Asking \cup {"None"}
  /\ link \in {"Down", "Up", "LoggedIn"}
  /\ {confirms, settled, crossed, alarmed} \subseteq BOOLEAN
  /\ seen \subseteq Records
  /\ \A m \in Range(answers) : m.phase \in Asking
  /\ Range(executed) \subseteq TradeReport
  /\ connects \in 0 .. MaxConnects

\* README.md:51: an account is frozen until its recovery is complete, so no
\* order reaches the counter in any phase but Ready.
OrdersOnlyWhenReady ==
  [][\A o \in Orders :
       counter[o].status = "None" /\ counter'[o].status = "Live"
         => phase = "Ready"]_recoveryVars

\* All pushed messages have been handled.
Delivered == reports = <<>> /\ trades = <<>>

\* Whatever was lost before, a recovered account agrees with the counter about
\* every order once what is under way has arrived: its fills, whether it has
\* ended, and whether it holds an open slot. A trade that arrives after the
\* cancellation takes the state back to PartiallyFilled; that the order ended
\* is then in cancel_acknowledged.
RecoveredOrders ==
  \A o \in Records :
    LET b == book.orders[o] IN
    phase = "Ready" /\ ~frozen /\ Delivered /\ ~alarmed /\ b.state \notin
        {"Absent", "RiskRejected", "SubmitRejectedLocally"} =>
      /\ counter[o].status # "None"
      /\ b.accounted = counter[o].filled
      /\ b.state \in Terminal \/ b.cancelAck <=> ~Live(o)
      /\ records[o].activeOpen <=> Live(o) /\ records[o].intent.offset = "Open"

PositionsAgree ==
  Held.long = OpenLots("Buy") /\ Held.short = OpenLots("Sell")

\* The positions of a recovered account are those of the counter, unless a
\* trade crossed the position query: one executed between the answers to the
\* trade query and to the position query, or a close that arrived in between;
\* or unless the book refused a pushed trade, as it does when it is full.
RecoveredPosition ==
  phase = "Ready" /\ ~frozen /\ Delivered /\ ~crossed /\ ~alarmed =>
    PositionsAgree

\* A recovery never waits in vain: while it asks, the request is still at the
\* counter or the last row of its answer on the way. So it ends.
AnswerOnTheWay ==
  phase \in Asking =>
    asked = phase \/ \E m \in Range(answers) : Expected(m) /\ m.last

-----------------------------------------------------------------------------
(* A claim of the repository that the code does not keep *)

\* README.md:51: an account stays frozen until orders, trades, positions and
\* funds have all converged. A trade executed between the answers to the trade
\* query and to the position query is in the position row and is pushed too:
\* the book adds both.
ReadyPositionsConverged ==
  phase = "Ready" /\ ~frozen /\ Delivered => PositionsAgree
=============================================================================
