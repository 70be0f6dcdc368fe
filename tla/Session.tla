------------------------------- MODULE Session ------------------------------
(***************************************************************************)
(* The account session of src/trading.cpp (AccountTradingSession) between  *)
(* two recoveries: submit, cancel, on_market and the realtime half of      *)
(* drain_callbacks, which one account thread calls one after the other,    *)
(* against a counter that executes the orders and answers over two flows.  *)
(*                                                                         *)
(* The counter is external to src/.  It tells the truth and loses nothing, *)
(* but a trade and the order report of the same fill travel in different   *)
(* flows and may overtake each other.  Loss of callbacks and the recovery  *)
(* that follows are not part of this module: a frozen account stays so.    *)
(***************************************************************************)
EXTENDS AccountTradingState, SequencesExt, Functions

CONSTANTS
  Instrument,      \* limits.allowed_instrument
  Plans,           \* what a run may be about: entries the strategy asks for,
                   \* and the counts of the day it starts with
  RecordCapacity,  \* signal_capacity
  MaxSignals, MaxOrders, MaxCancels,        \* RiskLimits: per day
  MaxActiveOpen, MaxNetPosition,            \* RiskLimits
  EntryTimeout, CloseInterval, MaxReprices, \* AutoClosePolicy, market events
  Refusals,        \* callbacks that may carry a refused cancel request
  Backlog          \* bound of the model: undelivered messages per flow

Intent == [signal : Nat, direction : Directions, offset : Offsets,
           quantity : Nat, purpose : {"Entry", "Exit"}, attempt : Nat]

\* The counts of one day
Daily == [signals : 0 .. MaxSignals, orders : 0 .. MaxOrders,
          cancels : 0 .. MaxCancels]

ASSUME SessionAssumption ==
  /\ RecordCapacity \in Nat /\ Orders = 1 .. RecordCapacity
  /\ Instrument \in Instruments
  /\ \A p \in Plans :
       /\ p.entries \subseteq {i \in Intent : i.purpose = "Entry" /\ i.offset = "Open"
                                              /\ i.attempt = 0}
       /\ p.used \in Daily
  /\ Refusals \subseteq {"Response", "Report"}
  /\ {MaxSignals, MaxOrders, MaxCancels, MaxActiveOpen, MaxNetPosition,
      EntryTimeout, CloseInterval, MaxReprices, Backlog} \subseteq Nat

VARIABLES
  plan,      \* the plan of this run; it does not change
  book,      \* state: the AccountTradingState
  records,   \* signals: one SignalRecord per client_order_id
  exit,      \* exit: the ExitState
  daily,     \* daily_signals, daily_orders, daily_cancels
  openOrders, \* active_open_orders
  frozen,    \* frozen, and reconciliation, which set_fault sets with it
  fault,     \* fault
  counter,   \* counter[o]: what the counter did with order o
  reports,   \* order reports and responses on their way
  trades     \* trade reports on their way

vars == <<plan, book, records, exit, daily, openOrders, frozen, fault, counter,
          reports, trades>>
account == <<book, records, exit, daily, openOrders, frozen, fault>>
environment == <<counter, reports, trades>>

-----------------------------------------------------------------------------
(* Records *)

NoIntent == [signal |-> 0, direction |-> "Buy", offset |-> "Open",
             quantity |-> 0, purpose |-> "Entry", attempt |-> 0]

\* activeOpen: active_open; waited: market_events_waited
NoRecord == [occupied |-> FALSE, intent |-> NoIntent, activeOpen |-> FALSE,
             cancelRequested |-> FALSE, waited |-> 0]

Record == [occupied : BOOLEAN, intent : Intent, activeOpen : BOOLEAN,
           cancelRequested : BOOLEAN, waited : 0 .. EntryTimeout]

\* active is whether active_client_order_id names an order
NoExit == [pending |-> FALSE, active |-> FALSE, id |-> 0, signal |-> 0,
           direction |-> "Buy", quantity |-> 0, attempt |-> 0, waited |-> 0,
           freezeAfterCancel |-> FALSE]

Exit == [pending : BOOLEAN, active : BOOLEAN, id : Orders \cup {0},
         signal : Nat, direction : Directions, quantity : Nat, attempt : Nat,
         waited : 0 .. CloseInterval, freezeAfterCancel : BOOLEAN]

\* asks: cancel requests sent for the order; asked: one is not answered yet
CounterOrder ==
  [status : {"None", "Live", "Accepted", "Rejected", "Canceled", "Filled"},
   filled : Nat, asked : BOOLEAN, asks : Nat]
NoCounterOrder == [status |-> "None", filled |-> 0, asked |-> FALSE, asks |-> 0]

\* The operators whose comment begins with "Variant" are not part of the
\* program: each is a plausible slip in the definition that follows it.

Records == {o \in Orders : records[o].occupied}
NextId == Cardinality(Records) + 1
State(o) == book.orders[o].state
Held == book.positions[Instrument]
Closable == IF exit.direction = "Sell" THEN Held.long ELSE Held.short

\* Events waited for are only compared with the limit, so they stop there.
Waited(n, limit) == IF n < limit THEN n + 1 ELSE n

\* set_fault, called with the reasons one handler finds, in its order
SetFaults(reasons) ==
  /\ frozen' = (frozen \/ reasons # <<>>)
  /\ fault' = IF fault = "None" /\ reasons # <<>> THEN Head(reasons) ELSE fault

If(condition, reason) == IF condition THEN <<reason>> ELSE <<>>

-----------------------------------------------------------------------------
(* submit *)

Opposite(direction) == IF direction = "Buy" THEN "Sell" ELSE "Buy"

SeedOf(intent) ==
  [instrument |-> Instrument, direction |-> intent.direction,
   offset |-> intent.offset, quantity |-> intent.quantity]

\* evaluate_risk over the effective snapshot, without the checks of the window,
\* the market, the price and the funds, which may reject as well
RiskAccepts(intent) ==
  LET opens == intent.offset = "Open"
      net == Held.long - Held.short
      next == IF intent.direction = "Buy" THEN net + intent.quantity
              ELSE net - intent.quantity
      closable == IF intent.direction = "Sell" THEN Held.long ELSE Held.short
  IN /\ ~frozen /\ ~book.reconciliation
     /\ intent.quantity > 0
     /\ daily.orders < MaxOrders
     /\ opens => /\ daily.signals < MaxSignals
                 /\ openOrders < MaxActiveOpen
                 /\ next \in -MaxNetPosition .. MaxNetPosition
     /\ ~opens => closable >= intent.quantity

SameSignal(intent) ==
  {o \in Records : /\ records[o].intent.signal = intent.signal
                   /\ records[o].intent.purpose = intent.purpose
                   /\ records[o].intent.attempt = intent.attempt}

\* How far an order that passed the risk check gets: no request can be built
\* (order references used up, price not finite), the API refuses it, or it is
\* sent. Both failures are RejectedLocally.
SendOutcomes == {"NotBuilt", "Refused", "Submitted"}

\* "Duplicate" stands also for the RejectedLocally of another intent under the
\* same key, "TableFull" for the CapacityExceeded of create_order, which comes
\* after a record is used.
SubmitCodes(intent) ==
  IF SameSignal(intent) # {} THEN {"Duplicate"}
  ELSE IF Cardinality(Records) >= RecordCapacity THEN {"CapacityExceeded"}
  ELSE IF CreateOrder(book, NextId, SeedOf(intent)).code # "Applied"
       THEN {"TableFull"}
  ELSE IF RiskAccepts(intent) THEN SendOutcomes \cup {"RiskRejected"}
  ELSE {"RiskRejected"}

SubmitBook(intent, code) ==
  LET created == CreateOrder(book, NextId, SeedOf(intent)).book
      accepted == ApplyLocalEvent(created, NextId, "RiskAccepted").book
  IN CASE code \in {"Duplicate", "CapacityExceeded"} -> book
       [] code = "TableFull" -> created
       [] code = "RiskRejected" ->
            ApplyLocalEvent(created, NextId, "RiskRejected").book
       [] code \in {"NotBuilt", "Refused"} ->
            ApplyLocalEvent(accepted, NextId, "SubmitRejected").book
       [] code = "Submitted" ->
            ApplyLocalEvent(accepted, NextId, "Submitted").book

\* The effects of submit that its callers share
SubmitOrder(intent, code) ==
  LET opens == intent.offset = "Open"
      submitted == code = "Submitted"
      record == [NoRecord EXCEPT !.occupied = TRUE, !.intent = intent,
                                 !.activeOpen = submitted /\ opens]
  IN /\ book' = SubmitBook(intent, code)
     /\ records' = IF code \in {"Duplicate", "CapacityExceeded"} THEN records
                   ELSE [records EXCEPT ![NextId] = record]
     /\ daily' = [daily EXCEPT
                    !.signals = IF opens /\ code \in SendOutcomes
                                THEN @ + 1 ELSE @,
                    !.orders = IF code \in {"Refused", "Submitted"}
                               THEN @ + 1 ELSE @]
     /\ openOrders' = IF submitted /\ opens THEN openOrders + 1 ELSE openOrders
     /\ counter' = IF submitted THEN [counter EXCEPT ![NextId].status = "Live"]
                   ELSE counter
     /\ UNCHANGED <<reports, trades>>

\* submit, called for a signal of the strategy. A duplicate, or one without a
\* free record, changes nothing: a stuttering step.
Submit ==
  /\ \E intent \in plan.entries :
       \E code \in SubmitCodes(intent) \ {"Duplicate", "CapacityExceeded"} :
         SubmitOrder(intent, code)
  /\ UNCHANGED <<exit, frozen, fault>>

-----------------------------------------------------------------------------
(* cancel *)

CancelReport(o) == [id |-> o, type |-> "CancelRejected", cum |-> 0]

\* What may become of a cancel: the API takes the request or not.
\* "NotApplied" stands for the NotCancelable of an event that does not apply,
\* which comes after apply_local_event.
CancelCodes(o) ==
  IF ~records[o].occupied THEN {"UnknownOrder"}
  ELSE IF records[o].cancelRequested THEN {"Duplicate"}
  ELSE IF State(o) \in Terminal \cup {"Absent"} THEN {"NotCancelable"}
  ELSE IF daily.cancels >= MaxCancels THEN {"DailyLimit"}
  ELSE IF ApplyLocalEvent(book, o, "CancelRequested").code # "Applied"
       THEN {"NotApplied"}
  ELSE {"Requested", "RejectedLocally"}

\* Variant: the quota of a failed call not given back
CancelQuotaKept(code) ==
  IF code \in {"Requested", "RejectedLocally"} THEN 1 ELSE 0

\* The quota and the flag taken before the call are given back when it fails.
CancelQuota(code) == IF code = "Requested" THEN 1 ELSE 0

\* The effects of cancel but for records, which on_market changes too
CancelOrder(o, code) ==
  LET asked == ApplyLocalEvent(book, o, "CancelRequested").book
      sent == code = "Requested"
  IN /\ book' = CASE code = "RejectedLocally" ->
                       ApplyOrderReport(asked, CancelReport(o)).book
                  [] code \in {"Requested", "NotApplied"} -> asked
                  [] OTHER -> book
     /\ daily' = [daily EXCEPT !.cancels = @ + CancelQuota(code)]
     /\ counter' = IF sent THEN [counter EXCEPT ![o].asked = TRUE,
                                                ![o].asks = @ + 1]
                   ELSE counter
     /\ UNCHANGED <<reports, trades, openOrders>>

\* Variant: the flag set for a call that fails, not for one that is sent
CancelRecordMistaken(rs, o, code) ==
  IF code = "RejectedLocally" THEN [rs EXCEPT ![o].cancelRequested = TRUE] ELSE rs

\* cancel_requested, set before the call and cleared again when it fails
CancelRecord(rs, o, code) ==
  IF code = "Requested" THEN [rs EXCEPT ![o].cancelRequested = TRUE] ELSE rs

\* cancel, called by an operator. It changes nothing unless it comes to the
\* event of the book.
Cancel ==
  /\ \E o \in Orders :
     \E code \in CancelCodes(o) \cap {"Requested", "RejectedLocally", "NotApplied"} :
       /\ CancelOrder(o, code)
       /\ records' = CancelRecord(records, o, code)
  /\ UNCHANGED <<exit, frozen, fault>>

-----------------------------------------------------------------------------
(* on_market, for a valid event of the allowed instrument *)

ExitIntent ==
  [signal |-> exit.signal, direction |-> exit.direction, offset |-> "Close",
   quantity |-> IF Closable < exit.quantity THEN Closable ELSE exit.quantity,
   purpose |-> "Exit", attempt |-> exit.attempt]

ExitSubmitted ==
  [exit EXCEPT !.pending = FALSE, !.active = TRUE, !.id = NextId,
               !.waited = 0, !.freezeAfterCancel = FALSE]

ExitDue == ~frozen /\ exit.pending /\ ~exit.active

\* Variant: an order the book knows to have ended is no fault
CancelFaultsLenient(code) ==
  If(code \notin {"Requested", "Duplicate", "NotCancelable"},
     "CloseCancelRejected")

\* The fault of a cancel that on_market calls
CancelFaults(code) ==
  If(code \notin {"Requested", "Duplicate"}, "CloseCancelRejected")

\* No position to close from, or a protected price that overflows
ExitImpossible ==
  /\ ExitDue
  /\ \E reason \in {"StateConflict", "PriceOverflow"} :
       /\ reason = "StateConflict" <=> ~(Held.occupied /\ Held.known)
       /\ reason = "PriceOverflow" => Closable > 0
       /\ SetFaults(<<reason>>)
  /\ UNCHANGED <<book, records, exit, daily, openOrders, environment>>

SubmitExit ==
  /\ ExitDue
  /\ Held.occupied /\ Held.known /\ Closable > 0
  /\ \E code \in SubmitCodes(ExitIntent) :
       LET capacity == code \in {"CapacityExceeded", "TableFull"} IN
       /\ SubmitOrder(ExitIntent, code)
       /\ exit' = IF code = "Submitted" THEN ExitSubmitted ELSE exit
       /\ SetFaults(If(code # "Submitted",
                       IF capacity THEN "CapacityExceeded"
                       ELSE "StateConflict"))

\* An exit that is due with nothing to close is dropped, otherwise sent. In a
\* session that keeps its connection LotsHaveAnExit says that none is dropped;
\* positions asked for at a reconnection can leave an exit for the other side.
DueExit ==
  IF ExitDue /\ Held.occupied /\ Held.known /\ Closable = 0
  THEN /\ exit' = NoExit
       /\ UNCHANGED <<book, records, daily, openOrders, frozen, fault, environment>>
  ELSE SubmitExit

\* The exit order is live, as far as the session knows: wait, then cancel it.
AwaitExit ==
  /\ ~frozen /\ exit.active
  /\ LET waited == [exit EXCEPT !.waited = Waited(@, CloseInterval)] IN
     \/ /\ waited.waited < CloseInterval
        /\ exit' = waited
        /\ UNCHANGED <<book, records, daily, openOrders, frozen, fault,
                       environment>>
     \/ /\ waited.waited >= CloseInterval
        /\ \E code \in CancelCodes(exit.id) :
             /\ CancelOrder(exit.id, code)
             /\ records' = CancelRecord(records, exit.id, code)
             /\ exit' = IF code = "Requested"
                        THEN [waited EXCEPT !.freezeAfterCancel =
                                exit.attempt >= MaxReprices]
                        ELSE waited
             /\ SetFaults(CancelFaults(code))

\* Entry orders the loop looks at, and those whose time is up. It goes through
\* the records in order and returns at the first one it cancels.
Aging == {o \in Records : records[o].activeOpen /\ ~records[o].cancelRequested}
TimedOut == {o \in Aging : records[o].waited + 1 >= EntryTimeout}
FirstTimedOut == CHOOSE o \in TimedOut : \A p \in TimedOut : o <= p

Aged(last) ==
  [o \in Orders |->
     IF o \in Aging /\ o <= last
     THEN [records[o] EXCEPT !.waited = Waited(@, EntryTimeout)]
     ELSE records[o]]

AwaitEntries ==
  /\ ~frozen /\ ~exit.pending /\ ~exit.active
  /\ EntryTimeout > 0
  /\ \/ /\ TimedOut = {}
        /\ records' = Aged(RecordCapacity)
        /\ UNCHANGED <<book, daily, openOrders, frozen, fault, environment>>
     \/ /\ TimedOut # {}
        /\ \E code \in CancelCodes(FirstTimedOut) :
             /\ CancelOrder(FirstTimedOut, code)
             /\ records' = CancelRecord(Aged(FirstTimedOut), FirstTimedOut, code)
             /\ SetFaults(CancelFaults(code))
  /\ UNCHANGED exit

OnMarket ==
  ExitImpossible \/ DueExit \/ AwaitExit \/ AwaitEntries

-----------------------------------------------------------------------------
(* drain_callbacks, one realtime event *)

\* The faults of the result of applying a report or a trade
ResultFaults(result) ==
  If(result.reconcile \/ result.code \in {"Conflict", "UnknownOrder"},
     "StateConflict")

\* Variant: the slot released by the first fill
ReleaseOnFill(rs, b, o) ==
  IF rs[o].activeOpen /\ b.orders[o].state \in Terminal \cup {"PartiallyFilled"}
  THEN [rs EXCEPT ![o].activeOpen = FALSE] ELSE rs

\* release_terminal_open, on the book the event left
Release(rs, b, o) ==
  IF rs[o].activeOpen /\ b.orders[o].state \in Terminal
  THEN [rs EXCEPT ![o].activeOpen = FALSE] ELSE rs

CountOpen(rs) == Cardinality({o \in Orders : rs[o].activeOpen})

\* The exit after an order report: a cancelled exit order is due again for
\* what is still held.
ExitAfterCancel(b) ==
  LET p == b.positions[Instrument]
      left == IF exit.direction = "Sell" THEN p.long ELSE p.short IN
  [exit EXCEPT !.active = FALSE, !.id = 0, !.quantity = left,
               !.pending = left > 0, !.attempt = @ + 1]

\* Variant: a partial fill taken for the end of the exit order
EndsExitOnFill(m, result) ==
  /\ exit.id = m.id
  /\ m.kind = "Order" /\ m.type \in {"Canceled", "PartiallyFilled"}
  /\ result.code = "Applied"

\* The report that the exit order is canceled, when the book takes it
EndsExit(m, result) ==
  /\ exit.id = m.id
  /\ m.kind = "Order" /\ m.type = "Canceled"
  /\ result.code = "Applied"

ReportResult(m) ==
  ApplyOrderReport(book, [id |-> m.id, type |-> m.type, cum |-> m.cum])

ReceiveReport ==
  /\ reports # <<>>
  /\ LET m == Head(reports)
         o == m.id
         result == ReportResult(m)
         response == m.kind = "CancelResponse"
         ours == exit.id = o
         canceled == EndsExit(m, result)
         cleared == IF response
                    THEN [records EXCEPT ![o].cancelRequested = FALSE]
                    ELSE records
     IN /\ book' = result.book
        /\ records' = Release(cleared, book', o)
        /\ openOrders' = openOrders - (CountOpen(records) - CountOpen(records'))
        /\ exit' = IF ~canceled THEN exit
                   ELSE IF \/ exit.freezeAfterCancel
                           \/ ~book'.positions[Instrument].occupied
                        THEN [exit EXCEPT !.active = FALSE, !.id = 0]
                   ELSE ExitAfterCancel(book')
        /\ SetFaults(ResultFaults(result)
                     \o If(response /\ ours, "CloseCancelRejected")
                     \o If(canceled /\ exit.freezeAfterCancel,
                           "CloseRetryExhausted")
                     \o If(canceled /\ ~book'.positions[Instrument].occupied,
                           "StateConflict"))
  /\ reports' = Tail(reports)
  /\ UNCHANGED <<daily, counter, trades>>

\* Variant: only an exit not yet submitted stands in the way
IncompatiblePending(o) ==
  exit.pending /\ exit.signal # records[o].intent.signal

\* apply_trade_effect
Incompatible(o) ==
  (exit.pending \/ exit.active) /\ exit.signal # records[o].intent.signal

ExitAfterOpen(o, t) ==
  [exit EXCEPT !.pending = TRUE, !.signal = records[o].intent.signal,
               !.direction = Opposite(t.direction),
               !.quantity = @ + t.quantity]

Flat(p) == p.long = 0 /\ p.short = 0

Counts(result) == result.code = "Applied" /\ result.positionChanged

TradeFaults(o, result) ==
  If(Counts(result) /\ records[o].intent.offset = "Open" /\ Incompatible(o),
     "StateConflict")

\* Variant: the trade that makes the account flat leaves the exit as it is
ExitAfterTradeKept(o, t, result) ==
  IF /\ Counts(result) /\ records[o].intent.offset = "Open"
     /\ ~Incompatible(o)
  THEN ExitAfterOpen(o, t) ELSE exit

\* The exit after a trade of o, with the result of applying it
ExitAfterTrade(o, t, result) ==
  LET opens == records[o].intent.offset = "Open" IN
  IF Counts(result) /\ opens /\ ~Incompatible(o) THEN ExitAfterOpen(o, t)
  ELSE IF /\ Counts(result) /\ ~opens
          /\ Flat(result.book.positions[Instrument])
       THEN NoExit
  ELSE exit

ReceiveTrade ==
  /\ trades # <<>>
  /\ LET t == Head(trades)
         result == ApplyTrade(book, t)
     IN /\ book' = result.book
        /\ records' = Release(records, book', t.id)
        /\ openOrders' = openOrders - (CountOpen(records) - CountOpen(records'))
        /\ exit' = ExitAfterTrade(t.id, t, result)
        /\ SetFaults(ResultFaults(result) \o TradeFaults(t.id, result))
  /\ trades' = Tail(trades)
  /\ UNCHANGED <<daily, counter, reports>>

\* A callback of an order the session does not know, or cannot translate
ReceiveUnknown ==
  /\ SetFaults(<<"UnknownCallback">>)
  /\ UNCHANGED <<book, records, exit, daily, openOrders, environment>>

-----------------------------------------------------------------------------
(* The counter *)

Quantity(o) == records[o].intent.quantity
Live(o) == counter[o].status \in {"Live", "Accepted"}

\* Lots the counter has opened in a direction and not closed
OpenLots(direction) ==
  SumFunction(
    [o \in Records |->
       LET intent == records[o].intent IN
       CASE intent.offset = "Open" /\ intent.direction = direction ->
              counter[o].filled
         [] intent.offset = "Close" /\ intent.direction # direction ->
              -counter[o].filled
         [] OTHER -> 0])

Report(o, kind, type, cum) == [id |-> o, kind |-> kind, type |-> type, cum |-> cum]
Send(m) == /\ Len(reports) < Backlog
           /\ reports' = Append(reports, m)

CounterAccept(o) ==
  /\ counter[o].status = "Live"
  /\ Send(Report(o, "Order", "Accepted", counter[o].filled))
  /\ counter' = [counter EXCEPT ![o].status = "Accepted"]
  /\ UNCHANGED <<account, trades>>

\* OnRspOrderInsert, OnErrRtnOrderInsert, or OnRtnOrder of a rejected order
CounterReject(o) ==
  /\ Live(o) /\ counter[o].filled = 0
  /\ Send(Report(o, "Order", "Rejected", 0))
  /\ counter' = [counter EXCEPT ![o].status = "Rejected", ![o].asked = FALSE]
  /\ UNCHANGED <<account, trades>>

\* A fill is an order report in one flow and a trade in the other. The counter
\* closes no more than there is.
CounterFill(o) ==
  /\ Live(o)
  /\ Len(trades) < Backlog
  /\ \E cum \in (counter[o].filled + 1) .. Quantity(o) :
       LET full == cum = Quantity(o)
           volume == cum - counter[o].filled
           intent == records[o].intent IN
       /\ intent.offset = "Close" => volume <= OpenLots(Opposite(intent.direction))
       /\ Send(Report(o, "Order", IF full THEN "Filled" ELSE "PartiallyFilled",
                      cum))
       /\ trades' = Append(trades,
                           [key |-> <<o, cum>>, id |-> o,
                            instrument |-> Instrument,
                            direction |-> intent.direction,
                            offset |-> intent.offset, quantity |-> volume])
       /\ counter' = [counter EXCEPT
                        ![o].filled = cum,
                        ![o].status = IF full THEN "Filled" ELSE "Accepted"]
  /\ UNCHANGED account

\* Asked to, or by itself, as at the end of a session
CounterCancel(o) ==
  /\ Live(o)
  /\ Send(Report(o, "Order", "Canceled", counter[o].filled))
  /\ counter' = [counter EXCEPT ![o].status = "Canceled", ![o].asked = FALSE]
  /\ UNCHANGED <<account, trades>>

\* A refused cancel request is answered by OnRspOrderAction or
\* OnErrRtnOrderAction, which carry no volume, or by OnRtnOrder, which does.
CounterRefuse(o) ==
  /\ counter[o].asked
  /\ \/ /\ "Response" \in Refusals
        /\ Send(Report(o, "CancelResponse", "CancelRejected", 0))
     \/ /\ "Report" \in Refusals
        /\ Send(Report(o, "Order", "CancelRejected", counter[o].filled))
  /\ counter' = [counter EXCEPT ![o].asked = FALSE]
  /\ UNCHANGED <<account, trades>>

CounterStep(o) ==
  CounterAccept(o) \/ CounterReject(o) \/ CounterFill(o) \/ CounterCancel(o)
    \/ CounterRefuse(o)

-----------------------------------------------------------------------------
(* The specification *)

\* The account before its first order of this run, and a counter without any;
\* restore_restart_image and activate carry over the counts of the day.
NothingYet ==
  /\ book = EmptyBook
  /\ records = [o \in Orders |-> NoRecord]
  /\ exit = NoExit
  /\ plan \in Plans
  /\ daily = plan.used
  /\ openOrders = 0
  /\ fault = "None"
  /\ counter = [o \in Orders |-> NoCounterOrder]
  /\ reports = <<>>
  /\ trades = <<>>

Init == NothingYet /\ frozen = FALSE

Next ==
  UNCHANGED plan /\
  \/ Submit \/ Cancel \/ OnMarket
  \/ ReceiveReport \/ ReceiveTrade \/ ReceiveUnknown
  \/ \E o \in Orders : CounterStep(o)

\* Market events keep coming, the account thread keeps draining, and the
\* counter answers a cancel request.
Fairness ==
  /\ WF_vars(UNCHANGED plan /\ OnMarket)
  /\ WF_vars(UNCHANGED plan /\ (ReceiveReport \/ ReceiveTrade))
  /\ WF_vars(UNCHANGED plan /\ \E o \in Orders : counter[o].asked /\ CounterStep(o))

Spec == Init /\ [][Next]_vars /\ Fairness

-----------------------------------------------------------------------------
(* Properties *)

\* Types of the variables; counts never run below zero or past their limits.
StateTypes ==
  /\ plan \in Plans
  /\ book \in Book
  /\ records \in [Orders -> Record]
  /\ exit \in Exit
  /\ daily \in Daily
  /\ openOrders \in 0 .. MaxActiveOpen
  /\ frozen \in BOOLEAN
  /\ counter \in [Orders -> CounterOrder]
  /\ \A m \in Range(reports) : [id |-> m.id, type |-> m.type, cum |-> m.cum]
                                  \in OrderReport
  /\ Range(trades) \subseteq TradeReport

\* The types, and a fault for every freeze.
TypeOK == StateTypes /\ (frozen <=> fault # "None")

\* active_open_orders counts the slots held, and an entry gives its slot back
\* once and at the right time, however reports and trades of its end overtake
\* each other: not before it has ended at the counter, so there are never more
\* entries at work than slots, and with the event that tells the book of the
\* end at the latest (submit, release_terminal_open).
OpenSlotsMatchOrders ==
  LET held == {o \in Records : records[o].activeOpen}
      entries == {o \in Records : records[o].intent.offset = "Open"} IN
  /\ openOrders = Cardinality(held)
  /\ {o \in entries : Live(o)} \subseteq held
  /\ held \subseteq {o \in entries : State(o) \notin Terminal}

\* The cancel quota used up is that of the day before this run and the cancel
\* requests the counter has had in it, whoever asked and whichever call failed.
CancelQuotaIsWhatWasSent ==
  daily.cancels = plan.used.cancels + SumFunction([o \in Orders |-> counter[o].asks])

\* README.md:49: a request that was sent is not sent again. Whoever asks, the
\* operator, a timeout of the entry or of the exit, a new request goes to the
\* counter only when it has answered the one before with a refusal and the
\* account has been told (cancel, drain_callbacks).
OneRequestAtATime ==
  [][\A o \in Orders :
       counter'[o].asks > counter[o].asks =>
         /\ ~counter[o].asked
         /\ \A m \in Range(reports) : m.id = o => m.type # "CancelRejected"]_vars

\* Lots and exits go together: an account that holds lots holds them on one side
\* and has an exit for that side, due or at the counter; one that holds none has
\* no exit. So whatever the order in which reports and trades come, the trade
\* that makes the account flat ends the exit, and no cancel makes one due for
\* nothing (drain_callbacks, apply_trade_effect).
LotsHaveAnExit ==
  ~frozen => IF exit.pending \/ exit.active
             THEN Closable > 0 /\ (Held.long = 0 \/ Held.short = 0)
             ELSE Flat(Held)

\* A signal never has two exit orders at the counter. Those of two signals may
\* be there together: an exit that asked for lots whose close was not reported
\* yet is forgotten, not canceled, by the trade that makes the account flat
\* (apply_trade_effect), and the next signal opens and closes beside it.
OneExitOrder ==
  \A o, p \in Orders :
    /\ Live(o) /\ records[o].intent.purpose = "Exit"
    /\ Live(p) /\ records[p].intent.purpose = "Exit"
    /\ records[o].intent.signal = records[p].intent.signal
    => o = p

\* Fills of o the book has not been told of as trades
Undelivered(o) == counter[o].filled - book.orders[o].accounted

\* An exit order sent to the counter asks for more than the counter holds open
\* only by the fills of earlier exit orders whose trades are still on their way.
ExitWithinPosition ==
  [][\A o \in Orders :
       /\ counter[o].status = "None" /\ counter'[o].status = "Live"
       /\ records'[o].intent.purpose = "Exit"
       => records'[o].intent.quantity
            <= OpenLots(Opposite(records'[o].intent.direction))
               + SumFunction([p \in Records |->
                                IF records[p].intent.purpose = "Exit"
                                THEN Undelivered(p) ELSE 0])]_vars

\* The exit closes lots under the id of the signal that opened them: an account
\* that holds lots takes more of the signal of its exit only, or it freezes
\* (apply_trade_effect).
LotsOfOneSignal ==
  [][\A o \in Records :
       /\ records[o].intent.purpose = "Entry"
       /\ book'.orders[o].accounted > book.orders[o].accounted
       /\ ~frozen'
       => Flat(Held) \/ exit.signal = records[o].intent.signal]_vars

\* What is opened is closed again, or the account is frozen (README.md:50).
FlatOrFrozen ==
  (\E direction \in Directions : OpenLots(direction) > 0)
    ~> (\A direction \in Directions : OpenLots(direction) = 0) \/ frozen

-----------------------------------------------------------------------------
(* Claims of the repository that the code does not keep *)

\* README.md:49 and tests/trading_test.cpp:974-1001: a cancel request CTP does
\* not take synchronously rolls back the state of the order, so an order turns
\* CancelRequested only when a request is sent. cancel rolls back with a report
\* of no fills, which is stale for an order that has filled some.
CancelRequestedMeansSent ==
  [][\A o \in Orders :
       State(o) # "CancelRequested" /\ State(o)' = "CancelRequested"
         => counter'[o].asks > counter[o].asks]_vars

\* README.md:50: an exit order that is not filled in time is canceled and
\* submitted again a limited number of times, after which the account freezes.
\* OnRtnOrder of a refused cancel request does not clear cancel_requested, so
\* on_market never asks for that order again.
ExitTimeoutResolves ==
  \A o \in Orders :
    exit.active /\ exit.id = o ~> ~(exit.active /\ exit.id = o) \/ frozen
=============================================================================
