------------------------ MODULE AccountTradingState ------------------------
(***************************************************************************)
(* The order, trade and position book of one account (class                *)
(* AccountTradingState of src/trading.cpp) as operators on a book value.   *)
(* An operation returns the book it leaves and the result it reports, so   *)
(* that a handler of the session which calls several of them composes.     *)
(*                                                                         *)
(* The open-addressed tables are a function (orders, positions) and a set  *)
(* (trades): slots are only freed all together, so a probe fails exactly   *)
(* when the table is full.                                                 *)
(***************************************************************************)
EXTENDS Integers, FiniteSets

CONSTANTS
  Orders,         \* client_order_id values
  Instruments,    \* instruments an order or a position may name
  OrderCapacity,  \* slots of the order table and of the position table
  TradeCapacity   \* slots of the trade table

ASSUME BookAssumption ==
  /\ Instruments # {}
  /\ OrderCapacity \in Nat
  /\ TradeCapacity \in Nat

-----------------------------------------------------------------------------
(* Values *)

Directions == {"Buy", "Sell"}
Offsets == {"Open", "Close"}

OrderStates == {"Created", "RiskAccepted", "RiskRejected",
                "SubmitRejectedLocally", "SubmitResultUnknown", "Submitted",
                "Accepted", "PartiallyFilled", "CancelRequested", "Canceled",
                "Filled", "Rejected"}

\* is_terminal
Terminal == {"RiskRejected", "SubmitRejectedLocally", "SubmitResultUnknown",
             "Canceled", "Filled", "Rejected"}

LocalEvents == {"RiskAccepted", "RiskRejected", "SubmitRejected",
                "SubmitResultUnknown", "Submitted", "CancelRequested"}

ReportTypes == {"Submitted", "Accepted", "Rejected", "PartiallyFilled",
                "Filled", "Canceled", "CancelRejected"}

Codes == {"Applied", "Duplicate", "Stale", "Conflict", "UnknownOrder",
          "CapacityExceeded"}

Seed == [instrument : Instruments, direction : Directions,
         offset : Offsets, quantity : Int]

\* A slot of the order table. "Absent" is a slot that is not occupied.
Order == [state : OrderStates \cup {"Absent"},
          seed : Seed,
          reported : Nat,          \* reported_filled
          accounted : Nat,         \* accounted_filled
          cancelAck : BOOLEAN,     \* cancel_acknowledged
          reconcile : BOOLEAN]     \* reconciliation_required

OrderReport == [id : Orders, type : ReportTypes, cum : Int]

\* A (trading_day, exchange_id, trade_id) triple: the exchange numbers the
\* fills of each order.
TradeKeys == Orders \X Nat

TradeReport == [key : TradeKeys, id : Orders, instrument : Instruments,
                direction : Directions, offset : Offsets, quantity : Int]

Position == [occupied : BOOLEAN, long : Nat, short : Nat, known : BOOLEAN]

Book == [orders : [Orders -> Order],
         trades : SUBSET TradeReport,
         positions : [Instruments -> Position],
         reconciliation : BOOLEAN]

NoSeed == [instrument |-> CHOOSE i \in Instruments : TRUE,
           direction |-> "Buy", offset |-> "Open", quantity |-> 0]
NoOrder == [state |-> "Absent", seed |-> NoSeed, reported |-> 0,
            accounted |-> 0, cancelAck |-> FALSE, reconcile |-> FALSE]
NoPosition == [occupied |-> FALSE, long |-> 0, short |-> 0, known |-> TRUE]
EmptyBook == [orders |-> [o \in Orders |-> NoOrder], trades |-> {},
              positions |-> [i \in Instruments |-> NoPosition],
              reconciliation |-> FALSE]

Occupied(b) == {o \in Orders : b.orders[o].state # "Absent"}
OccupiedPositions(b) == {i \in Instruments : b.positions[i].occupied}

\* The operators whose comment begins with "Variant" are not part of the
\* program: each is a plausible slip in the definition that follows it, which
\* a property of OrderBook must tell from the code.

-----------------------------------------------------------------------------
(* Results *)

\* ApplyResult: the fields a caller reads, and the book left behind.
Result(b, code, positionChanged, reconcile) ==
  [book |-> b, code |-> code, positionChanged |-> positionChanged,
   reconcile |-> reconcile]

Ignored(b, code) == Result(b, code, FALSE, FALSE)

\* reconciliation = true, and reconciliation_required of the orders in ids
Flag(b, ids) ==
  [b EXCEPT
     !.reconciliation = TRUE,
     !.orders = [o \in Orders |->
                   IF o \in ids
                   THEN [b.orders[o] EXCEPT !.reconcile = TRUE]
                   ELSE b.orders[o]]]

Refused(b, code, ids) == Result(Flag(b, ids), code, FALSE, TRUE)
Conflict(b, ids) == Refused(b, "Conflict", ids)

-----------------------------------------------------------------------------
(* create_order *)

CreateOrder(b, id, seed) ==
  LET o == b.orders[id] IN
  IF seed.quantity <= 0 THEN Conflict(b, {})
  ELSE IF o.state # "Absent"
       THEN IF o.seed = seed THEN Ignored(b, "Duplicate") ELSE Conflict(b, {id})
  ELSE IF Cardinality(Occupied(b)) >= OrderCapacity
       THEN Refused(b, "CapacityExceeded", {})
  ELSE Result([b EXCEPT !.orders[id] =
                 [NoOrder EXCEPT !.state = "Created", !.seed = seed]],
              "Applied", FALSE, FALSE)

-----------------------------------------------------------------------------
(* apply_local_event *)

LocalTarget(event) ==
  IF event = "SubmitRejected" THEN "SubmitRejectedLocally" ELSE event

LocalSource(event) ==
  CASE event \in {"RiskAccepted", "RiskRejected"} -> {"Created"}
    [] event = "CancelRequested" ->
         {"Submitted", "Accepted", "PartiallyFilled"}
    [] OTHER -> {"RiskAccepted"}

ApplyLocalEvent(b, id, event) ==
  LET o == b.orders[id]
      after == LocalTarget(event)
      unknown == after = "SubmitResultUnknown"
      moved == [b EXCEPT !.orders[id] = [o EXCEPT !.state = after]]
  IN IF o.state = "Absent" THEN Refused(b, "UnknownOrder", {})
     ELSE IF o.state = after THEN Ignored(b, "Duplicate")
     ELSE IF o.state \in LocalSource(event)
          THEN Result(IF unknown THEN Flag(moved, {id}) ELSE moved,
                      "Applied", FALSE, unknown \/ o.reconcile)
     ELSE IF o.state \in Terminal THEN Ignored(b, "Stale")
     ELSE Conflict(b, {id})

-----------------------------------------------------------------------------
(* apply_order_report *)

\* A report that cannot be true of this order, whatever it has seen so far.
Malformed(o, r) ==
  \/ r.cum \notin 0 .. o.seed.quantity
  \/ r.type \in {"Submitted", "Rejected"} /\ r.cum # 0
  \/ r.type = "PartiallyFilled" /\ r.cum \in {0, o.seed.quantity}
  \/ r.type = "Filled" /\ r.cum # o.seed.quantity
  \/ r.type = "Canceled" /\ r.cum = o.seed.quantity
  \/ o.state \in {"RiskRejected", "SubmitRejectedLocally"}

\* Variant: a repeated rejection taken for a contradiction
ContradictsOnRepeat(o, r) ==
  r.type = "Rejected" /\ o.state \notin {"Created", "RiskAccepted", "Submitted",
                                        "Accepted"}

\* A report that contradicts what the order is known to have become.
Contradicts(o, r) ==
  \/ /\ r.type = "Rejected"
     /\ o.state \notin {"Created", "RiskAccepted", "Submitted", "Accepted",
                        "Rejected"}
  \/ r.type \in {"PartiallyFilled", "Canceled"} /\ o.state = "Rejected"

\* Variant: the check for a filled order dropped from a cancellation
ReportSourceCancelsFilled(type) ==
  CASE type \in {"Filled", "Canceled"} -> OrderStates
    [] OTHER -> OrderStates \ {"Filled", "Canceled", "CancelRequested"}

\* Variant: a late acceptance revives a canceled order
ReportSourceRevives(type) ==
  CASE type \in {"Submitted", "CancelRejected"} -> {}
    [] type = "Rejected" -> {"Submitted", "Accepted"}
    [] OTHER -> OrderStates \ {"Filled"}

\* The states a report moves on; in any other it only raises the fill count.
ReportSource(type) ==
  CASE type = "Submitted" -> {"Created", "RiskAccepted"}
    [] type = "Accepted" -> {"Created", "RiskAccepted", "Submitted"}
    [] type = "Rejected" -> {"Created", "RiskAccepted", "Submitted", "Accepted"}
    [] type = "PartiallyFilled" ->
         OrderStates \ {"Filled", "Canceled", "CancelRequested"}
    [] type = "Filled" -> OrderStates
    [] type = "Canceled" -> OrderStates \ {"Filled"}
    [] type = "CancelRejected" -> {"CancelRequested"}

ReportTarget(r) ==
  IF r.type # "CancelRejected" THEN r.type
  ELSE IF r.cum = 0 THEN "Accepted" ELSE "PartiallyFilled"

StateAfterReport(o, r) ==
  IF o.state \in ReportSource(r.type) THEN ReportTarget(r) ELSE o.state

\* Variant: the fill volume kept only when the state moves too
OrderAfterReportMoving(o, r) ==
  LET state == StateAfterReport(o, r) IN
  IF state = o.state THEN o
  ELSE [o EXCEPT !.state = state, !.reported = r.cum,
                 !.cancelAck = @ \/ state = "Canceled"]

OrderAfterReport(o, r) ==
  [o EXCEPT !.state = StateAfterReport(o, r),
            !.reported = r.cum,
            !.cancelAck = @ \/ (r.type = "Canceled" /\ o.state # "Filled")]

\* The code of a report that neither moves the order nor raises its fills.
RepeatCode(o) ==
  IF o.state \in Terminal \cup {"PartiallyFilled", "CancelRequested"}
  THEN "Stale" ELSE "Duplicate"

ApplyOrderReport(b, r) ==
  LET o == b.orders[r.id]
      after == OrderAfterReport(o, r)
      merged == [b EXCEPT !.orders[r.id] = after]
  IN IF o.state = "Absent" THEN Refused(b, "UnknownOrder", {})
     ELSE IF Malformed(o, r) THEN Conflict(b, {r.id})
     ELSE IF r.cum < o.reported THEN Ignored(b, "Stale")
     ELSE IF Contradicts(o, r) THEN Conflict(b, {r.id})
     ELSE IF r.type = "Filled" /\ o.state = "Rejected"
          THEN Conflict(merged, {r.id})
     ELSE IF after.state = o.state /\ r.cum = o.reported
          THEN Ignored(merged, RepeatCode(o))
     ELSE Result(merged, "Applied", FALSE, FALSE)

-----------------------------------------------------------------------------
(* apply_trade *)

\* The side of the position a trade opens or closes.
Side(t) ==
  IF t.offset = "Open" <=> t.direction = "Buy" THEN "long" ELSE "short"

Opens(t) == t.offset = "Open"

\* A close larger than the position the book holds on that side.
Overcloses(p, t) ==
  ~Opens(t) /\ (IF Side(t) = "long" THEN p.long ELSE p.short) < t.quantity

\* Variant: a close larger than the position takes it to zero
PositionAfterTradeClamped(p, t) ==
  LET signed == IF Opens(t) THEN t.quantity ELSE -t.quantity
      total == (IF Side(t) = "long" THEN p.long ELSE p.short) + signed
      left == IF total < 0 THEN 0 ELSE total IN
  IF Side(t) = "long" THEN [p EXCEPT !.occupied = TRUE, !.long = left]
  ELSE [p EXCEPT !.occupied = TRUE, !.short = left]

PositionAfterTrade(p, t) ==
  LET signed == IF Opens(t) THEN t.quantity ELSE -t.quantity
      touched == [p EXCEPT !.occupied = TRUE] IN
  IF Overcloses(p, t) THEN [touched EXCEPT !.known = FALSE]
  ELSE IF Side(t) = "long" THEN [touched EXCEPT !.long = @ + signed]
  ELSE [touched EXCEPT !.short = @ + signed]

\* The trade does not belong to the order, or fills more than is left of it.
Mismatched(o, t) ==
  \/ o.seed.instrument # t.instrument
  \/ o.seed.direction # t.direction
  \/ o.seed.offset # t.offset
  \/ o.accounted + t.quantity > o.seed.quantity

\* Variant: the trade table not consulted
SameKeyForgotten(b, t) == {}

\* find_trade: the record under the key of the trade, if there is one
SameKey(b, t) == {u \in b.trades : u.key = t.key}

NoTradeSlot(b, t) ==
  \/ Cardinality(b.trades) >= TradeCapacity
  \/ /\ ~b.positions[t.instrument].occupied
     /\ Cardinality(OccupiedPositions(b)) >= OrderCapacity

OrderAfterTrade(o, t) ==
  LET accounted == o.accounted + t.quantity IN
  [o EXCEPT !.accounted = accounted,
            !.state = IF accounted = o.seed.quantity
                      THEN "Filled" ELSE "PartiallyFilled"]

\* Variant: a trade that arrives after the order ended moves no position
RecordTradeInTime(b, t) ==
  LET o == b.orders[t.id] IN
  [b EXCEPT
     !.trades = @ \cup {t},
     !.orders[t.id] = OrderAfterTrade(o, t),
     !.positions[t.instrument] =
       IF o.state \in Terminal THEN [@ EXCEPT !.occupied = TRUE]
       ELSE PositionAfterTrade(@, t)]

RecordTrade(b, t) ==
  [b EXCEPT
     !.trades = @ \cup {t},
     !.orders[t.id] = OrderAfterTrade(b.orders[t.id], t),
     !.positions[t.instrument] = PositionAfterTrade(@, t)]

ApplyTrade(b, t) ==
  LET o == b.orders[t.id]
      overclosed == Overcloses(b.positions[t.instrument], t)
      suspect == \/ overclosed
                 \/ o.state \in {"RiskRejected", "SubmitRejectedLocally",
                                 "Rejected"}
      recorded == RecordTrade(b, t)
  IN IF t.quantity <= 0 THEN Conflict(b, {})
     ELSE IF SameKey(b, t) # {}
          THEN IF t \in SameKey(b, t) THEN Ignored(b, "Duplicate")
               ELSE Conflict(b, {t.id} \cap Occupied(b))
     ELSE IF o.state = "Absent" THEN Refused(b, "UnknownOrder", {})
     ELSE IF Mismatched(o, t) THEN Conflict(b, {t.id})
     ELSE IF NoTradeSlot(b, t) THEN Refused(b, "CapacityExceeded", {t.id})
     ELSE IF suspect
          THEN Result(Flag(recorded, {t.id}), "Conflict", ~overclosed, TRUE)
     ELSE Result(recorded, "Applied", TRUE, o.reconcile)

-----------------------------------------------------------------------------
(* Reconciliation with the counter's positions *)

\* Variant: positions of an earlier query kept
BeginPositionReconciliationKeeping(b) == b

BeginPositionReconciliation(b) ==
  [b EXCEPT !.positions = [i \in Instruments |-> NoPosition],
            !.reconciliation = TRUE]

SetReconciledPosition(b, i, long, short) ==
  IF long < 0 \/ short < 0 THEN Conflict(b, {})
  ELSE IF /\ ~b.positions[i].occupied
          /\ Cardinality(OccupiedPositions(b)) >= OrderCapacity
       THEN Result(b, "CapacityExceeded", FALSE, TRUE)
  ELSE Result([b EXCEPT !.positions[i] =
                 [occupied |-> TRUE, long |-> long, short |-> short,
                  known |-> TRUE]],
              "Applied", TRUE, TRUE)

CompleteReconciliation(b) == [b EXCEPT !.reconciliation = FALSE]

=============================================================================
