------------------------------ MODULE OrderBook -----------------------------
(***************************************************************************)
(* The book of one account against a counter that tells the truth, over a  *)
(* channel that may lose, repeat and reorder what the counter says.        *)
(*                                                                         *)
(* The counter (external to src/) executes the orders the account submits. *)
(* Every report and trade it ever emitted stays deliverable: a delivery    *)
(* consumes nothing, so each may arrive never, once or often, in any       *)
(* order.  Strays are inputs a truthful counter does not produce; they     *)
(* exercise the refusals of the book.                                      *)
(***************************************************************************)
EXTENDS AccountTradingState

CONSTANTS
  Seeds,   \* Seeds[o]: the seeds create_order may be given for o
  Strays   \* order reports and trades no truthful counter emits

\* Calls of apply_local_event and create_order outside the protocol
StrayEvent == [id : Orders, event : LocalEvents]
StraySeed == [id : Orders, seed : Seed]

ASSUME SeedsAssumption ==
  /\ Seeds \in [Orders -> SUBSET Seed]
  /\ Strays \subseteq OrderReport \cup TradeReport
                       \cup StrayEvent \cup StraySeed

VARIABLES
  book,       \* the AccountTradingState
  counter,    \* counter[o]: what the exchange did with order o
  delivered,  \* messages applied at least once
  strayed     \* an input outside the protocol has been applied

vars == <<book, counter, delivered, strayed>>

-----------------------------------------------------------------------------
(* The counter *)

CounterStates == {"None", "Submitted", "Accepted", "Rejected", "Canceled"}

\* The lots of an order are 1 .. quantity, filled in this order.  A fill is the
\* filled volume before and after one trade; asked: a cancel request arrived.
Fills == {f \in Nat \X Nat : f[1] < f[2]}
CounterOrder == [status : CounterStates, filled : Nat, fills : SUBSET Fills,
                 asked : BOOLEAN]
NoCounterOrder ==
  [status |-> "None", filled |-> 0, fills |-> {}, asked |-> FALSE]

Quantity(o) == book.orders[o].seed.quantity
Live(o) == /\ counter[o].status \in {"Submitted", "Accepted"}
           /\ counter[o].filled < Quantity(o)

\* The trade of o that a fill reports
TradeOf(o, f) ==
  LET s == book.orders[o].seed IN
  [key |-> <<o, f[2]>>, id |-> o, instrument |-> s.instrument,
   direction |-> s.direction, offset |-> s.offset, quantity |-> f[2] - f[1]]

\* The filled volumes o has had
Volumes(o) == {0} \cup {f[2] : f \in counter[o].fills}

\* Whether the counter has reported type with the filled volume cum about o.
\* A cancel rejection carries the volume (OnRtnOrder) or none at all
\* (OnRspOrderAction, OnErrRtnOrderAction).
Reported(o, type, cum) ==
  LET c == counter[o] IN
  \/ type = "Submitted" /\ c.status # "None" /\ cum = 0
  \/ /\ type = "Accepted" /\ cum = 0
     /\ (c.status \in {"Accepted", "Canceled"} \/ c.filled > 0)
  \/ type = "PartiallyFilled" /\ cum \notin {0, Quantity(o)}
  \/ type = "Filled" /\ cum # 0 /\ cum = Quantity(o)
  \/ type = "Canceled" /\ c.status = "Canceled" /\ cum = c.filled
  \/ type = "Rejected" /\ c.status = "Rejected" /\ cum = 0
  \/ type = "CancelRejected" /\ c.asked

\* Everything the counter has emitted about o
Emitted(o) ==
  {r \in [id : {o}, type : ReportTypes, cum : Volumes(o)] :
     Reported(o, r.type, r.cum)}
  \cup {TradeOf(o, f) : f \in counter[o].fills}

-----------------------------------------------------------------------------
(* Actions *)

Init ==
  /\ book = EmptyBook
  /\ counter = [o \in Orders |-> NoCounterOrder]
  /\ delivered = {}
  /\ strayed = FALSE

\* create_order, never with a second seed for an id: the session numbers its
\* orders afresh
Create(o) ==
  /\ \E seed \in Seeds[o] :
       /\ CreateOrder(book, o, seed).code # "Conflict"
       /\ book' = CreateOrder(book, o, seed).book
  /\ UNCHANGED <<counter, delivered, strayed>>

\* apply_local_event, as the session calls it: never against the state of the
\* order, and never for an unknown result, which no caller in src/ reports.
\* An accepted order insert reaches the counter, and so does a cancel request.
Local(o, event) ==
  LET result == ApplyLocalEvent(book, o, event)
      applied == result.code = "Applied" IN
  /\ result.code \in {"Applied", "Duplicate", "Stale"}
  /\ event # "SubmitResultUnknown"
  /\ book' = result.book
  /\ counter' = [counter EXCEPT
                   ![o].status = IF applied /\ event = "Submitted"
                                 THEN "Submitted" ELSE @,
                   ![o].asked = @ \/ (applied /\ event = "CancelRequested")]
  /\ UNCHANGED <<delivered, strayed>>

\* apply_order_report, apply_trade, and the other inputs a stray may be
Apply(m) ==
  IF m \in OrderReport THEN ApplyOrderReport(book, m)
  ELSE IF m \in TradeReport THEN ApplyTrade(book, m)
  ELSE IF m \in StrayEvent THEN ApplyLocalEvent(book, m.id, m.event)
  ELSE CreateOrder(book, m.id, m.seed)

\* Messages that tell how the order ended, or what it filled
Outcome(m) ==
  m \in TradeReport \/ m.type \in {"Filled", "Canceled", "Rejected"}

Deliver(o) ==
  \E m \in Emitted(o) :
    /\ book' = Apply(m).book
    /\ delivered' = IF Outcome(m) THEN delivered \cup {m} ELSE delivered
    /\ UNCHANGED <<counter, strayed>>

DeliverStray ==
  \E m \in Strays :
    /\ book' = Apply(m).book
    /\ strayed' = TRUE
    /\ UNCHANGED <<counter, delivered>>

Accept(o) ==
  /\ counter[o].status = "Submitted"
  /\ counter' = [counter EXCEPT ![o].status = "Accepted"]
  /\ UNCHANGED <<book, delivered, strayed>>

Reject(o) ==
  /\ counter[o].status = "Submitted"
  /\ counter[o].fills = {}
  /\ counter' = [counter EXCEPT ![o].status = "Rejected"]
  /\ UNCHANGED <<book, delivered, strayed>>

Fill(o) ==
  /\ Live(o)
  /\ \E m \in (counter[o].filled + 1) .. Quantity(o) :
       counter' = [counter EXCEPT
                     ![o].filled = m,
                     ![o].fills = @ \cup {<<counter[o].filled, m>>}]
  /\ UNCHANGED <<book, delivered, strayed>>

\* Requested or not: the exchange also cancels at the end of a session.
Cancel(o) ==
  /\ Live(o)
  /\ counter' = [counter EXCEPT ![o].status = "Canceled"]
  /\ UNCHANGED <<book, delivered, strayed>>

Next ==
  \/ DeliverStray
  \/ \E o \in Orders :
       \/ Create(o)
       \/ \E event \in LocalEvents : Local(o, event)
       \/ Deliver(o)
       \/ Accept(o)
       \/ Reject(o)
       \/ Fill(o)
       \/ Cancel(o)

Spec == Init /\ [][Next]_vars

-----------------------------------------------------------------------------
(* Properties *)

\* Types of every variable of the book and of the environment.
TypeOK ==
  /\ book \in Book
  /\ counter \in [Orders -> CounterOrder]
  /\ delivered \subseteq OrderReport \cup TradeReport
  /\ strayed \in BOOLEAN

\* The lots a recorded trade stands for
Lots(t) == {<<t.id, n>> : n \in (t.key[2] - t.quantity + 1) .. t.key[2]}
LotsOf(T) == UNION {Lots(t) : t \in T}
Recorded(o) == {t \in book.trades : t.id = o}

\* Fill accounting (the deduplication of apply_trade under the reports and
\* trades of apply_order_report, trading.cpp 366-581): however often and in
\* whatever order the messages arrive, accounted_filled counts each lot the
\* counter filled at most once, and neither fill count runs ahead of it.
EachLotAccountedOnce ==
  ~strayed =>
    \A o \in Orders :
      /\ book.orders[o].accounted = Cardinality(LotsOf(Recorded(o)))
      /\ LotsOf(Recorded(o)) \subseteq {<<o, n>> : n \in 1 .. counter[o].filled}
      /\ book.orders[o].reported <= counter[o].filled

\* Position accounting: while a position is known it is the difference of
\* the lots opened and the lots closed on its side (trading.cpp 538-554).
PositionIsOpenMinusClosed ==
  \A i \in Instruments, side \in {"long", "short"} :
    LET p == book.positions[i]
        on == {t \in book.trades : t.instrument = i /\ Side(t) = side}
        opened == LotsOf({t \in on : Opens(t)})
        closed == LotsOf({t \in on : ~Opens(t)})
    IN ~strayed /\ p.known =>
         (IF side = "long" THEN p.long ELSE p.short)
           = Cardinality(opened) - Cardinality(closed)

\* An order all of whose lots are accounted for is Filled and stays so: no
\* late acceptance, cancellation or rejection takes it back.
FullyAccountedIsFilled ==
  \A o \in Occupied(book) :
    book.orders[o].accounted = book.orders[o].seed.quantity
      => book.orders[o].state = "Filled"

\* A canceled order leaves that state only for a trade it had not counted or
\* a report of its whole quantity (the late fills of the comment at
\* trading.cpp:561), and a rejected one only with the account told to
\* reconcile.
TerminalLeftOnlyForFills ==
  [][\A o \in Orders :
       LET was == book.orders[o]
           now == book'.orders[o]
       IN was.state \in {"Canceled", "Rejected"} /\ now.state # was.state =>
            /\ \/ now.accounted > was.accounted
               \/ now.state = "Filled" /\ now.reported = now.seed.quantity
            /\ was.state = "Rejected" => now.reconcile]_vars

\* The counter is done with o, and every message about its fills and its end
\* has arrived.
Settled(o) ==
  /\ \/ counter[o].status \in {"Rejected", "Canceled"}
     \/ counter[o].filled > 0 /\ counter[o].filled = Quantity(o)
  /\ \A m \in Emitted(o) : Outcome(m) => m \in delivered

\* Convergence (README.md:48, out-of-order merging): once every message has
\* arrived, in any order and any number of times, an order the book did not
\* flag agrees with the counter.
ConvergesToCounter ==
  \A o \in Orders :
    LET b == book.orders[o] IN
    ~strayed /\ Settled(o) /\ ~b.reconcile =>
      /\ b.reported = counter[o].filled
      /\ b.accounted = counter[o].filled
      /\ (b.state = "Filled") <=> (counter[o].filled = Quantity(o))
      /\ (b.state = "Rejected") <=> (counter[o].status = "Rejected")
      /\ b.cancelAck <=> (counter[o].status = "Canceled")

\* A truthful counter makes an order demand reconciliation only when the
\* trade table is full, a close overtook the open it closes, or the counter
\* rejected an order whose cancellation had already been requested.
NoFalseAlarm ==
  \A o \in Orders :
    ~strayed /\ book.orders[o].reconcile =>
      \/ Cardinality(book.trades) = TradeCapacity
      \/ \E i \in Instruments : ~book.positions[i].known
      \/ counter[o].status = "Rejected" /\ counter[o].asked

=============================================================================
