--------------------------- MODULE OrderBookProofs --------------------------
(***************************************************************************)
(* Theorems about the order book for every value of the constants: what     *)
(* holds whatever arrives (types, a filled order stays Filled, terminal     *)
(* states), and what holds as long as only a truthful counter speaks: each  *)
(* lot is counted once, positions balance, the book converges to the        *)
(* counter, and no order is flagged without a reason.                       *)
(***************************************************************************)
EXTENDS OrderBook, AccountTradingStateProofs, FiniteSetTheorems

\* Whatever is delivered, the book stays sound.
LEMMA ApplySound ==
  ASSUME SoundBook(book),
         NEW m \in OrderReport \cup TradeReport \cup StrayEvent \cup StraySeed
  PROVE  SoundBook(Apply(m).book)
<1>1. CASE m \in OrderReport
  BY <1>1, OrderReportSound DEF Apply
<1>2. CASE m \in TradeReport /\ m \notin OrderReport
  BY <1>2, TradeSound DEF Apply
<1>3. CASE m \in StrayEvent /\ m \notin OrderReport \cup TradeReport
  <2>1. m.id \in Orders /\ m.event \in LocalEvents
    BY <1>3 DEF StrayEvent
  <2> QED
    BY <1>3, <2>1, LocalEventSound DEF Apply
<1>4. CASE m \in StraySeed /\ m \notin OrderReport \cup TradeReport \cup StrayEvent
  <2>1. m.id \in Orders /\ m.seed \in Seed
    BY <1>4 DEF StraySeed
  <2> QED
    BY <1>4, <2>1, CreateOrderSound DEF Apply
<1> QED
  BY <1>1, <1>2, <1>3, <1>4

-----------------------------------------------------------------------------
(* The inductive invariant *)

IInv == TypeOK /\ SoundBook(book)

\* The invariant holds initially.
LEMMA InitIInv == Init => IInv
<1>1. NoCounterOrder \in CounterOrder
  BY DEF CounterOrder, NoCounterOrder, CounterStates
<1> QED
  BY <1>1, EmptyBookSound DEF Init, IInv, TypeOK, SoundBook

\* What the counter emits are order reports and trades.
LEMMA EmittedType ==
  ASSUME IInv, NEW o \in Orders
  PROVE  Emitted(o) \subseteq OrderReport \cup TradeReport
<1> DEFINE s == book.orders[o].seed
           c == counter[o]
<1>1. s \in Seed /\ c \in CounterOrder
  BY DEF IInv, TypeOK, Book, Order
<1>2. c.fills \subseteq Fills
  BY <1>1 DEF CounterOrder
<1>3. Volumes(o) \subseteq Int
  BY <1>2 DEF Volumes, Fills
<1>4. ASSUME NEW f \in c.fills
      PROVE  TradeOf(o, f) \in TradeReport
  <2>1. f[2] \in Nat /\ f[2] - f[1] \in Int
    BY <1>2 DEF Fills
  <2> QED
    BY <1>1, <2>1 DEF TradeOf, TradeReport, TradeKeys, Seed
<1>5. [id : {o}, type : ReportTypes, cum : Volumes(o)] \subseteq OrderReport
  BY <1>3 DEF OrderReport
<1> QED
  BY <1>4, <1>5 DEF Emitted

\* Every step keeps the invariant.
LEMMA NextIInv == IInv /\ [Next]_vars => IInv'
<1> SUFFICES ASSUME IInv, [Next]_vars
             PROVE  IInv'
  OBVIOUS
<1> USE DEF IInv
<1>1. /\ SoundBook(book) /\ book \in Book
      /\ counter \in [Orders -> CounterOrder]
      /\ delivered \subseteq OrderReport \cup TradeReport
      /\ strayed \in BOOLEAN
  BY DEF TypeOK
<1>2. ASSUME SoundBook(book'), counter' \in [Orders -> CounterOrder],
             delivered' \subseteq OrderReport \cup TradeReport,
             strayed' \in BOOLEAN
      PROVE  IInv'
  BY <1>2 DEF TypeOK, SoundBook
<1>3. CASE DeliverStray
  <2>1. SoundBook(book')
    BY <1>1, <1>3, ApplySound, SeedsAssumption DEF DeliverStray
  <2> QED
    BY <1>1, <1>2, <1>3, <2>1 DEF DeliverStray
<1>4. ASSUME NEW o \in Orders, Create(o)
      PROVE  IInv'
  <2>1. Seeds[o] \subseteq Seed
    BY SeedsAssumption
  <2>2. SoundBook(book')
    BY <1>1, <1>4, <2>1, CreateOrderSound DEF Create
  <2> QED
    BY <1>1, <1>2, <1>4, <2>2 DEF Create
<1>5. ASSUME NEW o \in Orders, NEW event \in LocalEvents, Local(o, event)
      PROVE  IInv'
  <2>1. SoundBook(book')
    BY <1>1, <1>5, LocalEventSound DEF Local
  <2>2. counter' \in [Orders -> CounterOrder]
    <3> DEFINE applied == ApplyLocalEvent(book, o, event).code = "Applied"
               c == counter[o]
               status == IF applied /\ event = "Submitted"
                         THEN "Submitted" ELSE c.status
               asked == c.asked \/ (applied /\ event = "CancelRequested")
    <3>1. counter' = [counter EXCEPT ![o].status = status,
                                     ![o].asked = asked]
      BY <1>5 DEF Local
    <3>2. status \in CounterStates /\ asked \in BOOLEAN
      BY <1>1 DEF CounterOrder, CounterStates
    <3> HIDE DEF status, asked
    <3> QED
      BY <1>1, <3>1, <3>2 DEF CounterOrder
  <2> QED
    BY <1>1, <1>2, <1>5, <2>1, <2>2 DEF Local
<1>6. ASSUME NEW o \in Orders, Deliver(o)
      PROVE  IInv'
  <2>1. PICK m \in Emitted(o) :
          /\ book' = Apply(m).book
          /\ delivered' = IF Outcome(m) THEN delivered \cup {m} ELSE delivered
          /\ UNCHANGED <<counter, strayed>>
    BY <1>6 DEF Deliver
  <2>2. m \in OrderReport \cup TradeReport
    BY <2>1, EmittedType
  <2>3. SoundBook(book')
    BY <1>1, <2>1, <2>2, ApplySound
  <2> QED
    BY <1>1, <1>2, <2>1, <2>2, <2>3
<1>7. ASSUME NEW o \in Orders, Accept(o) \/ Reject(o) \/ Cancel(o)
      PROVE  IInv'
  <2>1. counter' \in [Orders -> CounterOrder]
    BY <1>1, <1>7 DEF Accept, Reject, Cancel, CounterOrder, CounterStates
  <2>2. UNCHANGED <<book, delivered, strayed>>
    BY <1>7 DEF Accept, Reject, Cancel
  <2> QED
    BY <1>1, <1>2, <2>1, <2>2
<1>8. ASSUME NEW o \in Orders, Fill(o)
      PROVE  IInv'
  <2> DEFINE c == counter[o]
  <2>1. c \in CounterOrder /\ c.filled \in Nat
    BY <1>1 DEF CounterOrder
  <2>2. PICK m \in (c.filled + 1) .. Quantity(o) :
          counter' = [counter EXCEPT ![o].filled = m,
                                     ![o].fills = c.fills
                                                    \cup {<<c.filled, m>>}]
    BY <1>8 DEF Fill
  <2>3. Quantity(o) \in Int
    BY <1>1 DEF Quantity, Book, Order, Seed
  <2>4. m \in Nat /\ <<c.filled, m>> \in Fills
    BY <2>1, <2>2, <2>3 DEF Fills
  <2>5. c.fills \cup {<<c.filled, m>>} \in SUBSET Fills
    BY <2>1, <2>4 DEF CounterOrder
  <2>6. counter' \in [Orders -> CounterOrder]
    BY <1>1, <2>1, <2>2, <2>4, <2>5 DEF CounterOrder
  <2>7. UNCHANGED <<book, delivered, strayed>>
    BY <1>8 DEF Fill
  <2> QED
    BY <1>1, <1>2, <2>6, <2>7
<1>9. CASE UNCHANGED vars
  BY <1>1, <1>2, <1>9 DEF vars
<1> QED
  BY <1>3, <1>4, <1>5, <1>6, <1>7, <1>8, <1>9 DEF Next

\* The inductive invariant always holds.
THEOREM AlwaysIInv == Spec => []IInv
BY InitIInv, NextIInv, PTL DEF Spec

\* The book and its environment keep their types: in particular no fill count
\* and no position ever becomes negative, whatever arrives.
THEOREM TypeCorrect == Spec => []TypeOK
<1>1. IInv => TypeOK
  BY DEF IInv
<1> QED
  BY <1>1, AlwaysIInv, PTL

\* Whatever arrives, an order whose whole quantity is accounted for is Filled.
THEOREM FilledStays == Spec => []FullyAccountedIsFilled
<1>1. IInv => FullyAccountedIsFilled
  BY DEF IInv, SoundBook, SoundOrder, FullyAccountedIsFilled, Occupied
<1> QED
  BY <1>1, AlwaysIInv, PTL

-----------------------------------------------------------------------------
(* Leaving a terminal state *)

\* What TerminalLeftOnlyForFills says of one order
LeftForFills(was, now) ==
  was.state \in {"Canceled", "Rejected"} /\ now.state # was.state =>
    /\ \/ now.accounted > was.accounted
       \/ now.state = "Filled" /\ now.reported = now.seed.quantity
    /\ was.state = "Rejected" => now.reconcile

LeavesForFills(b, c) ==
  \A o \in Orders : LeftForFills(b.orders[o], c.orders[o])

\* Flagging after a step changes no state and no count.
LEMMA FlagLeaves ==
  ASSUME NEW b, NEW c, SoundBook(c), LeavesForFills(b, c), NEW ids
  PROVE  LeavesForFills(b, Flag(c, ids))
<1> SUFFICES ASSUME NEW o \in Orders
             PROVE  LeftForFills(b.orders[o], Flag(c, ids).orders[o])
  BY DEF LeavesForFills
<1>1. Flag(c, ids).orders[o] = IF o \in ids
                               THEN [c.orders[o] EXCEPT !.reconcile = TRUE]
                               ELSE c.orders[o]
  BY DEF Flag, SoundBook, Book
<1>2. LeftForFills(b.orders[o], c.orders[o]) /\ c.orders[o] \in Order
  BY DEF LeavesForFills, SoundBook, Book
<1> QED
  BY <1>1, <1>2 DEF LeftForFills, Order

\* An order that is not touched leaves no state.
LEMMA NoChangeLeaves ==
  ASSUME NEW b, SoundBook(b), NEW code, NEW ids
  PROVE  /\ LeavesForFills(b, b)
         /\ LeavesForFills(b, Conflict(b, ids).book)
         /\ LeavesForFills(b, Refused(b, code, ids).book)
         /\ LeavesForFills(b, Ignored(b, code).book)
<1>1. LeavesForFills(b, b)
  BY DEF LeavesForFills, LeftForFills
<1> QED
  BY <1>1, FlagLeaves DEF Conflict, Refused, Ignored, Result

\* Replacing one order concerns that order only.
LEMMA OrderUpdateLeaves ==
  ASSUME NEW b, SoundBook(b), NEW id \in Orders, NEW o,
         LeftForFills(b.orders[id], o)
  PROVE  LeavesForFills(b, [b EXCEPT !.orders[id] = o])
BY DEF LeavesForFills, LeftForFills, SoundBook, Book

\* create_order takes no order out of Canceled or Rejected.
LEMMA CreateOrderLeaves ==
  ASSUME NEW b, SoundBook(b), NEW id \in Orders, NEW seed \in Seed
  PROVE  LeavesForFills(b, CreateOrder(b, id, seed).book)
<1> DEFINE new == [NoOrder EXCEPT !.state = "Created", !.seed = seed]
           added == [b EXCEPT !.orders[id] = new]
<1>1. b.orders[id].state = "Absent" => LeavesForFills(b, added)
  BY OrderUpdateLeaves DEF LeftForFills
<1>2. \/ \E ids : CreateOrder(b, id, seed) = Conflict(b, ids)
      \/ \E code, ids : CreateOrder(b, id, seed) = Refused(b, code, ids)
      \/ \E code : CreateOrder(b, id, seed) = Ignored(b, code)
      \/ /\ b.orders[id].state = "Absent"
         /\ CreateOrder(b, id, seed).book = added
  BY DEF CreateOrder, Result
<1> QED
  BY <1>1, <1>2, NoChangeLeaves

\* No local event takes an order out of Canceled or Rejected.
LEMMA LocalEventLeaves ==
  ASSUME NEW b, SoundBook(b), NEW id \in Orders, NEW event \in LocalEvents
  PROVE  LeavesForFills(b, ApplyLocalEvent(b, id, event).book)
<1> DEFINE o == b.orders[id]
           result == ApplyLocalEvent(b, id, event)
           new == [o EXCEPT !.state = LocalTarget(event)]
           moved == [b EXCEPT !.orders[id] = new]
<1>1. o.state \in LocalSource(event) => LeftForFills(o, new)
  BY DEF LeftForFills, LocalSource, LocalEvents
<1>2. o.state \in LocalSource(event) => LeavesForFills(b, moved)
  BY <1>1, OrderUpdateLeaves
<1>3. o.state \in LocalSource(event) => new \in Order /\ SoundOrder(new)
  BY DEF SoundBook, Book, Order, SoundOrder, LocalSource, LocalEvents,
         LocalTarget, OrderStates
<1> HIDE DEF new
<1>4. o.state \in LocalSource(event) => SoundBook(moved)
  BY <1>3, OrderUpdateSound
<1>5. \/ \E ids : result = Conflict(b, ids)
      \/ \E code, ids : result = Refused(b, code, ids)
      \/ \E code : result = Ignored(b, code)
      \/ /\ o.state \in LocalSource(event)
         /\ result.book = moved \/ result.book = Flag(moved, {id})
  BY DEF ApplyLocalEvent, Result, new
<1> HIDE DEF o, result, moved
<1> QED
  BY <1>2, <1>4, <1>5, NoChangeLeaves, FlagLeaves DEF result

\* A report takes an order out of Canceled or Rejected only as Filled.
LEMMA OrderReportLeaves ==
  ASSUME NEW b, SoundBook(b), NEW r \in OrderReport
  PROVE  LeavesForFills(b, ApplyOrderReport(b, r).book)
<1> DEFINE o == b.orders[r.id]
           after == OrderAfterReport(o, r)
           merged == [b EXCEPT !.orders[r.id] = after]
           result == ApplyOrderReport(b, r)
<1>1. /\ o \in Order /\ r.id \in Orders
      /\ r.cum \in Int /\ r.type \in ReportTypes
  BY DEF SoundBook, Book, OrderReport
<1>2. /\ after.seed = o.seed
      /\ after.reported = r.cum
      /\ after.state = StateAfterReport(o, r)
  BY <1>1 DEF OrderAfterReport, Order
<1>3. ASSUME ~Malformed(o, r), ~Contradicts(o, r),
             o.state \in {"Canceled", "Rejected"}, after.state # o.state
      PROVE  /\ r.type = "Filled"
             /\ after.state = "Filled" /\ after.reported = after.seed.quantity
  <2>1. r.type = "Filled"
    BY <1>1, <1>2, <1>3
    DEF StateAfterReport, ReportSource, ReportTarget, ReportTypes, Contradicts
  <2> QED
    BY <1>2, <1>3, <2>1 DEF StateAfterReport, ReportTarget, Malformed
<1> HIDE DEF after
<1>4. ASSUME ~Malformed(o, r), ~Contradicts(o, r),
             ~(r.type = "Filled" /\ o.state = "Rejected")
      PROVE  LeavesForFills(b, merged)
  <2>1. LeftForFills(o, after)
    BY <1>3, <1>4 DEF LeftForFills
  <2> QED
    BY <1>1, <2>1, OrderUpdateLeaves
<1>5. ASSUME ~Malformed(o, r), ~Contradicts(o, r), SoundBook(merged)
      PROVE  LeavesForFills(b, Flag(merged, {r.id}))
  <2>1. Flag(merged, {r.id}).orders =
          [x \in Orders |-> IF x = r.id
                            THEN [after EXCEPT !.reconcile = TRUE]
                            ELSE b.orders[x]]
    BY <1>1 DEF Flag, SoundBook, Book
  <2>2. after \in Order
    BY <1>1, <1>5 DEF SoundBook, Book
  <2>3. LeftForFills(o, [after EXCEPT !.reconcile = TRUE])
    BY <1>3, <1>5, <2>2 DEF LeftForFills, Order
  <2> QED
    BY <2>1, <2>3 DEF LeavesForFills, LeftForFills
<1>6. \/ \E ids : result = Conflict(b, ids)
      \/ \E code, ids : result = Refused(b, code, ids)
      \/ \E code : result = Ignored(b, code)
      \/ /\ ~Malformed(o, r) /\ ~Contradicts(o, r) /\ SoundBook(merged)
         /\ \/ result = Conflict(merged, {r.id})
            \/ /\ ~(r.type = "Filled" /\ o.state = "Rejected")
               /\ result.book = merged
  BY OrderReportCases DEF after
<1>7. Conflict(merged, {r.id}).book = Flag(merged, {r.id})
  BY DEF Conflict, Refused, Result
<1> HIDE DEF o, merged, result
<1> QED
  BY <1>4, <1>5, <1>6, <1>7, NoChangeLeaves DEF result

\* A trade that takes an order out of Canceled or Rejected is counted.
LEMMA TradeLeaves ==
  ASSUME NEW b, SoundBook(b), NEW t \in TradeReport
  PROVE  LeavesForFills(b, ApplyTrade(b, t).book)
<1> DEFINE o == b.orders[t.id]
           after == OrderAfterTrade(o, t)
           recorded == RecordTrade(b, t)
<1>1. o \in Order /\ t.id \in Orders /\ t.quantity \in Int
  BY DEF SoundBook, Book, TradeReport
<1>2. t.quantity > 0 => after.accounted > o.accounted
  BY <1>1 DEF OrderAfterTrade, Order
<1>3. recorded.orders = [b.orders EXCEPT ![t.id] = after]
  BY DEF RecordTrade, SoundBook, Book
<1>4. ASSUME t.quantity > 0, o.state # "Rejected"
      PROVE  LeavesForFills(b, recorded)
  <2> HIDE DEF o, after, recorded
  <2>1. LeftForFills(o, after)
    BY <1>2, <1>4 DEF LeftForFills
  <2> QED
    BY <1>1, <1>3, <2>1 DEF LeavesForFills, LeftForFills, SoundBook, Book, o
<1>5. ASSUME t.quantity > 0, SoundBook(recorded)
      PROVE  LeavesForFills(b, Flag(recorded, {t.id}))
  <2>1. Flag(recorded, {t.id}).orders =
          [x \in Orders |-> IF x = t.id
                            THEN [after EXCEPT !.reconcile = TRUE]
                            ELSE b.orders[x]]
    <3> HIDE DEF after, recorded
    <3>1. Flag(recorded, {t.id}).orders =
            [x \in Orders |-> IF x \in {t.id}
                              THEN [recorded.orders[x] EXCEPT !.reconcile = TRUE]
                              ELSE recorded.orders[x]]
      BY <1>5 DEF Flag, SoundBook, Book
    <3> QED
      BY <1>1, <1>3, <3>1 DEF SoundBook, Book
  <2>2. after \in Order
    BY <1>1, <1>3, <1>5 DEF SoundBook, Book
  <2> HIDE DEF o, after, recorded
  <2>3. LeftForFills(o, [after EXCEPT !.reconcile = TRUE])
    BY <1>2, <1>5, <2>2 DEF LeftForFills, Order
  <2> QED
    BY <2>1, <2>3 DEF LeavesForFills, LeftForFills, o
<1> HIDE DEF o, after, recorded
<1> QED
  BY <1>4, <1>5, TradeCases, NoChangeLeaves DEF o, recorded

\* A canceled or rejected order is revived only by fills, and a rejected one
\* only with the account flagged, for every order, quantity and message.
THEOREM TerminalStates == Spec => TerminalLeftOnlyForFills
<1>1. IInv /\ [Next]_vars => [LeavesForFills(book, book')]_vars
  <2> SUFFICES ASSUME IInv, Next
               PROVE  LeavesForFills(book, book')
    OBVIOUS
  <2>1. SoundBook(book)
    BY DEF IInv
  <2>2. ASSUME NEW m \in OrderReport \cup TradeReport \cup StrayEvent
                           \cup StraySeed
        PROVE  LeavesForFills(book, Apply(m).book)
    BY <2>1, OrderReportLeaves, TradeLeaves, LocalEventLeaves, CreateOrderLeaves
    DEF Apply, StrayEvent, StraySeed
  <2>3. CASE DeliverStray
    BY <2>2, <2>3, SeedsAssumption DEF DeliverStray
  <2>4. ASSUME NEW o \in Orders, Create(o)
        PROVE  LeavesForFills(book, book')
    BY <2>1, <2>4, CreateOrderLeaves, SeedsAssumption DEF Create
  <2>5. ASSUME NEW o \in Orders, NEW event \in LocalEvents, Local(o, event)
        PROVE  LeavesForFills(book, book')
    BY <2>1, <2>5, LocalEventLeaves DEF Local
  <2>6. ASSUME NEW o \in Orders, Deliver(o)
        PROVE  LeavesForFills(book, book')
    BY <2>2, <2>6, EmittedType DEF Deliver
  <2>7. ASSUME NEW o \in Orders,
               Accept(o) \/ Reject(o) \/ Fill(o) \/ Cancel(o)
        PROVE  LeavesForFills(book, book')
    BY <2>1, <2>7, NoChangeLeaves DEF Accept, Reject, Fill, Cancel
  <2> QED
    BY <2>3, <2>4, <2>5, <2>6, <2>7 DEF Next
<1>2. [LeavesForFills(book, book')]_vars =>
        [\A o \in Orders :
           LET was == book.orders[o]
               now == book'.orders[o]
           IN was.state \in {"Canceled", "Rejected"} /\ now.state # was.state =>
                /\ \/ now.accounted > was.accounted
                   \/ now.state = "Filled" /\ now.reported = now.seed.quantity
                /\ was.state = "Rejected" => now.reconcile]_vars
  BY DEF LeavesForFills, LeftForFills
<1> QED
  BY <1>1, <1>2, AlwaysIInv, PTL DEF Spec, TerminalLeftOnlyForFills

-----------------------------------------------------------------------------
(* The order in the book and the order at the counter *)

\* How far the two have come, whatever is still under way between them: the
\* book is never ahead of the counter.
Agrees(o, c) ==
  LET q == o.seed.quantity IN
  /\ c.status = "None" <=> o.state \in {"Absent", "Created", "RiskAccepted",
                                        "RiskRejected", "SubmitRejectedLocally"}
  /\ o.state # "SubmitResultUnknown"
  /\ c.status = "None" => ~c.asked /\ c.filled = 0
  /\ c.filled <= q
  /\ c.status = "Rejected" => c.filled = 0
  /\ c.status = "Canceled" => c.filled < q
  /\ o.reported <= c.filled
  /\ o.cancelAck => c.status = "Canceled"
  /\ o.state = "Rejected" => c.status = "Rejected"
  /\ o.state = "Canceled" => c.status = "Canceled"
  /\ o.state = "CancelRequested" => c.asked
  /\ o.state = "PartiallyFilled" => c.filled > 0
  /\ o.state = "Filled" => c.filled = q

\* The fills of an order are disjoint and leave no lot of it out.
FillsTile(c) ==
  /\ \A f \in c.fills : f[2] <= c.filled
  /\ \A f, g \in c.fills : f # g => f[2] <= g[1] \/ g[2] <= f[1]
  /\ \A n \in 1 .. c.filled : \E f \in c.fills : f[1] < n /\ n <= f[2]

OrdersAgree ==
  \A o \in Orders : Agrees(book.orders[o], counter[o]) /\ FillsTile(counter[o])

\* A report of the counter is never malformed; it is old, or it is taken over,
\* or it rejects an order that the session had asked to cancel.
LEMMA TruthfulReport ==
  ASSUME IInv, OrdersAgree, NEW o \in Orders,
         NEW r \in [id : {o}, type : ReportTypes, cum : Volumes(o)],
         Reported(o, r.type, r.cum)
  PROVE  LET was == book.orders[o]
             after == OrderAfterReport(was, r) IN
         /\ r \in OrderReport /\ r.id = o
         /\ was.state # "Absent" /\ ~Malformed(was, r)
         /\ r.cum \in 0 .. counter[o].filled
         /\ Contradicts(was, r) =>
              counter[o].status = "Rejected" /\ counter[o].asked
         /\ ~(r.type = "Filled" /\ was.state = "Rejected")
<1> DEFINE was == book.orders[o]
           c == counter[o]
           q == was.seed.quantity
<1>1. /\ was \in Order /\ SoundOrder(was) /\ c \in CounterOrder
      /\ Agrees(was, c) /\ FillsTile(c)
  BY DEF IInv, TypeOK, Book, SoundBook, OrdersAgree
<1>2. /\ r.id = o /\ r.type \in ReportTypes /\ r.cum \in Volumes(o)
      /\ r = [id |-> o, type |-> r.type, cum |-> r.cum]
  OBVIOUS
<1>3. /\ c.filled \in Nat /\ c.fills \subseteq Fills /\ q \in Int
      /\ was.state \in OrderStates \cup {"Absent"} /\ was.reported \in Nat
      /\ c.status \in CounterStates
  BY <1>1 DEF CounterOrder, Order, Seed
<1>4. \A f \in c.fills : f[2] \in Nat /\ f[2] <= c.filled
  BY <1>1, <1>3 DEF FillsTile, Fills
<1>5. r.cum \in 0 .. c.filled
  BY <1>2, <1>3, <1>4 DEF Volumes
<1>6. r \in OrderReport
  BY <1>2, <1>5 DEF OrderReport
<1>7. c.status # "None"
  BY <1>1, <1>2, <1>3, <1>5 DEF Reported, Agrees, Quantity, ReportTypes
<1>8. /\ was.state \notin {"Absent", "RiskRejected", "SubmitRejectedLocally"}
      /\ q > 0
  BY <1>1, <1>7 DEF Agrees, SoundOrder
<1>9. ~Malformed(was, r)
  <2>1. r.cum \in 0 .. q
    BY <1>1, <1>3, <1>5 DEF Agrees
  <2>2. /\ r.type \in {"Submitted", "Rejected"} => r.cum = 0
        /\ r.type = "PartiallyFilled" => r.cum \notin {0, q}
        /\ r.type = "Filled" => r.cum = q
        /\ r.type = "Canceled" => c.status = "Canceled" /\ r.cum = c.filled
    BY <1>2 DEF Reported, Quantity
  <2>3. r.type = "Canceled" => r.cum # q
    BY <1>1, <1>3, <2>2 DEF Agrees
  <2> QED BY <1>8, <2>1, <2>2, <2>3 DEF Malformed
<1>10. was.state = "Rejected" => c.filled = 0
  BY <1>1 DEF Agrees
<1>11. /\ r.type = "Filled" => was.state # "Rejected"
       /\ r.type \in {"PartiallyFilled", "Canceled"} => was.state # "Rejected"
  BY <1>1, <1>2, <1>5, <1>10 DEF Reported, Agrees
<1>12. ASSUME Contradicts(was, r) PROVE c.status = "Rejected" /\ c.asked
  <2>1. /\ r.type = "Rejected" /\ c.status = "Rejected"
        /\ was.state \notin {"Created", "RiskAccepted", "Submitted", "Accepted",
                             "Rejected"}
    BY <1>11, <1>12 DEF Contradicts, Reported
  <2>2. c.filled = 0 /\ q > 0
    BY <1>1, <1>8, <2>1 DEF Agrees
  <2>3. was.state = "CancelRequested"
    BY <1>1, <1>3, <1>8, <2>1, <2>2 DEF Agrees, OrderStates
  <2> QED BY <1>1, <2>1, <2>3 DEF Agrees
<1> QED BY <1>2, <1>5, <1>6, <1>8, <1>9, <1>11, <1>12

\* ... and an order that takes it over still agrees with the counter.
LEMMA ReportAgrees ==
  ASSUME IInv, OrdersAgree, NEW o \in Orders,
         NEW r \in [id : {o}, type : ReportTypes, cum : Volumes(o)],
         Reported(o, r.type, r.cum), ~Contradicts(book.orders[o], r)
  PROVE  LET was == book.orders[o]
             after == OrderAfterReport(was, r) IN
         /\ Agrees(after, counter[o])
         /\ after.seed = was.seed /\ after.accounted = was.accounted
         /\ after.reconcile = was.reconcile /\ after.reported = r.cum
         /\ was.cancelAck => after.cancelAck
         /\ r.type = "Canceled" => after.cancelAck
         /\ r.type = "Filled" => r.cum = was.seed.quantity
         /\ r.type = "Canceled" => /\ counter[o].status = "Canceled"
                                   /\ r.cum = counter[o].filled
         /\ r.type = "Rejected" \/ was.state = "Rejected" => after.state = "Rejected"
         /\ after.state # "Absent" /\ after \in Order
<1> DEFINE was == book.orders[o]
           c == counter[o]
           after == OrderAfterReport(was, r)
<1>1. /\ was \in Order /\ SoundOrder(was) /\ c \in CounterOrder /\ Agrees(was, c)
  BY DEF IInv, TypeOK, Book, SoundBook, OrdersAgree
<1>2. /\ r \in OrderReport /\ r.id = o
      /\ was.state # "Absent" /\ ~Malformed(was, r)
      /\ r.cum \in 0 .. c.filled
      /\ ~(r.type = "Filled" /\ was.state = "Rejected")
  BY TruthfulReport
<1>3. after \in Order /\ SoundOrder(after)
  BY <1>1, <1>2, OrderAfterReportSound
<1>4. /\ after.seed = was.seed /\ after.accounted = was.accounted
      /\ after.reconcile = was.reconcile /\ after.reported = r.cum
      /\ after.state = StateAfterReport(was, r)
      /\ after.cancelAck = (was.cancelAck
                              \/ (r.type = "Canceled" /\ was.state # "Filled"))
  BY <1>1 DEF OrderAfterReport, Order
<1>5. /\ c.filled \in Nat /\ was.seed.quantity \in Int /\ r.type \in ReportTypes
      /\ was.state \in OrderStates /\ r.cum \in Nat
  BY <1>1, <1>2 DEF CounterOrder, Order, Seed, OrderReport
<1>6. /\ c.status # "None"
      /\ r.type = "PartiallyFilled" => r.cum > 0
      /\ r.type = "Filled" => r.cum = was.seed.quantity
      /\ r.type = "Canceled" => c.status = "Canceled" /\ r.cum = c.filled
      /\ r.type = "Rejected" => c.status = "Rejected"
  BY <1>1, <1>2, <1>5 DEF Reported, Agrees, Quantity, SoundOrder, ReportTypes,
     Malformed
<1>7. /\ was.state = "Filled" => c.status # "Canceled"
      /\ c.status = "Rejected" /\ r.type = "Rejected" =>
           was.state \in {"Submitted", "Accepted", "Rejected"}
      /\ was.state = "Rejected" => r.type \notin {"PartiallyFilled", "Filled",
                                                  "Canceled"}
  BY <1>1, <1>2, <1>5, <1>6 DEF Agrees, Contradicts
<1> HIDE DEF after
<1>8. /\ after.state = was.state \/ after.state = ReportTarget(r)
      /\ r.type = "Rejected" \/ was.state = "Rejected" => after.state = "Rejected"
      /\ after.state = ReportTarget(r) =>
           after.state = was.state \/ was.state \in ReportSource(r.type)
  BY <1>4, <1>5, <1>6, <1>7
  DEF StateAfterReport, ReportSource, ReportTarget, ReportTypes
<1>9. ASSUME after.state # was.state
      PROVE  /\ after.state \in {"Accepted", "PartiallyFilled", "Filled",
                                 "Canceled", "Rejected"}
             /\ after.state = "PartiallyFilled" => c.filled > 0
             /\ after.state = "Filled" => c.filled = was.seed.quantity
             /\ after.state = "Canceled" => c.status = "Canceled"
             /\ after.state = "Rejected" => c.status = "Rejected"
  <2>1. after.state = ReportTarget(r) /\ was.state \in ReportSource(r.type)
    BY <1>8, <1>9
  <2>2. r.type # "Submitted"
    BY <1>1, <1>6, <2>1 DEF ReportSource, Agrees
  <2> QED
    BY <1>1, <1>2, <1>5, <1>6, <2>1, <2>2 DEF ReportTarget, ReportTypes, Agrees
<1>10. after.cancelAck => c.status = "Canceled"
  <2>1. was.cancelAck \in BOOLEAN
    BY <1>1 DEF Order
  <2> QED BY <1>1, <1>4, <1>6, <2>1 DEF Agrees
<1>11. Agrees(after, c)
  <2> HIDE DEF c, was
  <2>1. CASE after.state = was.state
    BY <1>1, <1>2, <1>4, <1>5, <1>6, <1>10, <2>1 DEF Agrees
  <2>2. CASE after.state # was.state
    BY <1>1, <1>2, <1>4, <1>5, <1>6, <1>9, <1>10, <2>2 DEF Agrees
  <2> QED BY <2>1, <2>2
<1>12. after.state # "Absent"
  BY <1>2, <1>5, <1>9 DEF OrderStates
<1> QED
  BY <1>3, <1>4, <1>6, <1>7, <1>8, <1>11, <1>12 DEF after

-----------------------------------------------------------------------------
(* The lots of the recorded trades *)

\* Every recorded trade is a fill of its order, and the order accounts for the
\* lots of its trades.
TradesAreFills ==
  \A t \in book.trades :
    t.id \in Orders /\ \E f \in counter[t.id].fills : t = TradeOf(t.id, f)

LotsInv ==
  /\ IsFiniteSet(book.trades) /\ IsFiniteSet(LotsOf(book.trades))
  /\ TradesAreFills
  /\ \A o \in Orders :
       book.orders[o].accounted = Cardinality(LotsOf(Recorded(o)))

\* A run of lots of one order is as many as its ends are apart.
LEMMA LotsCount ==
  ASSUME NEW id, NEW low \in Nat, NEW high \in Nat, low <= high
  PROVE  LET lots == {<<id, n>> : n \in low + 1 .. high} IN
         IsFiniteSet(lots) /\ Cardinality(lots) = high - low
<1> DEFINE lots == {<<id, n>> : n \in low + 1 .. high}
           lot == [n \in low + 1 .. high |-> <<id, n>>]
<1>1. lot \in Bijection(low + 1 .. high, lots)
  <2>1. lot \in [low + 1 .. high -> lots]
    OBVIOUS
  <2>2. \A m, n \in low + 1 .. high : lot[m] = lot[n] => m = n
    OBVIOUS
  <2>3. \A l \in lots : \E n \in low + 1 .. high : lot[n] = l
    OBVIOUS
  <2> HIDE DEF lot, lots
  <2> QED BY <2>1, <2>2, <2>3 DEF Bijection, Injection, Surjection, IsInjective
<1>2. /\ IsFiniteSet(low + 1 .. high)
      /\ Cardinality(low + 1 .. high) = high - low
  <2>1. low + 1 \in Int /\ high \in Int
    OBVIOUS
  <2>2. /\ IsFiniteSet(low + 1 .. high)
        /\ Cardinality(low + 1 .. high)
             = IF low + 1 > high THEN 0 ELSE high - (low + 1) + 1
    BY <2>1, FS_Interval
  <2> QED BY <2>2
<1> HIDE DEF lots, lot
<1> QED BY <1>1, <1>2, FS_Bijection DEF ExistsBijection, lots

\* The lots of a fill
LEMMA LotsOfFill ==
  ASSUME IInv, NEW o \in Orders, NEW f \in counter[o].fills
  PROVE  LET t == TradeOf(o, f) IN
         /\ Lots(t) = {<<o, n>> : n \in f[1] + 1 .. f[2]}
         /\ IsFiniteSet(Lots(t)) /\ Cardinality(Lots(t)) = t.quantity
         /\ f \in Nat \X Nat /\ f[1] < f[2]
         /\ t.quantity \in Nat \ {0} /\ t.quantity = f[2] - f[1]
         /\ t \in TradeReport /\ t.id = o /\ t.key = <<o, f[2]>>
<1> DEFINE t == TradeOf(o, f)
<1>1. f \in Nat \X Nat /\ f[1] < f[2]
  BY DEF IInv, TypeOK, CounterOrder, Fills
<1>2. /\ t.id = o /\ t.key = <<o, f[2]>> /\ t.key[2] = f[2]
      /\ t.quantity = f[2] - f[1]
  BY DEF TradeOf
<1>3. t \in TradeReport
  <2>1. t \in Emitted(o)
    BY DEF Emitted
  <2>2. book.orders[o].seed \in Seed
    BY DEF IInv, TypeOK, Book, Order
  <2> QED BY <1>1, <2>2 DEF TradeOf, TradeReport, TradeKeys, Seed
<1>4. f[2] - (f[2] - f[1]) + 1 = f[1] + 1 /\ f[2] - f[1] \in Nat \ {0}
  BY <1>1
<1> HIDE DEF t
<1>5. Lots(t) = {<<o, n>> : n \in f[1] + 1 .. f[2]}
  BY <1>2, <1>4 DEF Lots
<1>6. IsFiniteSet(Lots(t)) /\ Cardinality(Lots(t)) = f[2] - f[1]
  <2>1. f[1] \in Nat /\ f[2] \in Nat /\ f[1] <= f[2]
    BY <1>1
  <2>2. /\ IsFiniteSet({<<o, n>> : n \in f[1] + 1 .. f[2]})
        /\ Cardinality({<<o, n>> : n \in f[1] + 1 .. f[2]}) = f[2] - f[1]
    BY <2>1, LotsCount
  <2> QED BY <1>5, <2>2, Zenon
<1> QED BY <1>1, <1>2, <1>3, <1>4, <1>5, <1>6 DEF t

\* Two trades share no lot.
LEMMA LotsApart ==
  ASSUME IInv, OrdersAgree, NEW o \in Orders, NEW p \in Orders,
         NEW f \in counter[o].fills, NEW g \in counter[p].fills,
         TradeOf(o, f) # TradeOf(p, g)
  PROVE  Lots(TradeOf(o, f)) \cap Lots(TradeOf(p, g)) = {}
<1>1. /\ Lots(TradeOf(o, f)) = {<<o, n>> : n \in f[1] + 1 .. f[2]}
      /\ Lots(TradeOf(p, g)) = {<<p, n>> : n \in g[1] + 1 .. g[2]}
      /\ f \in Nat \X Nat /\ g \in Nat \X Nat
  BY LotsOfFill
<1>2. CASE o # p
  BY <1>1, <1>2
<1>3. CASE o = p
  <2>1. f # g
    BY <1>3
  <2>2. f[2] <= g[1] \/ g[2] <= f[1]
    BY <1>3, <2>1 DEF OrdersAgree, FillsTile
  <2> QED BY <1>1, <2>2
<1> QED BY <1>2, <1>3

\* The lots of a trade that shares none add up.
LEMMA LotsAdd ==
  ASSUME NEW T, IsFiniteSet(LotsOf(T)), NEW t, IsFiniteSet(Lots(t)),
         \A u \in T : Lots(u) \cap Lots(t) = {}
  PROVE  /\ IsFiniteSet(LotsOf(T \cup {t}))
         /\ Cardinality(LotsOf(T \cup {t}))
              = Cardinality(LotsOf(T)) + Cardinality(Lots(t))
<1>1. LotsOf(T \cup {t}) = LotsOf(T) \cup Lots(t)
  <2> HIDE DEF Lots
  <2> QED BY DEF LotsOf
<1>2. LotsOf(T) \cap Lots(t) = {}
  BY DEF LotsOf
<1>3. /\ Cardinality(LotsOf(T)) \in Nat /\ Cardinality(Lots(t)) \in Nat
  BY FS_CardinalityType
<1>4. Cardinality(LotsOf(T) \cap Lots(t)) = 0
  BY <1>2, FS_EmptySet, Zenon
<1>5. /\ IsFiniteSet(LotsOf(T) \cup Lots(t))
      /\ Cardinality(LotsOf(T) \cup Lots(t)) =
           Cardinality(LotsOf(T)) + Cardinality(Lots(t))
             - Cardinality(LotsOf(T) \cap Lots(t))
  BY FS_Union
<1>6. /\ IsFiniteSet(LotsOf(T \cup {t}))
      /\ Cardinality(LotsOf(T \cup {t})) = Cardinality(LotsOf(T) \cup Lots(t))
  BY <1>1, <1>5, Zenon
<1> QED BY <1>3, <1>4, <1>5, <1>6

\* A part of the trades has finitely many lots.
LEMMA LotsOfPart ==
  ASSUME NEW T, IsFiniteSet(LotsOf(T)), NEW S \in SUBSET T
  PROVE  IsFiniteSet(LotsOf(S)) /\ LotsOf(S) \subseteq LotsOf(T)
         /\ Cardinality(LotsOf(S)) \in Nat
<1>1. LotsOf(S) \subseteq LotsOf(T)
  BY DEF LotsOf
<1> QED BY <1>1, FS_Subset, FS_CardinalityType

\* The lots of fills of an order are lots the counter has filled.
LEMMA LotsWithin ==
  ASSUME IInv, OrdersAgree, NEW o \in Orders, NEW S,
         \A u \in S : \E f \in counter[o].fills : u = TradeOf(o, f)
  PROVE  LET lots == {<<o, n>> : n \in 1 .. counter[o].filled} IN
         /\ LotsOf(S) \subseteq lots /\ IsFiniteSet(LotsOf(S))
         /\ Cardinality(LotsOf(S)) <= counter[o].filled
         /\ IsFiniteSet(lots) /\ Cardinality(lots) = counter[o].filled
<1> DEFINE lots == {<<o, n>> : n \in 1 .. counter[o].filled}
<1>1. counter[o].filled \in Nat
  BY DEF IInv, TypeOK, CounterOrder
<1>2. IsFiniteSet(lots) /\ Cardinality(lots) = counter[o].filled
  <2>1. 0 \in Nat /\ 0 <= counter[o].filled /\ 0 + 1 = 1
    BY <1>1
  <2>2. LET all == {<<o, n>> : n \in 0 + 1 .. counter[o].filled} IN
        IsFiniteSet(all) /\ Cardinality(all) = counter[o].filled - 0
    BY <1>1, <2>1, LotsCount
  <2>3. counter[o].filled - 0 = counter[o].filled
    BY <1>1
  <2> QED BY <2>1, <2>2, <2>3
<1>3. ASSUME NEW u \in S PROVE Lots(u) \subseteq lots
  <2>1. PICK f \in counter[o].fills : u = TradeOf(o, f)
    OBVIOUS
  <2>2. /\ Lots(u) = {<<o, n>> : n \in f[1] + 1 .. f[2]}
        /\ f[1] \in Nat /\ f[2] \in Nat
    BY <2>1, LotsOfFill
  <2>3. f[2] <= counter[o].filled
    BY DEF OrdersAgree, FillsTile
  <2> QED BY <1>1, <2>2, <2>3
<1>4. LotsOf(S) \subseteq lots
  BY <1>3 DEF LotsOf
<1> HIDE DEF lots
<1>5. IsFiniteSet(LotsOf(S)) /\ Cardinality(LotsOf(S)) <= Cardinality(lots)
  BY <1>2, <1>4, FS_Subset
<1> QED BY <1>2, <1>4, <1>5 DEF lots

\* A trade of the counter fits its order, unless the book has it already.
LEMMA TruthfulTrade ==
  ASSUME IInv, OrdersAgree, LotsInv, NEW o \in Orders,
         NEW f \in counter[o].fills
  PROVE  LET t == TradeOf(o, f)
             was == book.orders[o] IN
         /\ t \in TradeReport /\ t.id = o /\ t.quantity \in Nat \ {0}
         /\ was.state \notin {"Absent", "RiskRejected", "SubmitRejectedLocally",
                              "Rejected"}
         /\ counter[o].status \notin {"None", "Rejected"}
         /\ SameKey(book, t) \subseteq {t}
         /\ t \notin book.trades =>
              /\ ~Mismatched(was, t)
              /\ \A u \in book.trades : Lots(u) \cap Lots(t) = {}
              /\ was.accounted + t.quantity <= counter[o].filled
<1> DEFINE t == TradeOf(o, f)
           was == book.orders[o]
           c == counter[o]
<1>1. /\ was \in Order /\ c \in CounterOrder /\ Agrees(was, c) /\ FillsTile(c)
  BY DEF IInv, TypeOK, Book, OrdersAgree
<1>2. /\ IsFiniteSet(Lots(t)) /\ Cardinality(Lots(t)) = t.quantity
      /\ f \in Nat \X Nat /\ f[1] < f[2] /\ t.quantity \in Nat \ {0}
      /\ t \in TradeReport /\ t.id = o /\ t.key = <<o, f[2]>>
  BY LotsOfFill
<1>3. c.filled \in Nat /\ f[2] <= c.filled /\ c.filled > 0
  BY <1>1, <1>2 DEF CounterOrder, FillsTile
<1>4. /\ c.status \notin {"None", "Rejected"}
      /\ was.state \notin {"Absent", "RiskRejected", "SubmitRejectedLocally",
                           "Rejected"}
  BY <1>1, <1>3 DEF Agrees
<1>5. ASSUME NEW u \in book.trades, u.key = t.key PROVE u = t
  <2> DEFINE p == u.id
  <2>1. p \in Orders /\ \E g \in counter[p].fills : u = TradeOf(p, g)
    BY DEF LotsInv, TradesAreFills
  <2> HIDE DEF p
  <2>a. PICK g \in counter[p].fills : u = TradeOf(p, g)
    BY <2>1
  <2>2. u.key = <<p, g[2]>> /\ g \in Nat \X Nat /\ g[1] < g[2]
    BY <2>1, <2>a, LotsOfFill
  <2>3. p = o /\ g[2] = f[2]
    BY <1>2, <1>5, <2>2
  <2>4. f = g
    <3>1. f # g => f[2] <= g[1] \/ g[2] <= f[1]
      BY <1>1, <2>3 DEF FillsTile
    <3> QED BY <1>2, <2>2, <2>3, <3>1
  <2> QED BY <2>a, <2>3, <2>4
<1>6. ASSUME t \notin book.trades
      PROVE  \A u \in book.trades : Lots(u) \cap Lots(t) = {}
  <2> SUFFICES ASSUME NEW u \in book.trades PROVE Lots(u) \cap Lots(t) = {}
    OBVIOUS
  <2>1. u.id \in Orders /\ \E g \in counter[u.id].fills : u = TradeOf(u.id, g)
    BY DEF LotsInv, TradesAreFills
  <2>2. u # t
    BY <1>6
  <2> HIDE DEF t
  <2> QED BY <2>1, <2>2, LotsApart DEF t
<1>7. ASSUME t \notin book.trades
      PROVE  was.accounted + t.quantity <= c.filled
  <2> DEFINE mine == Recorded(o)
  <2>1. \A u \in mine \cup {t} : \E g \in counter[o].fills : u = TradeOf(o, g)
    BY DEF LotsInv, TradesAreFills, Recorded
  <2>2. mine \subseteq book.trades
    BY DEF Recorded
  <2>3. IsFiniteSet(LotsOf(mine))
    BY <2>2, LotsOfPart DEF LotsInv
  <2>4. Cardinality(LotsOf(mine \cup {t})) <= c.filled
    BY <2>1, LotsWithin
  <2> HIDE DEF t, mine
  <2>5. Cardinality(LotsOf(mine \cup {t}))
          = Cardinality(LotsOf(mine)) + Cardinality(Lots(t))
    BY <1>2, <1>6, <1>7, <2>2, <2>3, LotsAdd
  <2>6. was.accounted = Cardinality(LotsOf(mine))
    BY DEF LotsInv, mine
  <2> QED BY <1>2, <2>4, <2>5, <2>6
<1>8. ASSUME t \notin book.trades PROVE ~Mismatched(was, t)
  <2>1. was.accounted \in Nat /\ was.seed.quantity \in Int
    BY <1>1 DEF Order, Seed
  <2>2. was.accounted + t.quantity <= was.seed.quantity
    BY <1>1, <1>2, <1>3, <1>7, <1>8, <2>1 DEF Agrees
  <2>3. /\ t.instrument = was.seed.instrument /\ t.direction = was.seed.direction
        /\ t.offset = was.seed.offset
    BY DEF TradeOf
  <2> HIDE DEF t, was
  <2> QED BY <1>2, <2>1, <2>2, <2>3 DEF Mismatched
<1> QED BY <1>2, <1>4, <1>5, <1>6, <1>7, <1>8 DEF SameKey

-----------------------------------------------------------------------------
(* What a step without strays does to the book *)

\* A report about o: it is old, or contradicts the order, or is taken over.
TakesReport(o, r) ==
  LET was == book.orders[o] IN
  /\ r \in [id : {o}, type : ReportTypes, cum : Volumes(o)]
  /\ Reported(o, r.type, r.cum)
  /\ \/ r.cum < was.reported /\ book' = book
     \/ Contradicts(was, r) /\ book' = Flag(book, {o})
     \/ /\ ~Contradicts(was, r) /\ r.cum >= was.reported
        /\ book' = [book EXCEPT !.orders[o] = OrderAfterReport(was, r)]

\* A trade of o: it is known, or there is no room for it, or it is recorded.
TakesTrade(o, f) ==
  LET t == TradeOf(o, f) IN
  /\ f \in counter[o].fills
  /\ \/ t \in book.trades /\ book' = book
     \/ t \notin book.trades /\ NoTradeSlot(book, t) /\ book' = Flag(book, {o})
     \/ /\ t \notin book.trades /\ ~NoTradeSlot(book, t)
        /\ book' = IF Overcloses(book.positions[t.instrument], t)
                   THEN Flag(RecordTrade(book, t), {o})
                   ELSE RecordTrade(book, t)

\* An event of the session moves the order it names.
TakesEvent(o, event) ==
  LET was == book.orders[o] IN
  /\ was.state \in LocalSource(event) /\ event # "SubmitResultUnknown"
  /\ book' = [book EXCEPT !.orders[o] = [was EXCEPT !.state = LocalTarget(event)]]
  /\ counter' = [counter EXCEPT
                   ![o].status = IF event = "Submitted" THEN "Submitted" ELSE @,
                   ![o].asked = @ \/ event = "CancelRequested"]

\* An order is made in a free slot.
TakesOrder(o, seed) ==
  /\ seed \in Seed /\ seed.quantity > 0 /\ book.orders[o].state = "Absent"
  /\ ~(Cardinality(Occupied(book)) >= OrderCapacity)
  /\ book' = [book EXCEPT !.orders[o] =
                [NoOrder EXCEPT !.state = "Created", !.seed = seed]]

\* A report is no trade.
LEMMA ReportsAreNoTrades ==
  ASSUME NEW m \in OrderReport
  PROVE  m \notin TradeReport
<1>1. "type" \in DOMAIN m
  BY DEF OrderReport
<1>2. m \in TradeReport => "type" \notin DOMAIN m
  BY DEF TradeReport
<1> QED BY <1>1, <1>2

\* What a delivery does.
LEMMA DeliverCases ==
  ASSUME IInv, OrdersAgree, LotsInv, NEW o \in Orders, Deliver(o)
  PROVE  /\ UNCHANGED <<counter, strayed>>
         /\ \/ \E r : /\ TakesReport(o, r)
                      /\ delivered' = IF r.type \in {"Filled", "Canceled", "Rejected"}
                                      THEN delivered \cup {r} ELSE delivered
            \/ \E f : /\ TakesTrade(o, f)
                      /\ delivered' = delivered \cup {TradeOf(o, f)}
<1>1. PICK m \in Emitted(o) :
        /\ book' = Apply(m).book
        /\ delivered' = IF Outcome(m) THEN delivered \cup {m} ELSE delivered
        /\ UNCHANGED <<counter, strayed>>
  BY DEF Deliver
<1>2. CASE m \in [id : {o}, type : ReportTypes, cum : Volumes(o)]
           /\ Reported(o, m.type, m.cum)
  <2> DEFINE was == book.orders[o]
             after == OrderAfterReport(was, m)
             merged == [book EXCEPT !.orders[o] = after]
  <2>1. /\ m \in OrderReport /\ m.id = o
        /\ was.state # "Absent" /\ ~Malformed(was, m)
        /\ ~(m.type = "Filled" /\ was.state = "Rejected")
    BY <1>2, TruthfulReport
  <2>2. book' = ApplyOrderReport(book, m).book
    BY <1>1, <2>1 DEF Apply
  <2>3. m.cum \in Int /\ was.reported \in Nat
    BY <2>1 DEF OrderReport, IInv, TypeOK, Book, Order
  <2> HIDE DEF was, after
  <2>4. \/ m.cum < was.reported /\ book' = book
        \/ Contradicts(was, m) /\ book' = Flag(book, {o})
        \/ ~Contradicts(was, m) /\ ~(m.cum < was.reported) /\ book' = merged
    BY <2>1, <2>2 DEF ApplyOrderReport, Conflict, Refused, Ignored, Result, was, after
  <2>5. TakesReport(o, m)
    BY <1>2, <2>3, <2>4 DEF TakesReport, was, after
  <2>6. Outcome(m) <=> m.type \in {"Filled", "Canceled", "Rejected"}
    BY <2>1, ReportsAreNoTrades DEF Outcome
  <2> QED BY <1>1, <2>5, <2>6
<1>3. CASE \E f \in counter[o].fills : m = TradeOf(o, f)
  <2>1. PICK f \in counter[o].fills : m = TradeOf(o, f)
    BY <1>3
  <2> DEFINE t == TradeOf(o, f)
             was == book.orders[o]
  <2>2. /\ t \in TradeReport /\ t.id = o /\ t.quantity \in Nat \ {0}
        /\ was.state \notin {"Absent", "RiskRejected", "SubmitRejectedLocally",
                             "Rejected"}
        /\ SameKey(book, t) \subseteq {t}
        /\ t \notin book.trades => ~Mismatched(was, t)
    BY TruthfulTrade
  <2>3. t \notin OrderReport
    BY <2>2, ReportsAreNoTrades
  <2> HIDE DEF t, was
  <2>4. book' = ApplyTrade(book, t).book /\ Outcome(t)
    BY <1>1, <2>1, <2>2, <2>3 DEF Apply, Outcome, t
  <2>5. SameKey(book, t) = IF t \in book.trades THEN {t} ELSE {}
    BY <2>2 DEF SameKey
  <2>6. \/ t \in book.trades /\ book' = book
        \/ t \notin book.trades /\ NoTradeSlot(book, t) /\ book' = Flag(book, {o})
        \/ /\ t \notin book.trades /\ ~NoTradeSlot(book, t)
           /\ book' = IF Overcloses(book.positions[t.instrument], t)
                      THEN Flag(RecordTrade(book, t), {o})
                      ELSE RecordTrade(book, t)
    <3>1. ~(t.quantity <= 0)
      BY <2>2
    <3>2. CASE t \in book.trades
      BY <2>2, <2>4, <2>5, <3>1, <3>2 DEF ApplyTrade, Ignored, Result
    <3>3. CASE t \notin book.trades
      <4>1. SameKey(book, t) = {}
        BY <2>5, <3>3
      <4> QED
        BY <2>2, <2>4, <3>1, <3>3, <4>1 DEF ApplyTrade, Refused, Result, was
    <3> QED BY <3>2, <3>3
  <2>7. TakesTrade(o, f)
    BY <2>6 DEF TakesTrade, t
  <2> QED BY <1>1, <2>1, <2>4, <2>7 DEF t
<1> QED BY <1>1, <1>2, <1>3 DEF Emitted

\* What an event of the session does.
LEMMA LocalCases ==
  ASSUME IInv, NEW o \in Orders, NEW event \in LocalEvents, Local(o, event)
  PROVE  /\ UNCHANGED <<delivered, strayed>>
         /\ TakesEvent(o, event) \/ UNCHANGED <<book, counter>>
<1> DEFINE result == ApplyLocalEvent(book, o, event)
           was == book.orders[o]
<1>1. /\ result.code \in {"Applied", "Duplicate", "Stale"}
      /\ event # "SubmitResultUnknown" /\ book' = result.book
      /\ counter' = [counter EXCEPT
                       ![o].status = IF result.code = "Applied" /\ event = "Submitted"
                                     THEN "Submitted" ELSE @,
                       ![o].asked = @ \/ (result.code = "Applied"
                                            /\ event = "CancelRequested")]
      /\ UNCHANGED <<delivered, strayed>>
  BY DEF Local
<1>2. LocalTarget(event) # "SubmitResultUnknown"
  BY <1>1 DEF LocalTarget
<1>3. \/ /\ result.code = "Applied" /\ was.state \in LocalSource(event)
         /\ result.book = [book EXCEPT !.orders[o] =
                             [was EXCEPT !.state = LocalTarget(event)]]
      \/ result.code # "Applied" /\ result.book = book
  BY <1>1, <1>2 DEF ApplyLocalEvent, Refused, Conflict, Ignored, Result
<1> HIDE DEF result
<1>4. CASE result.code = "Applied"
  BY <1>1, <1>3, <1>4 DEF TakesEvent
<1>5. CASE result.code # "Applied"
  <2>1. counter' = [counter EXCEPT ![o].status = counter[o].status,
                                   ![o].asked = counter[o].asked \/ FALSE]
    BY <1>1, <1>5
  <2>2. counter \in [Orders -> CounterOrder] /\ counter[o].asked \in BOOLEAN
    BY DEF IInv, TypeOK, CounterOrder
  <2>3. counter' = counter
    BY <2>1, <2>2 DEF CounterOrder
  <2> QED BY <1>1, <1>3, <1>5, <2>3
<1> QED BY <1>4, <1>5

\* What making an order does.
LEMMA CreateCases ==
  ASSUME IInv, NEW o \in Orders, Create(o)
  PROVE  /\ UNCHANGED <<counter, delivered, strayed>>
         /\ \/ book' = book \/ book' = Flag(book, {})
            \/ \E seed : TakesOrder(o, seed)
<1>1. PICK seed \in Seeds[o] :
        /\ CreateOrder(book, o, seed).code # "Conflict"
        /\ book' = CreateOrder(book, o, seed).book
  BY DEF Create
<1>2. seed \in Seed
  BY SeedsAssumption
<1>3. seed.quantity \in Int
  BY <1>2 DEF Seed
<1>4. ~(seed.quantity <= 0)
  BY <1>1 DEF CreateOrder, Conflict, Refused, Result
<1>5. \/ book' = book \/ book' = Flag(book, {})
      \/ /\ book.orders[o].state = "Absent"
         /\ ~(Cardinality(Occupied(book)) >= OrderCapacity)
         /\ book' = [book EXCEPT !.orders[o] =
                       [NoOrder EXCEPT !.state = "Created", !.seed = seed]]
  BY <1>1, <1>4 DEF CreateOrder, Conflict, Refused, Ignored, Result
<1>6. seed.quantity > 0
  BY <1>3, <1>4
<1> QED BY <1>2, <1>5, <1>6 DEF TakesOrder, Create

\* Flagging one order, or none
LEMMA FlagOne ==
  ASSUME NEW b, b \in Book, NEW o \in Orders
  PROVE  /\ Flag(b, {o}).trades = b.trades /\ Flag(b, {}).trades = b.trades
         /\ Flag(b, {o}).positions = b.positions
         /\ Flag(b, {}).positions = b.positions
         /\ Flag(b, {}).orders = b.orders
         /\ Flag(b, {o}).orders =
              [b.orders EXCEPT ![o] = [b.orders[o] EXCEPT !.reconcile = TRUE]]
<1> DEFINE Flagged(ids) == [p \in Orders |-> IF p \in ids
                                             THEN [b.orders[p] EXCEPT !.reconcile = TRUE]
                                             ELSE b.orders[p]]
<1>1. \A ids : Flag(b, ids) = [b EXCEPT !.reconciliation = TRUE,
                                        !.orders = Flagged(ids)]
  BY DEF Flag
<1>2. /\ Flagged({}) = b.orders
      /\ Flagged({o}) =
           [b.orders EXCEPT ![o] = [b.orders[o] EXCEPT !.reconcile = TRUE]]
  BY DEF Book
<1> HIDE DEF Flagged
<1>3. ASSUME NEW ids
      PROVE  /\ Flag(b, ids).trades = b.trades
             /\ Flag(b, ids).positions = b.positions
             /\ Flag(b, ids).orders = Flagged(ids)
  <2>1. Flag(b, ids) = [b EXCEPT !.reconciliation = TRUE, !.orders = Flagged(ids)]
    BY <1>1
  <2> QED BY <2>1 DEF Book
<1> QED BY <1>2, <1>3

\* Recording a trade
LEMMA RecordOne ==
  ASSUME NEW b, b \in Book, NEW t \in TradeReport
  PROVE  LET c == RecordTrade(b, t) IN
         /\ c.trades = b.trades \cup {t}
         /\ c.orders = [b.orders EXCEPT ![t.id] = OrderAfterTrade(b.orders[t.id], t)]
         /\ c.positions = [b.positions EXCEPT ![t.instrument] =
                             PositionAfterTrade(b.positions[t.instrument], t)]
<1> DEFINE order == OrderAfterTrade(b.orders[t.id], t)
           position == PositionAfterTrade(b.positions[t.instrument], t)
<1>1. RecordTrade(b, t) = [b EXCEPT !.trades = @ \cup {t},
                                    !.orders[t.id] = order,
                                    !.positions[t.instrument] = position]
  BY DEF RecordTrade
<1> HIDE DEF order, position
<1>2. /\ RecordTrade(b, t).trades = b.trades \cup {t}
      /\ RecordTrade(b, t).orders = [b.orders EXCEPT ![t.id] = order]
      /\ RecordTrade(b, t).positions = [b.positions EXCEPT ![t.instrument] = position]
  BY <1>1 DEF Book
<1> QED BY <1>2 DEF order, position

\* What the recorded trade makes of its order
LEMMA OrderAfterFill ==
  ASSUME IInv, OrdersAgree, LotsInv, NEW o \in Orders,
         NEW f \in counter[o].fills, TradeOf(o, f) \notin book.trades
  PROVE  LET was == book.orders[o]
             t == TradeOf(o, f)
             after == OrderAfterTrade(was, t) IN
         /\ after.seed = was.seed /\ after.reported = was.reported
         /\ after.accounted = was.accounted + t.quantity
         /\ after.reconcile = was.reconcile /\ after.cancelAck = was.cancelAck
         /\ after.state \in {"PartiallyFilled", "Filled"}
         /\ Agrees(after, counter[o]) /\ after \in Order
<1> DEFINE was == book.orders[o]
           c == counter[o]
           t == TradeOf(o, f)
           after == OrderAfterTrade(was, t)
<1>1. /\ was \in Order /\ c \in CounterOrder /\ Agrees(was, c) /\ FillsTile(c)
  BY DEF IInv, TypeOK, Book, OrdersAgree
<1>2. /\ t.quantity \in Nat \ {0} /\ c.status \notin {"None", "Rejected"}
      /\ was.accounted + t.quantity <= c.filled
  BY TruthfulTrade
<1>3. /\ was.accounted \in Nat /\ c.filled \in Nat /\ was.seed.quantity \in Int
      /\ c.filled <= was.seed.quantity
  BY <1>1 DEF Order, CounterOrder, Seed, Agrees
<1> HIDE DEF t
<1>4. /\ after.seed = was.seed /\ after.reported = was.reported
      /\ after.accounted = was.accounted + t.quantity
      /\ after.reconcile = was.reconcile /\ after.cancelAck = was.cancelAck
      /\ after.state = IF was.accounted + t.quantity = was.seed.quantity
                       THEN "Filled" ELSE "PartiallyFilled"
  BY <1>1 DEF OrderAfterTrade, Order
<1>5. after \in Order
  <2>1. was.accounted + t.quantity \in Nat
    BY <1>2, <1>3
  <2> QED BY <1>1, <2>1 DEF OrderAfterTrade, Order, OrderStates
<1>6. c.filled > 0 /\ (after.state = "Filled" => c.filled = was.seed.quantity)
  BY <1>2, <1>3, <1>4
<1> HIDE DEF after, was, c
<1>7. Agrees(after, c)
  BY <1>1, <1>2, <1>4, <1>6 DEF Agrees
<1> QED BY <1>4, <1>5, <1>7 DEF after, was, c, t

-----------------------------------------------------------------------------
(* The book and the counter go on agreeing *)

\* The counter's own steps
LEMMA CounterAgrees ==
  ASSUME IInv, OrdersAgree, NEW o \in Orders,
         Accept(o) \/ Reject(o) \/ Fill(o) \/ Cancel(o)
  PROVE  OrdersAgree' /\ UNCHANGED <<book, delivered, strayed>>
<1> DEFINE was == book.orders[o]
           c == counter[o]
<1>0. UNCHANGED <<book, delivered, strayed>>
  BY DEF Accept, Reject, Fill, Cancel
<1>1. /\ counter \in [Orders -> CounterOrder] /\ was \in Order
      /\ c \in CounterOrder /\ Agrees(was, c) /\ FillsTile(c)
      /\ c.filled \in Nat /\ Quantity(o) = was.seed.quantity
      /\ was.seed.quantity \in Int /\ was.reported \in Nat
  BY DEF IInv, TypeOK, Book, Order, Seed, CounterOrder, OrdersAgree, Quantity
<1>2. ASSUME NEW d, counter' = [counter EXCEPT ![o] = d],
             Agrees(was, d), FillsTile(d)
      PROVE  OrdersAgree'
  BY <1>0, <1>1, <1>2 DEF OrdersAgree
<1>3. CASE Accept(o) \/ Reject(o) \/ Cancel(o)
  <2>1. PICK status \in {"Accepted", "Rejected", "Canceled"} :
          /\ counter' = [counter EXCEPT ![o] = [c EXCEPT !.status = status]]
          /\ status = "Accepted" => c.status = "Submitted"
          /\ status = "Rejected" => c.status = "Submitted" /\ c.fills = {}
          /\ status = "Canceled" => Live(o)
    BY <1>3 DEF Accept, Reject, Cancel
  <2> DEFINE d == [c EXCEPT !.status = status]
  <2>2. /\ d.status = status /\ d.filled = c.filled /\ d.fills = c.fills
        /\ d.asked = c.asked
    BY <1>1 DEF CounterOrder
  <2>3. status = "Rejected" => c.filled = 0
    BY <1>1, <2>1 DEF FillsTile
  <2>4. status = "Canceled" =>
          c.status \in {"Submitted", "Accepted"} /\ c.filled < was.seed.quantity
    BY <1>1, <2>1 DEF Live
  <2> HIDE DEF d, c, was
  <2>5. Agrees(was, d)
    BY <1>1, <2>1, <2>2, <2>3, <2>4 DEF Agrees
  <2>6. FillsTile(d)
    BY <1>1, <2>2 DEF FillsTile
  <2> QED BY <1>0, <1>2, <2>1, <2>5, <2>6 DEF d
<1>4. CASE Fill(o)
  <2>1. PICK m \in (c.filled + 1) .. was.seed.quantity :
          counter' = [counter EXCEPT ![o].filled = m,
                                     ![o].fills = c.fills \cup {<<c.filled, m>>}]
    BY <1>1, <1>4 DEF Fill
  <2>2. c.status \in {"Submitted", "Accepted"} /\ c.filled < was.seed.quantity
    BY <1>1, <1>4 DEF Fill, Live
  <2> DEFINE d == [c EXCEPT !.filled = m, !.fills = c.fills \cup {<<c.filled, m>>}]
  <2>3. /\ d.status = c.status /\ d.filled = m /\ d.asked = c.asked
        /\ d.fills = c.fills \cup {<<c.filled, m>>}
    BY <1>1 DEF CounterOrder
  <2>4. c.fills \subseteq Nat \X Nat
    BY <1>1 DEF CounterOrder, Fills
  <2> HIDE DEF d, c, was
  <2>5. Agrees(was, d)
    BY <1>1, <2>1, <2>2, <2>3 DEF Agrees
  <2>6. FillsTile(d)
    <3>1. \A f \in d.fills : f[2] <= d.filled
      BY <1>1, <2>1, <2>3, <2>4 DEF FillsTile
    <3>2. \A f, g \in d.fills : f # g => f[2] <= g[1] \/ g[2] <= f[1]
      BY <1>1, <2>1, <2>3, <2>4 DEF FillsTile
    <3>3. \A n \in 1 .. d.filled : \E f \in d.fills : f[1] < n /\ n <= f[2]
      <4> SUFFICES ASSUME NEW n \in 1 .. m
                   PROVE  \E f \in d.fills : f[1] < n /\ n <= f[2]
        BY <2>3
      <4>1. CASE n <= c.filled
        BY <1>1, <2>3, <4>1 DEF FillsTile
      <4>2. CASE n > c.filled
        <5>1. <<c.filled, m>> \in d.fills
          BY <2>3
        <5>2. <<c.filled, m>>[1] < n /\ n <= <<c.filled, m>>[2]
          BY <4>2
        <5> QED BY <5>1, <5>2
      <4> QED BY <1>1, <2>1, <4>1, <4>2
    <3> QED BY <3>1, <3>2, <3>3 DEF FillsTile
  <2> QED
    <3>1. counter' = [counter EXCEPT ![o] = d]
      BY <2>1 DEF d, c
    <3> QED BY <1>0, <1>2, <2>5, <2>6, <3>1
<1> QED BY <1>0, <1>3, <1>4

\* How an order may change that has been made: its fills are never forgotten,
\* nor its cancellation, nor that it needs reconciliation, and a rejection is
\* final.
Onward(was, now) ==
  /\ now.seed = was.seed /\ now.state # "Absent"
  /\ was.reported <= now.reported
  /\ was.cancelAck => now.cancelAck
  /\ was.reconcile => now.reconcile
  /\ was.state = "Rejected" => now.state = "Rejected"

\* Only o may have changed, and only onward.
OrderMoves(o) ==
  \E after \in Order :
    /\ book'.orders = [book.orders EXCEPT ![o] = after]
    /\ Agrees(after, counter'[o])
    /\ book.orders[o].state # "Absent" => Onward(book.orders[o], after)

\* A flag moves no order away from the counter.
LEMMA FlaggedOnward ==
  ASSUME NEW was \in Order, NEW now \in Order, Onward(was, now), NEW c, Agrees(now, c)
  PROVE  LET flagged == [now EXCEPT !.reconcile = TRUE] IN
         flagged \in Order /\ Onward(was, flagged) /\ Agrees(flagged, c)
<1> DEFINE flagged == [now EXCEPT !.reconcile = TRUE]
<1>1. /\ flagged \in Order /\ flagged.seed = now.seed /\ flagged.state = now.state
      /\ flagged.reported = now.reported /\ flagged.cancelAck = now.cancelAck
      /\ flagged.reconcile = TRUE
  BY DEF Order
<1> HIDE DEF flagged
<1> QED BY <1>1 DEF Onward, Agrees, flagged

\* What is delivered moves the order it is about.
LEMMA DeliverMoves ==
  ASSUME IInv, OrdersAgree, LotsInv, NEW o \in Orders, Deliver(o)
  PROVE  OrderMoves(o) /\ book.orders[o].state # "Absent"
<1> DEFINE was == book.orders[o]
           c == counter[o]
<1>1. /\ book \in Book /\ book.orders \in [Orders -> Order] /\ was \in Order
      /\ Agrees(was, c) /\ was.reported \in Nat
  BY DEF IInv, TypeOK, Book, Order, OrdersAgree
<1>2. counter' = counter
  BY DeliverCases
<1>3. ASSUME was.state # "Absent", book' = book PROVE OrderMoves(o)
  <2>1. book'.orders = [book.orders EXCEPT ![o] = was]
    BY <1>1, <1>3
  <2>2. Onward(was, was)
    BY <1>1, <1>3 DEF Onward
  <2> QED BY <1>1, <1>2, <2>1, <2>2 DEF OrderMoves
<1>4. ASSUME was.state # "Absent", book' = Flag(book, {o}) PROVE OrderMoves(o)
  <2> DEFINE flagged == [was EXCEPT !.reconcile = TRUE]
  <2>1. book'.orders = [book.orders EXCEPT ![o] = flagged]
    BY <1>1, <1>4, FlagOne
  <2>2. Onward(was, was)
    BY <1>1, <1>4 DEF Onward
  <2>3. flagged \in Order /\ Onward(was, flagged) /\ Agrees(flagged, c)
    BY <1>1, <2>2, FlaggedOnward
  <2> HIDE DEF flagged
  <2> QED BY <1>2, <2>1, <2>3 DEF OrderMoves
<1>5. ASSUME NEW r, TakesReport(o, r) PROVE OrderMoves(o) /\ was.state # "Absent"
  <2>1. /\ r \in [id : {o}, type : ReportTypes, cum : Volumes(o)]
        /\ Reported(o, r.type, r.cum)
    BY <1>5 DEF TakesReport
  <2>2. was.state # "Absent"
    BY <2>1, TruthfulReport
  <2>3. CASE ~Contradicts(was, r) /\ r.cum >= was.reported
             /\ book' = [book EXCEPT !.orders[o] = OrderAfterReport(was, r)]
    <3> DEFINE after == OrderAfterReport(was, r)
    <3>1. /\ Agrees(after, c) /\ after.seed = was.seed
          /\ after.reconcile = was.reconcile /\ after.reported = r.cum
          /\ was.cancelAck => after.cancelAck
          /\ was.state = "Rejected" => after.state = "Rejected"
          /\ after.state # "Absent" /\ after \in Order
      BY <2>1, <2>3, ReportAgrees
    <3>2. book'.orders = [book.orders EXCEPT ![o] = after]
      BY <1>1, <2>3 DEF Book
    <3> HIDE DEF after
    <3>3. Onward(was, after)
      BY <1>1, <2>3, <3>1 DEF Onward, Order
    <3> QED BY <1>2, <2>2, <3>1, <3>2, <3>3 DEF OrderMoves
  <2> QED BY <1>3, <1>4, <1>5, <2>2, <2>3 DEF TakesReport
<1>6. ASSUME NEW f, TakesTrade(o, f) PROVE OrderMoves(o) /\ was.state # "Absent"
  <2> DEFINE t == TradeOf(o, f)
             after == OrderAfterTrade(was, t)
  <2>1. f \in counter[o].fills
    BY <1>6 DEF TakesTrade
  <2>2. /\ was.state \notin {"Absent", "Rejected"} /\ t \in TradeReport
        /\ t.id = o
    BY <2>1, TruthfulTrade
  <2>3. CASE t \notin book.trades
             /\ book' = IF Overcloses(book.positions[t.instrument], t)
                        THEN Flag(RecordTrade(book, t), {o})
                        ELSE RecordTrade(book, t)
    <3>1. /\ after.seed = was.seed /\ after.reported = was.reported
          /\ after.reconcile = was.reconcile /\ after.cancelAck = was.cancelAck
          /\ after.state \in {"PartiallyFilled", "Filled"}
          /\ Agrees(after, c) /\ after \in Order
      BY <2>1, <2>3, OrderAfterFill
    <3>2. RecordTrade(book, t).orders = [book.orders EXCEPT ![o] = after]
      BY <1>1, <2>2, RecordOne
    <3>3. RecordTrade(book, t) \in Book
      <4>1. SoundBook(book) /\ t.quantity > 0 /\ ~Mismatched(was, t)
        BY <2>1, <2>3, TruthfulTrade DEF IInv
      <4> QED BY <2>2, <4>1, RecordTradeSound DEF SoundBook
    <3> HIDE DEF after
    <3>4. Onward(was, after)
      BY <1>1, <2>2, <3>1 DEF Onward
    <3> DEFINE flagged == [after EXCEPT !.reconcile = TRUE]
    <3>5. flagged \in Order /\ Onward(was, flagged) /\ Agrees(flagged, c)
      BY <1>1, <3>1, <3>4, FlaggedOnward
    <3>6. RecordTrade(book, t).orders[o] = after
      BY <1>1, <3>2
    <3>7. Flag(RecordTrade(book, t), {o}).orders
            = [RecordTrade(book, t).orders EXCEPT ![o] = flagged]
      BY <3>3, <3>6, FlagOne
    <3>8. Flag(RecordTrade(book, t), {o}).orders = [book.orders EXCEPT ![o] = flagged]
      BY <1>1, <3>2, <3>7
    <3> HIDE DEF flagged, t
    <3> QED BY <1>2, <2>3, <3>1, <3>2, <3>4, <3>5, <3>8, <2>2 DEF OrderMoves
  <2> QED BY <1>3, <1>4, <1>6, <2>2, <2>3 DEF TakesTrade
<1> QED BY <1>5, <1>6, DeliverCases

\* What a step about o leaves of the trades, the positions and the lots o
\* accounts for: they stay, or one more fill of o is recorded.
Keeps(o) ==
  /\ book'.trades = book.trades /\ book'.positions = book.positions
  /\ book'.orders[o].accounted = book.orders[o].accounted

Records(o, f) ==
  LET t == TradeOf(o, f) IN
  /\ f \in counter[o].fills /\ t \notin book.trades /\ ~NoTradeSlot(book, t)
  /\ book'.trades = book.trades \cup {t}
  /\ book'.positions = [book.positions EXCEPT ![t.instrument] =
                          PositionAfterTrade(book.positions[t.instrument], t)]
  /\ book'.orders[o].accounted = book.orders[o].accounted + t.quantity

Books(o) == Keeps(o) \/ \E f : Records(o, f)

\* Why a step may flag o
Alarm(o) ==
  book'.orders[o].reconcile =>
    \/ book.orders[o].reconcile
    \/ counter[o].status = "Rejected" /\ counter[o].asked
    \/ \E f \in counter[o].fills : TradeOf(o, f) \notin book.trades
                                     /\ NoTradeSlot(book, TradeOf(o, f))
    \/ \E i \in Instruments : ~book'.positions[i].known

\* A step about o that is not the counter's own leaves its fills and what it
\* decided.
CounterKeeps(o) ==
  \A p \in Orders :
    /\ p # o => counter'[p] = counter[p]
    /\ counter'[p].fills = counter[p].fills
    /\ counter'[p].filled = counter[p].filled
    /\ counter[p].asked => counter'[p].asked
    /\ counter[p].status # "None" => counter'[p].status = counter[p].status

\* A table slot is taken only where one is free.
Fits(o) ==
  book.orders[o].state = "Absent" /\ book'.orders[o].state # "Absent"
    => ~(Cardinality(Occupied(book)) >= OrderCapacity)

\* The counter has no fills of an order the book has not made.
LEMMA NoFillsYet ==
  ASSUME IInv, OrdersAgree, NEW o \in Orders, book.orders[o].state = "Absent"
  PROVE  counter[o].fills = {} /\ counter[o].filled = 0
<1>1. /\ counter[o] \in CounterOrder
      /\ Agrees(book.orders[o], counter[o]) /\ FillsTile(counter[o])
  BY DEF IInv, TypeOK, OrdersAgree
<1>2. counter[o].filled = 0
  BY <1>1 DEF Agrees
<1>3. \A f \in counter[o].fills : f[1] \in Nat /\ f[2] \in Nat /\ f[1] < f[2] /\ f[2] <= 0
  BY <1>1, <1>2 DEF CounterOrder, Fills, FillsTile
<1> QED BY <1>2, <1>3

\* It accounts for no lots either.
LEMMA NoneAccountedYet ==
  ASSUME IInv, OrdersAgree, LotsInv, NEW o \in Orders,
         book.orders[o].state = "Absent"
  PROVE  book.orders[o].accounted = 0
<1>1. Recorded(o) = {}
  BY NoFillsYet DEF LotsInv, TradesAreFills, Recorded
<1>2. LotsOf(Recorded(o)) = {}
  BY <1>1 DEF LotsOf
<1>3. Cardinality(LotsOf(Recorded(o))) = 0
  BY <1>2, FS_EmptySet, Zenon
<1> QED BY <1>3 DEF LotsInv

\* An event of the session and a new order
LEMMA LocalMoves ==
  ASSUME IInv, OrdersAgree, LotsInv, NEW o \in Orders,
         Create(o) \/ \E event \in LocalEvents : Local(o, event)
  PROVE  /\ OrderMoves(o) /\ Keeps(o) /\ Alarm(o) /\ CounterKeeps(o) /\ Fits(o)
         /\ UNCHANGED <<delivered, strayed>>
<1> DEFINE was == book.orders[o]
           c == counter[o]
<1>1. /\ book \in Book /\ book.orders \in [Orders -> Order] /\ was \in Order
      /\ Agrees(was, c) /\ was.reported \in Nat /\ c \in CounterOrder
      /\ counter \in [Orders -> CounterOrder]
  BY DEF IInv, TypeOK, Book, Order, OrdersAgree
<1>2. ASSUME NEW after \in Order, book'.orders = [book.orders EXCEPT ![o] = after],
             book'.trades = book.trades, book'.positions = book.positions,
             after.accounted = was.accounted, after.reconcile => was.reconcile
      PROVE  Keeps(o) /\ Alarm(o)
  <2>1. book'.orders[o] = after
    BY <1>1, <1>2
  <2> QED BY <1>2, <2>1 DEF Keeps, Alarm
<1>3. ASSUME book' = book \/ book' = Flag(book, {}), UNCHANGED counter
      PROVE  OrderMoves(o) /\ Keeps(o) /\ Alarm(o) /\ CounterKeeps(o) /\ Fits(o)
  <2>1. /\ book'.orders = book.orders /\ book'.trades = book.trades
        /\ book'.positions = book.positions
    BY <1>1, <1>3, FlagOne
  <2>2. book'.orders = [book.orders EXCEPT ![o] = was]
    BY <1>1, <2>1
  <2>3. was.state # "Absent" => Onward(was, was)
    BY <1>1 DEF Onward
  <2>4. OrderMoves(o)
    BY <1>1, <1>3, <2>2, <2>3 DEF OrderMoves
  <2>5. Keeps(o) /\ Alarm(o)
    BY <1>1, <1>2, <2>1, <2>2
  <2> QED BY <1>3, <2>1, <2>4, <2>5 DEF CounterKeeps, Fits
<1>4. ASSUME NEW seed, TakesOrder(o, seed), UNCHANGED counter
      PROVE  OrderMoves(o) /\ Keeps(o) /\ Alarm(o) /\ CounterKeeps(o) /\ Fits(o)
  <2> DEFINE after == [NoOrder EXCEPT !.state = "Created", !.seed = seed]
  <2>1. seed \in Seed /\ was.state = "Absent" /\ seed.quantity > 0
    BY <1>4 DEF TakesOrder
  <2>2. /\ after \in Order /\ after.accounted = 0 /\ after.reconcile = FALSE
        /\ after.state = "Created" /\ after.reported = 0
        /\ after.cancelAck = FALSE /\ after.seed = seed
    BY <2>1, NoOrderSound DEF NoOrder, Order, OrderStates
  <2>3. /\ book'.orders = [book.orders EXCEPT ![o] = after]
        /\ book'.trades = book.trades /\ book'.positions = book.positions
    BY <1>1, <1>4 DEF TakesOrder, Book
  <2> HIDE DEF after
  <2>4. was.accounted = 0 /\ c.filled = 0
    BY <2>1, NoneAccountedYet, NoFillsYet
  <2>5. Agrees(after, c)
    BY <1>1, <2>1, <2>2, <2>4 DEF Agrees, Seed
  <2>6. OrderMoves(o)
    BY <1>4, <2>1, <2>2, <2>3, <2>5 DEF OrderMoves
  <2>7. Keeps(o) /\ Alarm(o)
    BY <1>2, <2>2, <2>3, <2>4
  <2>8. Fits(o)
    BY <1>4 DEF TakesOrder, Fits
  <2> QED BY <1>4, <2>6, <2>7, <2>8 DEF CounterKeeps
<1>5. ASSUME NEW event \in LocalEvents, TakesEvent(o, event)
      PROVE  OrderMoves(o) /\ Keeps(o) /\ Alarm(o) /\ CounterKeeps(o) /\ Fits(o)
  <2> DEFINE after == [was EXCEPT !.state = LocalTarget(event)]
             status == IF event = "Submitted" THEN "Submitted" ELSE c.status
             asked == c.asked \/ event = "CancelRequested"
             d == [c EXCEPT !.status = status, !.asked = asked]
  <2>1. was.state \in LocalSource(event) /\ event # "SubmitResultUnknown"
    BY <1>5 DEF TakesEvent
  <2>2. /\ after \in Order /\ after.accounted = was.accounted
        /\ after.reconcile = was.reconcile /\ after.state = LocalTarget(event)
        /\ after.reported = was.reported /\ after.cancelAck = was.cancelAck
        /\ after.seed = was.seed
    <3>1. LocalTarget(event) \in OrderStates
      BY DEF LocalTarget, LocalEvents, OrderStates
    <3> QED BY <1>1, <3>1 DEF Order
  <2>3. /\ book'.orders = [book.orders EXCEPT ![o] = after]
        /\ book'.trades = book.trades /\ book'.positions = book.positions
    BY <1>1, <1>5 DEF TakesEvent, Book
  <2>4. counter' = [counter EXCEPT ![o] = d]
    BY <1>5 DEF TakesEvent
  <2>5. /\ d.status = status /\ d.asked = asked /\ d.filled = c.filled
        /\ d.fills = c.fills /\ asked \in BOOLEAN /\ c.asked \in BOOLEAN
    BY <1>1 DEF CounterOrder
  <2>6. /\ was.state = "Created" /\ after.state \in {"RiskAccepted", "RiskRejected"}
             /\ event \in {"RiskAccepted", "RiskRejected"}
        \/ /\ was.state = "RiskAccepted" /\ event = "Submitted"
           /\ after.state = "Submitted"
        \/ /\ was.state = "RiskAccepted" /\ event = "SubmitRejected"
           /\ after.state = "SubmitRejectedLocally"
        \/ /\ was.state \in {"Submitted", "Accepted", "PartiallyFilled"}
           /\ event = "CancelRequested" /\ after.state = "CancelRequested"
    BY <2>1, <2>2 DEF LocalSource, LocalTarget, LocalEvents
  <2> HIDE DEF after, d, was
  <2>7. counter'[o] = d
    BY <1>1, <2>4
  <2>8. Agrees(after, d)
    <3>1. event = "Submitted" => c.status = "None"
      BY <1>1, <2>6 DEF Agrees
    <3> QED BY <1>1, <2>2, <2>5, <2>6, <3>1 DEF Agrees
  <2>9. was.state # "Absent" => Onward(was, after)
    BY <1>1, <2>2, <2>6 DEF Onward
  <2>10. OrderMoves(o)
    BY <2>2, <2>3, <2>7, <2>8, <2>9 DEF OrderMoves, was
  <2>11. Keeps(o) /\ Alarm(o)
    BY <1>2, <2>2, <2>3
  <2>12. CounterKeeps(o)
    <3>1. event = "Submitted" => c.status = "None"
      BY <1>1, <2>6 DEF Agrees
    <3> QED BY <1>1, <2>4, <2>5, <3>1 DEF CounterKeeps
  <2>13. Fits(o)
    BY <2>6 DEF Fits, was
  <2> QED BY <2>10, <2>11, <2>12, <2>13
<1>6. CASE Create(o)
  BY <1>3, <1>4, <1>6, CreateCases
<1>7. CASE \E event \in LocalEvents : Local(o, event)
  BY <1>3, <1>5, <1>7, LocalCases
<1> QED BY <1>6, <1>7

\* An overclose leaves the position unknown.
LEMMA OvercloseUnknown ==
  ASSUME NEW p \in Position, NEW t
  PROVE  /\ Overcloses(p, t) => ~PositionAfterTrade(p, t).known
         /\ ~p.known => ~PositionAfterTrade(p, t).known
         /\ PositionAfterTrade(p, t).occupied
         /\ ~Overcloses(p, t) => PositionAfterTrade(p, t).known = p.known
<1> DEFINE signed == IF Opens(t) THEN t.quantity ELSE -t.quantity
           touched == [p EXCEPT !.occupied = TRUE]
<1>1. touched.known = p.known /\ touched.occupied = TRUE /\ touched \in Position
  BY DEF Position
<1>2. PositionAfterTrade(p, t) = IF Overcloses(p, t) THEN [touched EXCEPT !.known = FALSE]
                                 ELSE IF Side(t) = "long"
                                      THEN [touched EXCEPT !.long = @ + signed]
                                      ELSE [touched EXCEPT !.short = @ + signed]
  BY DEF PositionAfterTrade
<1> HIDE DEF touched, signed
<1> QED BY <1>1, <1>2 DEF Position

\* What is delivered is booked, or leaves the book's accounts alone.
LEMMA DeliverBooks ==
  ASSUME IInv, OrdersAgree, LotsInv, NEW o \in Orders, Deliver(o)
  PROVE  Books(o) /\ Alarm(o) /\ CounterKeeps(o) /\ UNCHANGED <<counter, strayed>>
<1> DEFINE was == book.orders[o]
           c == counter[o]
<1>1. /\ book \in Book /\ book.orders \in [Orders -> Order] /\ was \in Order
      /\ SoundBook(book)
      /\ book.positions \in [Instruments -> Position]
  BY DEF IInv, TypeOK, Book, Order
<1>2. counter' = counter /\ strayed' = strayed /\ CounterKeeps(o)
  BY DeliverCases DEF CounterKeeps
<1>3. ASSUME book' = book PROVE Books(o) /\ Alarm(o)
  BY <1>3 DEF Books, Keeps, Alarm
<1>4. ASSUME book' = Flag(book, {o}) PROVE Keeps(o)
  <2> DEFINE flagged == [was EXCEPT !.reconcile = TRUE]
  <2>1. /\ book'.orders = [book.orders EXCEPT ![o] = flagged]
        /\ book'.trades = book.trades /\ book'.positions = book.positions
    BY <1>1, <1>4, FlagOne
  <2>2. flagged.accounted = was.accounted
    BY <1>1 DEF Order
  <2> HIDE DEF flagged
  <2> QED BY <1>1, <2>1, <2>2 DEF Keeps
<1>5. ASSUME NEW r, TakesReport(o, r) PROVE Books(o) /\ Alarm(o)
  <2>1. /\ r \in [id : {o}, type : ReportTypes, cum : Volumes(o)]
        /\ Reported(o, r.type, r.cum)
    BY <1>5 DEF TakesReport
  <2>2. CASE Contradicts(was, r) /\ book' = Flag(book, {o})
    <3>1. c.status = "Rejected" /\ c.asked
      BY <2>1, <2>2, TruthfulReport
    <3> QED BY <1>4, <2>2, <3>1 DEF Books, Alarm
  <2>3. CASE ~Contradicts(was, r) /\ r.cum >= was.reported
             /\ book' = [book EXCEPT !.orders[o] = OrderAfterReport(was, r)]
    <3> DEFINE after == OrderAfterReport(was, r)
    <3>1. after.accounted = was.accounted /\ after.reconcile = was.reconcile
      BY <2>1, <2>3, ReportAgrees
    <3>2. /\ book'.orders = [book.orders EXCEPT ![o] = after]
          /\ book'.trades = book.trades /\ book'.positions = book.positions
      BY <1>1, <2>3 DEF Book
    <3> HIDE DEF after
    <3>3. book'.orders[o] = after
      BY <1>1, <3>2
    <3> QED BY <3>1, <3>2, <3>3 DEF Books, Keeps, Alarm
  <2> QED BY <1>3, <1>5, <2>2, <2>3 DEF TakesReport
<1>6. ASSUME NEW f, TakesTrade(o, f) PROVE Books(o) /\ Alarm(o)
  <2> DEFINE t == TradeOf(o, f)
             p == book.positions[t.instrument]
             after == OrderAfterTrade(was, t)
             recorded == RecordTrade(book, t)
  <2>1. f \in counter[o].fills
    BY <1>6 DEF TakesTrade
  <2>2. t \in TradeReport /\ t.id = o /\ t.quantity > 0 /\ was.state # "Absent"
    BY <2>1, TruthfulTrade
  <2>3. p \in Position /\ t.instrument \in Instruments
    BY <1>1, <2>2 DEF TradeReport
  <2>4. CASE t \notin book.trades /\ NoTradeSlot(book, t) /\ book' = Flag(book, {o})
    BY <1>4, <2>1, <2>4 DEF Books, Alarm
  <2>5. CASE t \notin book.trades /\ ~NoTradeSlot(book, t)
             /\ book' = IF Overcloses(p, t) THEN Flag(recorded, {o}) ELSE recorded
    <3>1. /\ after.accounted = was.accounted + t.quantity
          /\ after.reconcile = was.reconcile /\ after \in Order
      BY <2>1, <2>5, OrderAfterFill
    <3>2. recorded \in Book
      <4>1. ~Mismatched(was, t)
        BY <2>1, <2>5, TruthfulTrade
      <4> QED BY <1>1, <2>2, <4>1, RecordTradeSound DEF SoundBook
    <3>3. /\ recorded.trades = book.trades \cup {t}
          /\ recorded.orders = [book.orders EXCEPT ![o] = after]
          /\ recorded.positions = [book.positions EXCEPT ![t.instrument] =
                                     PositionAfterTrade(p, t)]
      BY <1>1, <2>2, RecordOne
    <3> HIDE DEF after, recorded, t
    <3> DEFINE flagged == [after EXCEPT !.reconcile = TRUE]
    <3>4. recorded.orders[o] = after
      BY <1>1, <3>3
    <3>5. /\ book'.trades = recorded.trades /\ book'.positions = recorded.positions
          /\ book'.orders[o].accounted = after.accounted
          /\ ~Overcloses(p, t) => book'.orders[o].reconcile = after.reconcile
      <4>1. CASE Overcloses(p, t)
        <5>1. /\ Flag(recorded, {o}).trades = recorded.trades
              /\ Flag(recorded, {o}).positions = recorded.positions
              /\ Flag(recorded, {o}).orders = [recorded.orders EXCEPT ![o] = flagged]
          BY <3>2, <3>4, FlagOne
        <5>2. recorded.orders \in [Orders -> Order]
          BY <3>2 DEF Book
        <5>3. flagged.accounted = after.accounted
          BY <3>1 DEF Order
        <5> HIDE DEF flagged
        <5>4. Flag(recorded, {o}).orders[o] = flagged
          BY <5>1, <5>2
        <5> QED BY <2>5, <4>1, <5>1, <5>3, <5>4
      <4>2. CASE ~Overcloses(p, t)
        BY <2>5, <3>4, <4>2
      <4> QED BY <4>1, <4>2
    <3>6. Records(o, f)
      BY <2>1, <2>5, <3>1, <3>3, <3>5 DEF Records, t
    <3>7. Overcloses(p, t) => ~book'.positions[t.instrument].known
      <4>1. Overcloses(p, t) => ~PositionAfterTrade(p, t).known
        BY <2>3, OvercloseUnknown
      <4>2. book'.positions[t.instrument] = PositionAfterTrade(p, t)
        BY <1>1, <2>3, <3>3, <3>5
      <4> QED BY <4>1, <4>2
    <3> QED BY <2>3, <3>1, <3>5, <3>6, <3>7 DEF Books, Alarm
  <2> QED BY <1>3, <1>6, <2>4, <2>5 DEF TakesTrade
<1> QED BY <1>2, <1>5, <1>6, DeliverCases

\* A message about an outcome has had its effect: a recorded trade, or an
\* order that knows how it ended, or one that is flagged.
HasArrived(m) ==
  LET o == book.orders[m.id]
      c == counter[m.id] IN
  /\ m.id \in Orders /\ o.state # "Absent"
  /\ IF m \in TradeReport THEN m \in book.trades \/ o.reconcile
     ELSE /\ m.type = "Canceled" => /\ c.status = "Canceled"
                                    /\ o.reported = c.filled /\ o.cancelAck
          /\ m.type = "Filled" => o.reported = o.seed.quantity
          /\ m.type = "Rejected" => o.state = "Rejected" \/ o.reconcile

News == \A m \in delivered' : m \in delivered \/ HasArrived(m)'

\* What is delivered has its effect at once.
LEMMA DeliverArrives ==
  ASSUME IInv, OrdersAgree, LotsInv, NEW o \in Orders, Deliver(o)
  PROVE  News
<1> DEFINE was == book.orders[o]
           now == book'.orders[o]
           c == counter[o]
<1>1. /\ was \in Order /\ book.orders \in [Orders -> Order] /\ book \in Book
      /\ Agrees(was, c) /\ was.reported \in Nat /\ c.filled \in Nat
      /\ was.seed.quantity \in Int
  BY DEF IInv, TypeOK, Book, Order, Seed, OrdersAgree, CounterOrder
<1>2. /\ was.state # "Absent" /\ counter' = counter /\ now.state # "Absent"
      /\ now.seed = was.seed /\ now \in Order
  BY <1>1, DeliverMoves, DeliverCases DEF OrderMoves, Onward
<1>3. Flag(book, {o}).orders[o].reconcile = TRUE
  <2> DEFINE flagged == [was EXCEPT !.reconcile = TRUE]
  <2>1. Flag(book, {o}).orders = [book.orders EXCEPT ![o] = flagged]
    BY <1>1, FlagOne
  <2>2. flagged.reconcile = TRUE
    BY <1>1 DEF Order
  <2> HIDE DEF flagged
  <2> QED BY <1>1, <2>1, <2>2
<1>4. ASSUME NEW r, TakesReport(o, r), r.type \in {"Filled", "Canceled", "Rejected"}
      PROVE  HasArrived(r)'
  <2>1. /\ r \in [id : {o}, type : ReportTypes, cum : Volumes(o)]
        /\ Reported(o, r.type, r.cum)
    BY <1>4 DEF TakesReport
  <2>2. /\ r \in OrderReport /\ r.id = o /\ r.cum \in 0 .. c.filled
        /\ Contradicts(was, r) => c.status = "Rejected"
    BY <2>1, TruthfulReport
  <2>3. r \notin TradeReport
    BY <2>2, ReportsAreNoTrades
  <2>4. /\ r.type = "Canceled" => c.status = "Canceled" /\ r.cum = c.filled
        /\ r.type = "Filled" => r.cum = was.seed.quantity
        /\ r.type = "Rejected" => c.status = "Rejected"
    BY <2>1 DEF Reported, Quantity
  <2>5. was.reported <= r.cum
    BY <1>1, <1>4, <2>2, <2>4 DEF Agrees
  <2>6. CASE Contradicts(was, r) /\ book' = Flag(book, {o})
    <3>1. r.type = "Rejected"
      BY <1>4, <2>2, <2>4, <2>6 DEF Contradicts
    <3>2. now.reconcile
      BY <1>3, <2>6
    <3> QED BY <1>2, <2>2, <2>3, <3>1, <3>2 DEF HasArrived
  <2>7. CASE ~Contradicts(was, r)
             /\ book' = [book EXCEPT !.orders[o] = OrderAfterReport(was, r)]
    <3> DEFINE after == OrderAfterReport(was, r)
    <3>1. /\ after.reported = r.cum
          /\ r.type = "Canceled" => after.cancelAck
          /\ r.type = "Rejected" => after.state = "Rejected"
      BY <2>1, <2>7, ReportAgrees
    <3>2. book'.orders = [book.orders EXCEPT ![o] = after]
      BY <1>1, <2>7 DEF Book
    <3> HIDE DEF after
    <3>3. now = after
      BY <1>1, <3>2
    <3> QED BY <1>2, <2>2, <2>3, <2>4, <3>1, <3>3 DEF HasArrived
  <2>8. ~(r.cum < was.reported)
    BY <1>1, <2>2, <2>5
  <2> QED BY <1>4, <2>6, <2>7, <2>8 DEF TakesReport
<1>5. ASSUME NEW f, TakesTrade(o, f), NEW t, t = TradeOf(o, f)
      PROVE  HasArrived(t)'
  <2>1. f \in counter[o].fills
    BY <1>5 DEF TakesTrade
  <2>2. t \in TradeReport /\ t.id = o
    BY <1>5, <2>1, TruthfulTrade
  <2>3. t \in book'.trades \/ now.reconcile
    <3>1. CASE book' = Flag(book, {o})
      BY <1>3, <3>1
    <3>2. CASE book' # Flag(book, {o}) /\ t \notin book.trades
      <4>1. \/ book' = Flag(RecordTrade(book, t), {o})
            \/ book' = RecordTrade(book, t)
        BY <1>5, <3>2 DEF TakesTrade
      <4>2. RecordTrade(book, t) \in Book
        <5>1. SoundBook(book) /\ t.quantity > 0 /\ ~Mismatched(was, t)
          BY <1>5, <2>1, <3>2, TruthfulTrade DEF IInv
        <5> QED BY <1>2, <2>2, <5>1, RecordTradeSound DEF SoundBook
      <4>3. RecordTrade(book, t).trades = book.trades \cup {t}
        BY <1>1, <2>2, RecordOne
      <4>4. Flag(RecordTrade(book, t), {o}).trades = RecordTrade(book, t).trades
        BY <4>2, FlagOne
      <4> QED BY <4>1, <4>3, <4>4
    <3>3. CASE t \in book.trades
      BY <1>5, <3>3 DEF TakesTrade
    <3> QED BY <3>1, <3>2, <3>3
  <2> QED BY <1>2, <2>2, <2>3 DEF HasArrived
<1>6. ASSUME NEW f, TakesTrade(o, f), delivered' = delivered \cup {TradeOf(o, f)}
      PROVE  News
  BY <1>5, <1>6 DEF News
<1>7. ASSUME NEW r, TakesReport(o, r),
             delivered' = IF r.type \in {"Filled", "Canceled", "Rejected"}
                          THEN delivered \cup {r} ELSE delivered
      PROVE  News
  BY <1>4, <1>7 DEF News
<1> QED BY <1>6, <1>7, DeliverCases

-----------------------------------------------------------------------------
(* Every lot is accounted for once *)

\* A step of the session or of the channel, about order o
About(o) ==
  /\ OrderMoves(o) /\ Books(o) /\ Alarm(o) /\ CounterKeeps(o)
  /\ Fits(o) /\ News /\ strayed' = strayed

\* A step of the counter, or none
AtCounter ==
  /\ OrdersAgree' /\ UNCHANGED <<book, delivered, strayed>>
  /\ \A p \in Orders :
       /\ counter[p].fills \subseteq counter'[p].fills
       /\ counter[p].status \in {"Canceled", "Rejected"} => counter'[p] = counter[p]

\* Without strays there are no other steps.
LEMMA StepKinds ==
  ASSUME IInv, OrdersAgree, LotsInv, ~strayed', [Next]_vars
  PROVE  AtCounter \/ \E o \in Orders : About(o)
<1>1. ASSUME NEW o \in Orders,
             Create(o) \/ \E event \in LocalEvents : Local(o, event)
      PROVE  About(o)
  BY <1>1, LocalMoves DEF About, Books, News
<1>2. ASSUME NEW o \in Orders, Deliver(o) PROVE About(o)
  BY <1>2, DeliverMoves, DeliverBooks, DeliverArrives DEF About, Fits
<1>3. ASSUME NEW o \in Orders, Accept(o) \/ Reject(o) \/ Fill(o) \/ Cancel(o)
      PROVE  AtCounter
  <2>1. OrdersAgree' /\ UNCHANGED <<book, delivered, strayed>>
    BY <1>3, CounterAgrees
  <2>2. counter \in [Orders -> CounterOrder]
    BY DEF IInv, TypeOK
  <2>3. ASSUME NEW p \in Orders
        PROVE  /\ counter[p].fills \subseteq counter'[p].fills
               /\ counter[p].status \in {"Canceled", "Rejected"}
                    => counter'[p] = counter[p]
    <3>1. CASE Accept(o) \/ Reject(o) \/ Cancel(o)
      BY <2>2, <3>1 DEF Accept, Reject, Cancel, Live, CounterOrder
    <3>2. CASE Fill(o)
      BY <2>2, <3>2 DEF Fill, Live, CounterOrder
    <3> QED BY <1>3, <3>1, <3>2
  <2> QED BY <2>1, <2>3 DEF AtCounter
<1>4. CASE UNCHANGED vars
  BY <1>4 DEF vars, AtCounter, OrdersAgree
<1>5. ~DeliverStray
  BY DEF DeliverStray
<1> QED BY <1>1, <1>2, <1>3, <1>4, <1>5 DEF Next

\* An order in the book keeps its seed, and so a fill its trade.
LEMMA SameSeed ==
  ASSUME IInv, OrdersAgree, NEW o \in Orders, About(o) \/ AtCounter
  PROVE  /\ \A p \in Orders : book.orders[p].state # "Absent" =>
              /\ book'.orders[p].seed = book.orders[p].seed
              /\ book'.orders[p].state # "Absent"
              /\ Onward(book.orders[p], book'.orders[p])
         /\ \A p \in Orders : \A f \in counter[p].fills :
              f \in counter'[p].fills /\ TradeOf(p, f)' = TradeOf(p, f)
<1>1. book.orders \in [Orders -> Order]
  BY DEF IInv, TypeOK, Book
<1>2. ASSUME NEW p \in Orders, book.orders[p].state # "Absent"
      PROVE  Onward(book.orders[p], book'.orders[p])
  <2>1. CASE AtCounter
    BY <1>1, <1>2, <2>1 DEF AtCounter, Onward, Order
  <2>2. CASE About(o)
    BY <1>1, <1>2, <2>2 DEF About, OrderMoves, Onward, Order
  <2> QED BY <2>1, <2>2
<1>3. ASSUME NEW p \in Orders, NEW f \in counter[p].fills
      PROVE  f \in counter'[p].fills /\ TradeOf(p, f)' = TradeOf(p, f)
  <2>1. book.orders[p].state # "Absent"
    BY <1>3, NoFillsYet
  <2>2. book'.orders[p].seed = book.orders[p].seed
    BY <1>2, <2>1 DEF Onward
  <2>3. TradeOf(p, f)' = TradeOf(p, f)
    BY <2>2 DEF TradeOf
  <2>4. f \in counter'[p].fills
    BY DEF About, AtCounter, CounterKeeps
  <2> QED BY <2>3, <2>4
<1> QED BY <1>2, <1>3 DEF Onward

\* The book and the counter go on agreeing.
LEMMA AgreeNext ==
  ASSUME IInv, OrdersAgree, NEW o \in Orders, About(o)
  PROVE  OrdersAgree'
<1>1. book.orders \in [Orders -> Order]
  BY DEF IInv, TypeOK, Book
<1> SUFFICES ASSUME NEW p \in Orders
             PROVE  Agrees(book'.orders[p], counter'[p]) /\ FillsTile(counter'[p])
  BY DEF OrdersAgree
<1>2. FillsTile(counter'[p])
  BY DEF OrdersAgree, About, CounterKeeps, FillsTile
<1>3. Agrees(book'.orders[p], counter'[p])
  BY <1>1 DEF OrdersAgree, About, OrderMoves, CounterKeeps
<1> QED BY <1>2, <1>3

\* The lots recorded of an order to which a trade of another is added
LEMMA LotsNext ==
  ASSUME IInv, OrdersAgree, LotsInv, NEW o \in Orders, About(o) \/ AtCounter
  PROVE  LotsInv'
<1>1. book.orders \in [Orders -> Order]
  BY DEF IInv, TypeOK, Book
<1>2. ASSUME NEW p \in Orders, p # o \/ AtCounter
      PROVE  book'.orders[p] = book.orders[p]
  BY <1>1, <1>2 DEF About, OrderMoves, AtCounter
<1>3. ASSUME NEW p \in Orders, NEW f \in counter[p].fills
      PROVE  f \in counter'[p].fills /\ TradeOf(p, f)' = TradeOf(p, f)
  BY SameSeed
<1>4. ASSUME NEW t \in book.trades
      PROVE  t.id \in Orders /\ \E f \in counter'[t.id].fills : t = TradeOf(t.id, f)'
  <2>1. t.id \in Orders /\ \E f \in counter[t.id].fills : t = TradeOf(t.id, f)
    BY DEF LotsInv, TradesAreFills
  <2> QED BY <2>1, <1>3
<1>5. CASE Keeps(o) \/ AtCounter
  <2>1. book'.trades = book.trades
    BY <1>5 DEF Keeps, AtCounter
  <2>2. \A p \in Orders : book'.orders[p].accounted = book.orders[p].accounted
    BY <1>2, <1>5 DEF Keeps
  <2>3. \A p \in Orders : Recorded(p)' = Recorded(p)
    BY <2>1 DEF Recorded
  <2>4. TradesAreFills'
    BY <1>4, <2>1 DEF TradesAreFills
  <2>5. \A p \in Orders : book'.orders[p].accounted
                            = Cardinality(LotsOf(Recorded(p)'))
    BY <2>2, <2>3, Zenon DEF LotsInv
  <2> QED BY <2>1, <2>4, <2>5 DEF LotsInv
<1>6. ASSUME NEW f, Records(o, f) PROVE LotsInv'
  <2> DEFINE t == TradeOf(o, f)
  <2>1. f \in counter[o].fills /\ t \notin book.trades
        /\ book'.trades = book.trades \cup {t}
        /\ book'.orders[o].accounted = book.orders[o].accounted + t.quantity
    BY <1>6 DEF Records
  <2>2. /\ IsFiniteSet(Lots(t)) /\ Cardinality(Lots(t)) = t.quantity /\ t.id = o
    BY <2>1, LotsOfFill
  <2>3. \A u \in book.trades : Lots(u) \cap Lots(t) = {}
    BY <2>1, TruthfulTrade
  <2>4. TradesAreFills'
    BY <1>3, <1>4, <2>1, <2>2 DEF TradesAreFills
  <2> HIDE DEF t
  <2>5. IsFiniteSet(LotsOf(book.trades)) /\ IsFiniteSet(book.trades)
    BY DEF LotsInv
  <2>6. IsFiniteSet(LotsOf(book.trades \cup {t})) /\ IsFiniteSet(book.trades \cup {t})
    BY <2>2, <2>3, <2>5, LotsAdd, FS_AddElement
  <2>7. ASSUME NEW p \in Orders
        PROVE  book'.orders[p].accounted = Cardinality(LotsOf(Recorded(p)'))
    <3>1. Recorded(p) \subseteq book.trades
      BY DEF Recorded
    <3>2. IsFiniteSet(LotsOf(Recorded(p)))
      BY <2>5, <3>1, LotsOfPart
    <3>3. book.orders[p].accounted = Cardinality(LotsOf(Recorded(p)))
      BY DEF LotsInv
    <3>4. CASE p = o
      <4>1. Recorded(p)' = Recorded(p) \cup {t}
        BY <2>1, <2>2, <3>4 DEF Recorded
      <4>2. Cardinality(LotsOf(Recorded(p) \cup {t}))
              = Cardinality(LotsOf(Recorded(p))) + Cardinality(Lots(t))
        BY <2>2, <2>3, <3>1, <3>2, LotsAdd
      <4>3. Cardinality(LotsOf(Recorded(p)'))
              = Cardinality(LotsOf(Recorded(p) \cup {t}))
        BY <4>1, Zenon
      <4> QED BY <2>1, <2>2, <3>3, <3>4, <4>2, <4>3
    <3>5. CASE p # o
      <4>1. Recorded(p)' = Recorded(p)
        BY <2>1, <2>2, <3>5 DEF Recorded
      <4>2. book'.orders[p] = book.orders[p]
        BY <1>2, <3>5
      <4> QED BY <3>3, <4>1, <4>2, Zenon
    <3> QED BY <3>4, <3>5
  <2>8. IsFiniteSet(LotsOf(book'.trades)) /\ IsFiniteSet(book'.trades)
    BY <2>1, <2>6, Zenon
  <2> QED BY <2>4, <2>7, <2>8 DEF LotsInv
<1> QED BY <1>5, <1>6 DEF About, Books

AgreeInv == ~strayed => OrdersAgree /\ LotsInv

\* An empty book agrees with a counter that has seen nothing.
LEMMA AgreeInit == Init => AgreeInv
<1> SUFFICES ASSUME Init PROVE OrdersAgree /\ LotsInv
  BY DEF AgreeInv
<1>1. /\ book.orders = [o \in Orders |-> NoOrder] /\ book.trades = {}
      /\ counter = [o \in Orders |-> NoCounterOrder]
  BY DEF Init, EmptyBook
<1>2. OrdersAgree
  <2>1. Agrees(NoOrder, NoCounterOrder)
    BY DEF Agrees, NoOrder, NoCounterOrder, NoSeed
  <2>2. FillsTile(NoCounterOrder)
    BY DEF FillsTile, NoCounterOrder
  <2> QED BY <1>1, <2>1, <2>2 DEF OrdersAgree
<1>3. LotsInv
  <2>1. LotsOf({}) = {} /\ LotsOf(book.trades) = {}
    BY <1>1 DEF LotsOf
  <2>2. IsFiniteSet(book.trades) /\ IsFiniteSet(LotsOf(book.trades))
    BY <1>1, <2>1, FS_EmptySet, Zenon
  <2>3. TradesAreFills
    BY <1>1 DEF TradesAreFills
  <2>4. ASSUME NEW o \in Orders
        PROVE  book.orders[o].accounted = Cardinality(LotsOf(Recorded(o)))
    <3>1. Recorded(o) = {}
      BY <1>1 DEF Recorded
    <3>2. LotsOf(Recorded(o)) = {}
      BY <3>1 DEF LotsOf
    <3>3. Cardinality(LotsOf(Recorded(o))) = 0
      BY <3>2, FS_EmptySet, Zenon
    <3> QED BY <1>1, <3>3 DEF NoOrder
  <2> QED BY <2>2, <2>3, <2>4 DEF LotsInv
<1> QED BY <1>2, <1>3

\* A stray input is remembered.
LEMMA StrayedStays == [Next]_vars /\ ~strayed' => ~strayed
BY DEF Next, vars, DeliverStray, Create, Local, Deliver, Accept, Reject, Fill, Cancel

\* Every step keeps the agreement.
LEMMA AgreeStep == IInv /\ AgreeInv /\ [Next]_vars => AgreeInv'
<1> SUFFICES ASSUME IInv, AgreeInv, [Next]_vars, ~strayed'
             PROVE  OrdersAgree' /\ LotsInv'
  BY DEF AgreeInv
<1>1. OrdersAgree /\ LotsInv
  BY StrayedStays DEF AgreeInv
<1>2. CASE AtCounter
  <2>1. OrdersAgree'
    BY <1>2 DEF AtCounter
  <2>2. CASE Orders = {}
    <3>1. UNCHANGED <<book, delivered, strayed>>
      BY <1>2 DEF AtCounter
    <3>2. LotsInv'
      BY <1>1, <2>2, <3>1 DEF LotsInv, TradesAreFills
    <3> QED BY <2>1, <3>2
  <2>3. ASSUME NEW o \in Orders PROVE LotsInv'
    BY <1>1, <1>2, LotsNext
  <2> QED BY <2>1, <2>2, <2>3
<1>3. ASSUME NEW o \in Orders, About(o) PROVE OrdersAgree' /\ LotsInv'
  BY <1>1, <1>3, AgreeNext, LotsNext
<1> QED BY <1>1, <1>2, <1>3, StepKinds

\* Unless a stray input comes, the book agrees with the counter.
LEMMA AlwaysAgree == Spec => []AgreeInv
BY InitIInv, NextIInv, AgreeInit, AgreeStep, AlwaysIInv, PTL DEF Spec

\* However often and in whatever order the messages of a truthful counter
\* arrive, an order accounts for each lot at most once and for none that was
\* not filled (trading.cpp 366-581).
THEOREM LotsAccountedOnce == Spec => []EachLotAccountedOnce
<1>1. IInv /\ AgreeInv => EachLotAccountedOnce
  <2> SUFFICES ASSUME IInv, OrdersAgree, LotsInv, NEW o \in Orders
               PROVE  /\ book.orders[o].accounted = Cardinality(LotsOf(Recorded(o)))
                      /\ LotsOf(Recorded(o))
                           \subseteq {<<o, n>> : n \in 1 .. counter[o].filled}
                      /\ book.orders[o].reported <= counter[o].filled
    BY DEF AgreeInv, EachLotAccountedOnce
  <2>1. \A u \in Recorded(o) : \E f \in counter[o].fills : u = TradeOf(o, f)
    BY DEF LotsInv, TradesAreFills, Recorded
  <2>2. LotsOf(Recorded(o)) \subseteq {<<o, n>> : n \in 1 .. counter[o].filled}
    BY <2>1, LotsWithin
  <2>3. book.orders[o].reported <= counter[o].filled
    BY DEF OrdersAgree, Agrees
  <2> QED BY <2>2, <2>3 DEF LotsInv
<1> QED BY <1>1, AlwaysIInv, AlwaysAgree, PTL

-----------------------------------------------------------------------------
(* A position is what was opened less what was closed *)

SideOf(p, side) == IF side = "long" THEN p.long ELSE p.short
Sides == {"long", "short"}

\* The trades that opened, or closed, lots on one side of an instrument
Opening(T, i, side) ==
  {t \in T : t.instrument = i /\ Side(t) = side /\ Opens(t)}
Closing(T, i, side) ==
  {t \in T : t.instrument = i /\ Side(t) = side /\ ~Opens(t)}

\* A known position is the difference of the two.
Balanced(T, p, i, side) ==
  p.known => SideOf(p, side) = Cardinality(LotsOf(Opening(T, i, side)))
                                 - Cardinality(LotsOf(Closing(T, i, side)))

PositionsInv ==
  ~strayed => \A i \in Instruments : \A side \in Sides :
                Balanced(book.trades, book.positions[i], i, side)

\* What a trade adds to a side it does not overclose
LEMMA SideAfterTrade ==
  ASSUME NEW p \in Position, NEW t \in TradeReport, NEW side \in Sides,
         ~Overcloses(p, t)
  PROVE  SideOf(PositionAfterTrade(p, t), side)
           = IF Side(t) # side THEN SideOf(p, side)
             ELSE IF Opens(t) THEN SideOf(p, side) + t.quantity
             ELSE SideOf(p, side) - t.quantity
<1> DEFINE signed == IF Opens(t) THEN t.quantity ELSE -t.quantity
           touched == [p EXCEPT !.occupied = TRUE]
<1>1. /\ touched \in Position /\ touched.long = p.long /\ touched.short = p.short
      /\ p.long \in Nat /\ p.short \in Nat /\ t.quantity \in Int
  BY DEF Position, TradeReport
<1>2. PositionAfterTrade(p, t) = IF Side(t) = "long"
                                 THEN [touched EXCEPT !.long = p.long + signed]
                                 ELSE [touched EXCEPT !.short = p.short + signed]
  BY <1>1 DEF PositionAfterTrade
<1>3. Side(t) \in Sides
  BY DEF Side, Sides
<1> HIDE DEF touched, signed
<1>4. SideOf(PositionAfterTrade(p, t), side)
        = IF Side(t) # side THEN SideOf(p, side) ELSE SideOf(p, side) + signed
  BY <1>1, <1>2, <1>3 DEF SideOf, Sides, Position
<1>5. SideOf(p, side) \in Nat
  BY <1>1 DEF SideOf
<1> QED BY <1>1, <1>4, <1>5 DEF signed

\* One more trade, whose lots none of the others has
LEMMA BalancedAfterTrade ==
  ASSUME NEW T, IsFiniteSet(LotsOf(T)), NEW t \in TradeReport,
         IsFiniteSet(Lots(t)), Cardinality(Lots(t)) = t.quantity,
         \A u \in T : Lots(u) \cap Lots(t) = {},
         NEW p \in Position, NEW i, NEW side \in Sides, Balanced(T, p, i, side)
  PROVE  Balanced(T \cup {t}, IF t.instrument = i THEN PositionAfterTrade(p, t)
                              ELSE p, i, side)
<1> DEFINE opened == Opening(T, i, side)
           closed == Closing(T, i, side)
           now == IF t.instrument = i THEN PositionAfterTrade(p, t) ELSE p
<1>1. opened \subseteq T /\ closed \subseteq T
  BY DEF Opening, Closing
<1>2. /\ IsFiniteSet(LotsOf(opened)) /\ Cardinality(LotsOf(opened)) \in Nat
      /\ IsFiniteSet(LotsOf(closed)) /\ Cardinality(LotsOf(closed)) \in Nat
  BY <1>1, LotsOfPart
<1>3. SideOf(p, side) \in Nat /\ t.quantity \in Int
  BY DEF SideOf, Position, TradeReport
<1>4. /\ Cardinality(LotsOf(opened \cup {t})) = Cardinality(LotsOf(opened)) + t.quantity
      /\ Cardinality(LotsOf(closed \cup {t})) = Cardinality(LotsOf(closed)) + t.quantity
  <2> HIDE DEF opened, closed
  <2> QED BY <1>1, <1>2, LotsAdd
<1>5. p.known => SideOf(p, side) = Cardinality(LotsOf(opened))
                                     - Cardinality(LotsOf(closed))
  BY DEF Balanced
<1>6. CASE t.instrument # i \/ Side(t) # side
  <2>1. Opening(T \cup {t}, i, side) = opened /\ Closing(T \cup {t}, i, side) = closed
    BY <1>6 DEF Opening, Closing
  <2>2. now.known => p.known /\ SideOf(now, side) = SideOf(p, side)
    <3>1. CASE t.instrument # i
      BY <3>1
    <3>2. CASE t.instrument = i
      BY <1>6, <3>2, SideAfterTrade, OvercloseUnknown
    <3> QED BY <3>1, <3>2
  <2> HIDE DEF opened, closed, now
  <2>3. /\ Cardinality(LotsOf(Opening(T \cup {t}, i, side))) = Cardinality(LotsOf(opened))
        /\ Cardinality(LotsOf(Closing(T \cup {t}, i, side))) = Cardinality(LotsOf(closed))
    BY <2>1, Zenon
  <2>4. now.known => SideOf(now, side)
                       = Cardinality(LotsOf(Opening(T \cup {t}, i, side)))
                           - Cardinality(LotsOf(Closing(T \cup {t}, i, side)))
    BY <1>5, <2>2, <2>3
  <2> QED BY <2>4 DEF Balanced, now
<1>7. ASSUME t.instrument = i, Side(t) = side, Opens(t)
      PROVE  Balanced(T \cup {t}, now, i, side)
  <2>1. /\ Opening(T \cup {t}, i, side) = opened \cup {t}
        /\ Closing(T \cup {t}, i, side) = closed
    BY <1>7 DEF Opening, Closing
  <2>2. now.known => p.known /\ SideOf(now, side) = SideOf(p, side) + t.quantity
    BY <1>7, SideAfterTrade, OvercloseUnknown
  <2> HIDE DEF opened, closed, now
  <2>3. /\ Cardinality(LotsOf(Opening(T \cup {t}, i, side)))
             = Cardinality(LotsOf(opened \cup {t}))
        /\ Cardinality(LotsOf(Closing(T \cup {t}, i, side))) = Cardinality(LotsOf(closed))
    BY <2>1, Zenon
  <2>4. now.known => SideOf(now, side)
                       = Cardinality(LotsOf(Opening(T \cup {t}, i, side)))
                           - Cardinality(LotsOf(Closing(T \cup {t}, i, side)))
    BY <1>2, <1>3, <1>4, <1>5, <2>2, <2>3
  <2> QED BY <2>4 DEF Balanced
<1>8. ASSUME t.instrument = i, Side(t) = side, ~Opens(t)
      PROVE  Balanced(T \cup {t}, now, i, side)
  <2>1. /\ Opening(T \cup {t}, i, side) = opened
        /\ Closing(T \cup {t}, i, side) = closed \cup {t}
    BY <1>8 DEF Opening, Closing
  <2>2. now.known => p.known /\ SideOf(now, side) = SideOf(p, side) - t.quantity
    BY <1>8, SideAfterTrade, OvercloseUnknown
  <2> HIDE DEF opened, closed, now
  <2>3. /\ Cardinality(LotsOf(Closing(T \cup {t}, i, side)))
             = Cardinality(LotsOf(closed \cup {t}))
        /\ Cardinality(LotsOf(Opening(T \cup {t}, i, side))) = Cardinality(LotsOf(opened))
    BY <2>1, Zenon
  <2>4. now.known => SideOf(now, side)
                       = Cardinality(LotsOf(Opening(T \cup {t}, i, side)))
                           - Cardinality(LotsOf(Closing(T \cup {t}, i, side)))
    BY <1>2, <1>3, <1>4, <1>5, <2>2, <2>3
  <2> QED BY <2>4 DEF Balanced
<1> QED BY <1>6, <1>7, <1>8

\* No position has been opened yet.
LEMMA PositionsInit == Init => PositionsInv
<1> SUFFICES ASSUME Init, NEW i \in Instruments, NEW side \in Sides
             PROVE  Balanced(book.trades, book.positions[i], i, side)
  BY DEF PositionsInv
<1>1. book.trades = {} /\ book.positions[i] = NoPosition
  BY DEF Init, EmptyBook
<1>2. LotsOf(Opening(book.trades, i, side)) = {}
      /\ LotsOf(Closing(book.trades, i, side)) = {}
  BY <1>1 DEF Opening, Closing, LotsOf
<1>3. Cardinality(LotsOf(Opening(book.trades, i, side))) = 0
      /\ Cardinality(LotsOf(Closing(book.trades, i, side))) = 0
  BY <1>2, FS_EmptySet, Zenon
<1>4. SideOf(book.positions[i], side) = 0
  BY <1>1 DEF SideOf, NoPosition
<1> QED BY <1>3, <1>4 DEF Balanced

\* Every step keeps the positions balanced.
LEMMA PositionsStep ==
  IInv /\ AgreeInv /\ PositionsInv /\ [Next]_vars => PositionsInv'
<1> SUFFICES ASSUME IInv, AgreeInv, PositionsInv, [Next]_vars, ~strayed',
                    NEW i \in Instruments, NEW side \in Sides
             PROVE  Balanced(book'.trades, book'.positions[i], i, side)
  BY DEF PositionsInv
<1>1. OrdersAgree /\ LotsInv /\ Balanced(book.trades, book.positions[i], i, side)
  BY StrayedStays DEF AgreeInv, PositionsInv
<1>2. book.positions \in [Instruments -> Position]
  BY DEF IInv, TypeOK, Book
<1>3. ASSUME book'.trades = book.trades, book'.positions = book.positions
      PROVE  Balanced(book'.trades, book'.positions[i], i, side)
  BY <1>1, <1>3
<1>4. ASSUME NEW o \in Orders, NEW f, Records(o, f)
      PROVE  Balanced(book'.trades, book'.positions[i], i, side)
  <2> DEFINE t == TradeOf(o, f)
             p == book.positions[i]
             now == IF t.instrument = i THEN PositionAfterTrade(p, t) ELSE p
  <2>1. /\ f \in counter[o].fills /\ t \notin book.trades
        /\ book'.trades = book.trades \cup {t}
        /\ book'.positions = [book.positions EXCEPT ![t.instrument] =
                                PositionAfterTrade(book.positions[t.instrument], t)]
    BY <1>4 DEF Records
  <2>2. /\ IsFiniteSet(Lots(t)) /\ Cardinality(Lots(t)) = t.quantity
        /\ t \in TradeReport
    BY <2>1, LotsOfFill
  <2>3. \A u \in book.trades : Lots(u) \cap Lots(t) = {}
    BY <1>1, <2>1, TruthfulTrade
  <2>4. t.instrument \in Instruments
    BY <2>2 DEF TradeReport
  <2> HIDE DEF t
  <2>5. book'.positions[i] = now
    BY <1>2, <2>1, <2>4
  <2>6. IsFiniteSet(LotsOf(book.trades)) /\ p \in Position
    BY <1>1, <1>2 DEF LotsInv
  <2>7. Balanced(book.trades \cup {t}, now, i, side)
    BY <1>1, <2>2, <2>3, <2>6, BalancedAfterTrade
  <2> HIDE DEF now
  <2> QED BY <2>1, <2>5, <2>7
<1>5. CASE AtCounter
  BY <1>3, <1>5 DEF AtCounter
<1>6. ASSUME NEW o \in Orders, About(o)
      PROVE  Balanced(book'.trades, book'.positions[i], i, side)
  BY <1>3, <1>4, <1>6 DEF About, Books, Keeps
<1> QED BY <1>1, <1>5, <1>6, StepKinds

\* While a position is known it is the lots opened less the lots closed
\* (trading.cpp 538-554), whatever the channel loses, repeats or reorders.
THEOREM PositionsBalance == Spec => []PositionIsOpenMinusClosed
<1>1. PositionsInv => PositionIsOpenMinusClosed
  <2> SUFFICES ASSUME PositionsInv, ~strayed,
                      NEW i \in Instruments, NEW side \in Sides,
                      book.positions[i].known
               PROVE  LET on == {t \in book.trades : t.instrument = i /\ Side(t) = side}
                      IN SideOf(book.positions[i], side)
                           = Cardinality(LotsOf({t \in on : Opens(t)}))
                               - Cardinality(LotsOf({t \in on : ~Opens(t)}))
    BY DEF PositionIsOpenMinusClosed, SideOf, Sides
  <2> DEFINE on == {t \in book.trades : t.instrument = i /\ Side(t) = side}
  <2>1. /\ {t \in on : Opens(t)} = Opening(book.trades, i, side)
        /\ {t \in on : ~Opens(t)} = Closing(book.trades, i, side)
    BY DEF Opening, Closing
  <2>2. SideOf(book.positions[i], side)
          = Cardinality(LotsOf(Opening(book.trades, i, side)))
              - Cardinality(LotsOf(Closing(book.trades, i, side)))
    BY DEF PositionsInv, Balanced
  <2> HIDE DEF on
  <2>3. /\ Cardinality(LotsOf({t \in on : Opens(t)}))
             = Cardinality(LotsOf(Opening(book.trades, i, side)))
        /\ Cardinality(LotsOf({t \in on : ~Opens(t)}))
             = Cardinality(LotsOf(Closing(book.trades, i, side)))
    BY <2>1, Zenon
  <2>4. SideOf(book.positions[i], side)
          = Cardinality(LotsOf({t \in on : Opens(t)}))
              - Cardinality(LotsOf({t \in on : ~Opens(t)}))
    BY <2>2, <2>3
  <2> QED BY <2>4 DEF on
<1>2. Spec => []PositionsInv
  BY InitIInv, PositionsInit, PositionsStep, AlwaysIInv, AlwaysAgree, PTL DEF Spec
<1> QED BY <1>1, <1>2, PTL

-----------------------------------------------------------------------------
(* Once everything has arrived *)

ArrivalsInv == ~strayed => \A m \in delivered : HasArrived(m)

\* What has arrived is not undone.
LEMMA ArrivalStays ==
  ASSUME IInv, OrdersAgree, IInv', OrdersAgree', NEW o \in Orders,
         About(o) \/ AtCounter, NEW m, HasArrived(m)
  PROVE  HasArrived(m)'
<1> DEFINE p == m.id
           was == book.orders[p]
           now == book'.orders[p]
           c == counter[p]
           d == counter'[p]
<1>1. p \in Orders /\ was.state # "Absent"
  BY DEF HasArrived
<1>2. /\ Onward(was, now) /\ now.state # "Absent" /\ was \in Order
      /\ now.seed = was.seed
  BY <1>1, SameSeed DEF IInv, TypeOK, Book
<1>3. c.status \in {"Canceled", "Rejected"} => d.status = c.status /\ d.filled = c.filled
  BY <1>1 DEF About, CounterKeeps, AtCounter
<1>4. Agrees(was, c) /\ Agrees(now, d)
  BY <1>1 DEF OrdersAgree
<1>5. book.trades \subseteq book'.trades
  BY DEF About, Books, Keeps, Records, AtCounter
<1>6. /\ was.reported \in Nat /\ now.reported \in Nat /\ d.filled \in Int
      /\ was.seed.quantity \in Int /\ c.filled \in Nat
  BY <1>1 DEF IInv, TypeOK, Book, Order, Seed, CounterOrder
<1>7. CASE m \in TradeReport
  BY <1>1, <1>2, <1>5, <1>7 DEF HasArrived, Onward
<1>8. CASE m \notin TradeReport
  <2>1. m.type = "Canceled" => /\ d.status = "Canceled" /\ now.reported = d.filled
                               /\ now.cancelAck
    <3>1. m.type = "Canceled" => c.status = "Canceled" /\ was.reported = c.filled
                                 /\ was.cancelAck
      BY <1>8 DEF HasArrived
    <3>2. was.reported <= now.reported /\ now.reported <= d.filled
          /\ (was.cancelAck => now.cancelAck)
      BY <1>2, <1>4 DEF Onward, Agrees
    <3> QED BY <1>3, <1>6, <3>1, <3>2
  <2>2. m.type = "Filled" => now.reported = now.seed.quantity
    <3>1. m.type = "Filled" => was.reported = was.seed.quantity
      BY <1>8 DEF HasArrived
    <3>2. was.reported <= now.reported /\ now.reported <= d.filled
          /\ d.filled <= now.seed.quantity
      BY <1>2, <1>4 DEF Onward, Agrees
    <3> QED BY <1>2, <1>6, <3>1, <3>2
  <2>3. m.type = "Rejected" => now.state = "Rejected" \/ now.reconcile
    BY <1>2, <1>8 DEF HasArrived, Onward
  <2> QED BY <1>1, <1>2, <1>8, <2>1, <2>2, <2>3 DEF HasArrived
<1> QED BY <1>7, <1>8

\* Every step keeps what has arrived.
LEMMA ArrivalsStep ==
  IInv /\ AgreeInv /\ ArrivalsInv /\ [Next]_vars => ArrivalsInv'
<1> SUFFICES ASSUME IInv, AgreeInv, ArrivalsInv, [Next]_vars, ~strayed',
                    NEW m \in delivered'
             PROVE  HasArrived(m)'
  BY DEF ArrivalsInv
<1>1. OrdersAgree /\ LotsInv /\ \A d \in delivered : HasArrived(d)
  BY StrayedStays DEF AgreeInv, ArrivalsInv
<1>2. IInv' /\ OrdersAgree'
  BY NextIInv, AgreeStep DEF AgreeInv
<1>3. CASE AtCounter
  <2>1. HasArrived(m)
    BY <1>1, <1>3 DEF AtCounter
  <2>2. m.id \in Orders
    BY <2>1 DEF HasArrived
  <2> QED BY <1>1, <1>2, <1>3, <2>1, <2>2, ArrivalStays
<1>4. ASSUME NEW o \in Orders, About(o) PROVE HasArrived(m)'
  <2>1. m \in delivered \/ HasArrived(m)'
    BY <1>4 DEF About, News
  <2> QED BY <1>1, <1>2, <1>4, <2>1, ArrivalStays
<1> QED BY <1>1, <1>3, <1>4, StepKinds

\* The volume the counter has filled is that of one of its fills.
LEMMA FilledIsVolume ==
  ASSUME IInv, OrdersAgree, NEW o \in Orders
  PROVE  counter[o].filled \in Volumes(o)
<1> DEFINE c == counter[o]
<1>1. c.filled \in Nat /\ c.fills \subseteq Fills /\ FillsTile(c)
  BY DEF IInv, TypeOK, CounterOrder, OrdersAgree
<1>2. CASE c.filled > 0
  <2>1. PICK f \in c.fills : f[1] < c.filled /\ c.filled <= f[2]
    BY <1>1, <1>2 DEF FillsTile
  <2>2. f[2] = c.filled
    BY <1>1, <2>1 DEF FillsTile, Fills
  <2> QED BY <2>1, <2>2 DEF Volumes
<1> QED BY <1>1, <1>2 DEF Volumes

\* A report of the outcome of a settled order has arrived.
LEMMA OutcomeArrived ==
  ASSUME IInv, OrdersAgree, NEW o \in Orders, Settled(o),
         \A m \in delivered : HasArrived(m),
         NEW type \in {"Filled", "Canceled", "Rejected"}, NEW cum \in Volumes(o),
         Reported(o, type, cum)
  PROVE  HasArrived([id |-> o, type |-> type, cum |-> cum])
<1> DEFINE r == [id |-> o, type |-> type, cum |-> cum]
<1>1. r \in [id : {o}, type : ReportTypes, cum : Volumes(o)]
  BY DEF ReportTypes
<1>2. r.type = type /\ r.cum = cum
  OBVIOUS
<1> HIDE DEF r
<1>3. r \in Emitted(o) /\ Outcome(r)
  BY <1>1, <1>2 DEF Emitted, Outcome
<1> QED BY <1>3 DEF Settled, r

\* Once every trade of an order has arrived unflagged, all its lots are
\* accounted for.
LEMMA AllAccounted ==
  ASSUME IInv, OrdersAgree, LotsInv, NEW o \in Orders, Settled(o),
         \A m \in delivered : HasArrived(m), ~book.orders[o].reconcile
  PROVE  book.orders[o].accounted = counter[o].filled
<1> DEFINE c == counter[o]
           lots == {<<o, n>> : n \in 1 .. c.filled}
<1>1. \A u \in Recorded(o) : \E f \in c.fills : u = TradeOf(o, f)
  BY DEF LotsInv, TradesAreFills, Recorded
<1>2. LotsOf(Recorded(o)) \subseteq lots /\ Cardinality(lots) = c.filled
  BY <1>1, LotsWithin
<1>3. ASSUME NEW f \in c.fills PROVE TradeOf(o, f) \in Recorded(o)
  <2>1. TradeOf(o, f) \in TradeReport /\ TradeOf(o, f).id = o
    BY LotsOfFill
  <2>2. TradeOf(o, f) \in Emitted(o) /\ Outcome(TradeOf(o, f))
    BY <2>1 DEF Emitted, Outcome
  <2>3. HasArrived(TradeOf(o, f))
    BY <2>2 DEF Settled
  <2> QED BY <2>1, <2>3 DEF HasArrived, Recorded
<1>4. ASSUME NEW n \in 1 .. c.filled PROVE <<o, n>> \in LotsOf(Recorded(o))
  <2>1. PICK f \in c.fills : f[1] < n /\ n <= f[2]
    BY DEF OrdersAgree, FillsTile
  <2>2. /\ Lots(TradeOf(o, f)) = {<<o, k>> : k \in f[1] + 1 .. f[2]}
        /\ f \in Nat \X Nat
    BY LotsOfFill
  <2>3. <<o, n>> \in Lots(TradeOf(o, f))
    BY <2>1, <2>2
  <2> QED BY <1>3, <2>3 DEF LotsOf
<1>5. LotsOf(Recorded(o)) = lots
  BY <1>2, <1>4
<1> HIDE DEF lots
<1>6. Cardinality(LotsOf(Recorded(o))) = Cardinality(lots)
  BY <1>5, Zenon
<1> QED BY <1>2, <1>6 DEF LotsInv

\* Whatever was lost, repeated or reordered on the way: once every message
\* about an order has arrived, an order that is not flagged agrees with the
\* counter (README.md:48).
THEOREM BookConverges == Spec => []ConvergesToCounter
<1>1. IInv /\ AgreeInv /\ ArrivalsInv => ConvergesToCounter
  <2> SUFFICES ASSUME IInv, OrdersAgree, LotsInv,
                      \A m \in delivered : HasArrived(m),
                      NEW o \in Orders, Settled(o), ~book.orders[o].reconcile
               PROVE  LET b == book.orders[o] IN
                      /\ b.reported = counter[o].filled
                      /\ b.accounted = counter[o].filled
                      /\ (b.state = "Filled") <=> (counter[o].filled = Quantity(o))
                      /\ (b.state = "Rejected") <=> (counter[o].status = "Rejected")
                      /\ b.cancelAck <=> (counter[o].status = "Canceled")
    BY DEF AgreeInv, ArrivalsInv, ConvergesToCounter
  <2> DEFINE b == book.orders[o]
             c == counter[o]
             q == b.seed.quantity
  <2>1. /\ b \in Order /\ SoundOrder(b) /\ Agrees(b, c) /\ c.filled \in Nat
        /\ b.reported \in Nat /\ q \in Int /\ Quantity(o) = q
        /\ b.cancelAck \in BOOLEAN
    BY DEF IInv, TypeOK, SoundBook, Book, Order, Seed, CounterOrder, OrdersAgree,
           Quantity
  <2>2. /\ c.status \in {"Rejected", "Canceled"} \/ (c.filled > 0 /\ c.filled = q)
        /\ b.state # "Absent"
    <3>1. c.status \in {"Rejected", "Canceled"} \/ (c.filled > 0 /\ c.filled = q)
      BY <2>1 DEF Settled
    <3> QED BY <2>1, <3>1 DEF Agrees
  <2>3. c.filled \in Volumes(o) /\ 0 \in Volumes(o)
    BY FilledIsVolume DEF Volumes
  <2>4. b.accounted = c.filled
    BY AllAccounted
  <2>5. c.status = "Canceled" => b.reported = c.filled /\ b.cancelAck
    <3> DEFINE r == [id |-> o, type |-> "Canceled", cum |-> c.filled]
    <3>1. c.status = "Canceled" => HasArrived(r)
      BY <2>3, OutcomeArrived DEF Reported
    <3>2. r \notin TradeReport
      BY DEF TradeReport
    <3> QED BY <3>1, <3>2 DEF HasArrived
  <2>6. c.status = "Rejected" => b.state = "Rejected"
    <3> DEFINE r == [id |-> o, type |-> "Rejected", cum |-> 0]
    <3>1. c.status = "Rejected" => HasArrived(r)
      BY <2>3, OutcomeArrived DEF Reported
    <3>2. r \notin TradeReport
      BY DEF TradeReport
    <3> QED BY <3>1, <3>2 DEF HasArrived
  <2>7. c.filled > 0 /\ c.filled = q => b.reported = c.filled
    <3> DEFINE r == [id |-> o, type |-> "Filled", cum |-> c.filled]
    <3>1. c.filled > 0 /\ c.filled = q => HasArrived(r)
      BY <2>1, <2>3, OutcomeArrived DEF Reported
    <3>2. r \notin TradeReport
      BY DEF TradeReport
    <3> QED BY <3>1, <3>2 DEF HasArrived
  <2>8. c.status = "Rejected" => b.reported = c.filled
    BY <2>1 DEF Agrees
  <2> HIDE DEF b, c
  <2>9. (b.state = "Filled") <=> (c.filled = q)
    BY <2>1, <2>2, <2>4 DEF SoundOrder, Agrees
  <2>10. (b.state = "Rejected") <=> (c.status = "Rejected")
    BY <2>1, <2>6 DEF Agrees
  <2>11. b.cancelAck <=> (c.status = "Canceled")
    BY <2>1, <2>5 DEF Agrees
  <2> QED BY <2>1, <2>2, <2>4, <2>5, <2>7, <2>8, <2>9, <2>10, <2>11 DEF b, c
<1>2. Init => ArrivalsInv
  BY DEF Init, ArrivalsInv
<1>3. Spec => []ArrivalsInv
  BY <1>2, ArrivalsStep, AlwaysIInv, AlwaysAgree, PTL DEF Spec
<1> QED BY <1>1, <1>3, AlwaysIInv, AlwaysAgree, PTL

-----------------------------------------------------------------------------
(* No order is flagged without a reason *)

\* The tables keep within their capacities, and a position is only opened by a
\* trade in its instrument.
TablesInv ==
  /\ IsFiniteSet(Occupied(book)) /\ Cardinality(Occupied(book)) <= OrderCapacity
  /\ Cardinality(book.trades) <= TradeCapacity
  /\ \A i \in OccupiedPositions(book) : \E t \in book.trades : t.instrument = i

Excused(o) ==
  \/ Cardinality(book.trades) = TradeCapacity
  \/ \E i \in Instruments : ~book.positions[i].known
  \/ counter[o].status = "Rejected" /\ counter[o].asked

AlarmInv ==
  ~strayed => /\ TablesInv
              /\ \A o \in Orders : book.orders[o].reconcile => Excused(o)

\* There is a position slot for every order: those in use are of other orders.
LEMMA PositionsFit ==
  ASSUME IInv, OrdersAgree, LotsInv, TablesInv, NEW o \in Orders,
         book.orders[o].state # "Absent",
         ~book.positions[book.orders[o].seed.instrument].occupied
  PROVE  ~(Cardinality(OccupiedPositions(book)) >= OrderCapacity)
<1> DEFINE others == Occupied(book) \ {o}
           used == OccupiedPositions(book)
           Names(i, p) == book.orders[p].seed.instrument = i
           order == [i \in used |-> CHOOSE p \in others : Names(i, p)]
<1>1. ASSUME NEW i \in used PROVE \E p \in others : Names(i, p)
  <2>1. PICK t \in book.trades : t.instrument = i
    BY DEF TablesInv
  <2>2. t.id \in Orders /\ \E f \in counter[t.id].fills : t = TradeOf(t.id, f)
    BY DEF LotsInv, TradesAreFills
  <2>3. Names(i, t.id)
    BY <2>1, <2>2 DEF TradeOf
  <2>4. book.orders[t.id].state # "Absent"
    BY <2>2, NoFillsYet
  <2>5. t.id # o
    BY <2>3 DEF OccupiedPositions
  <2> QED BY <2>2, <2>3, <2>4, <2>5 DEF Occupied
<1>2. \A i \in used : order[i] \in others /\ Names(i, order[i])
  BY <1>1
<1>3. order \in Injection(used, others)
  <2>1. \A i, j \in used : order[i] = order[j] => i = j
    BY <1>2
  <2>2. order \in [used -> others]
    BY <1>2
  <2> HIDE DEF order, used, others
  <2> QED BY <2>1, <2>2 DEF Injection, IsInjective
<1>4. /\ IsFiniteSet(others)
      /\ Cardinality(others) = Cardinality(Occupied(book)) - 1
  <2>1. o \in Occupied(book)
    BY DEF Occupied
  <2> QED BY <2>1, FS_RemoveElement DEF TablesInv
<1>5. IsFiniteSet(used) /\ Cardinality(used) <= Cardinality(others)
  <2> HIDE DEF order, used, others
  <2> QED BY <1>3, <1>4, FS_Injection
<1>6. Cardinality(used) \in Nat /\ Cardinality(Occupied(book)) \in Nat
  BY <1>5, FS_CardinalityType DEF TablesInv
<1> QED BY <1>4, <1>5, <1>6, BookAssumption DEF TablesInv

\* A trade that finds no slot finds the trade table full.
LEMMA TradeTableFull ==
  ASSUME IInv, OrdersAgree, LotsInv, TablesInv, NEW o \in Orders,
         NEW f \in counter[o].fills, NoTradeSlot(book, TradeOf(o, f))
  PROVE  Cardinality(book.trades) = TradeCapacity
<1>1. book.orders[o].state # "Absent"
  BY TruthfulTrade
<1>2. TradeOf(o, f).instrument = book.orders[o].seed.instrument
  BY DEF TradeOf
<1>3. Cardinality(book.trades) >= TradeCapacity
  BY <1>1, <1>2, PositionsFit DEF NoTradeSlot
<1>4. Cardinality(book.trades) \in Nat
  BY FS_CardinalityType DEF LotsInv
<1> QED BY <1>3, <1>4, BookAssumption DEF TablesInv

\* What a step about an order leaves in the tables
LEMMA TablesNext ==
  ASSUME IInv, OrdersAgree, LotsInv, TablesInv, NEW o \in Orders,
         About(o) \/ AtCounter
  PROVE  TablesInv'
<1>1. /\ book.orders \in [Orders -> Order] /\ OrderCapacity \in Nat
      /\ book.positions \in [Instruments -> Position] /\ TradeCapacity \in Nat
  BY BookAssumption DEF IInv, TypeOK, Book
<1>2. /\ IsFiniteSet(book.trades) /\ Cardinality(book.trades) \in Nat
      /\ IsFiniteSet(Occupied(book)) /\ Cardinality(Occupied(book)) \in Nat
  BY FS_CardinalityType DEF LotsInv, TablesInv
<1>3. CASE AtCounter
  BY <1>3 DEF AtCounter, TablesInv, Occupied, OccupiedPositions
<1>4. CASE About(o)
  <2>1. \A p \in Orders : /\ p # o => book'.orders[p] = book.orders[p]
                          /\ book.orders[p].state # "Absent"
                               => book'.orders[p].state # "Absent"
    BY <1>1, <1>4, SameSeed DEF About, OrderMoves
  <2>2. /\ IsFiniteSet(Occupied(book'))
        /\ Cardinality(Occupied(book')) <= OrderCapacity
    <3>1. CASE book.orders[o].state = "Absent" /\ book'.orders[o].state # "Absent"
      <4>1. Occupied(book') = Occupied(book) \cup {o} /\ o \notin Occupied(book)
        BY <2>1, <3>1 DEF Occupied
      <4>2. ~(Cardinality(Occupied(book)) >= OrderCapacity)
        BY <1>4, <3>1 DEF About, Fits
      <4>3. /\ IsFiniteSet(Occupied(book) \cup {o})
            /\ Cardinality(Occupied(book) \cup {o}) = Cardinality(Occupied(book)) + 1
        BY <1>2, <4>1, FS_AddElement
      <4>4. /\ IsFiniteSet(Occupied(book'))
            /\ Cardinality(Occupied(book')) = Cardinality(Occupied(book) \cup {o})
        BY <4>1, <4>3, Zenon
      <4> QED BY <1>1, <1>2, <4>2, <4>3, <4>4
    <3>2. CASE ~(book.orders[o].state = "Absent" /\ book'.orders[o].state # "Absent")
      <4>1. Occupied(book') = Occupied(book)
        BY <2>1, <3>2 DEF Occupied
      <4> QED BY <4>1, Zenon DEF TablesInv
    <3> QED BY <3>1, <3>2
  <2>3. CASE Keeps(o)
    BY <2>2, <2>3 DEF Keeps, TablesInv, OccupiedPositions
  <2>4. ASSUME NEW f, Records(o, f) PROVE TablesInv'
    <3> DEFINE t == TradeOf(o, f)
    <3>1. /\ f \in counter[o].fills /\ t \notin book.trades
          /\ ~NoTradeSlot(book, t)
          /\ book'.trades = book.trades \cup {t}
          /\ book'.positions = [book.positions EXCEPT ![t.instrument] =
                                  PositionAfterTrade(book.positions[t.instrument], t)]
      BY <2>4 DEF Records
    <3> HIDE DEF t
    <3>2. ~(Cardinality(book.trades) >= TradeCapacity)
      BY <3>1 DEF NoTradeSlot
    <3>3. Cardinality(book.trades \cup {t}) = Cardinality(book.trades) + 1
      BY <1>2, <3>1, FS_AddElement
    <3>4. Cardinality(book'.trades) = Cardinality(book.trades \cup {t})
      BY <3>1, Zenon
    <3>5. Cardinality(book'.trades) <= TradeCapacity
      BY <1>1, <1>2, <3>2, <3>3, <3>4
    <3>6. \A i \in OccupiedPositions(book') : \E u \in book'.trades : u.instrument = i
      <4> SUFFICES ASSUME NEW i \in Instruments, book'.positions[i].occupied
                   PROVE  \E u \in book'.trades : u.instrument = i
        BY DEF OccupiedPositions
      <4>1. CASE t.instrument = i
        BY <3>1, <4>1
      <4>2. CASE t.instrument # i
        <5>1. book'.positions[i] = book.positions[i]
          BY <1>1, <3>1, <4>2
        <5> QED BY <3>1, <5>1 DEF TablesInv, OccupiedPositions
      <4> QED BY <4>1, <4>2
    <3> QED BY <2>2, <3>5, <3>6 DEF TablesInv
  <2> QED BY <1>4, <2>3, <2>4 DEF About, Books
<1> QED BY <1>3, <1>4

\* An excuse stays one.
LEMMA ExcusedStays ==
  ASSUME IInv, OrdersAgree, LotsInv, TablesInv, NEW o \in Orders,
         About(o) \/ AtCounter, NEW p \in Orders, Excused(p)
  PROVE  Excused(p)'
<1>1. /\ book.positions \in [Instruments -> Position] /\ TradeCapacity \in Nat
      /\ counter[p].asked \in BOOLEAN /\ counter \in [Orders -> CounterOrder]
  BY BookAssumption DEF IInv, TypeOK, Book, CounterOrder
<1>2. CASE counter[p].status = "Rejected" /\ counter[p].asked
  BY <1>2 DEF About, CounterKeeps, AtCounter, Excused
<1>3. CASE book'.trades = book.trades /\ book'.positions = book.positions
  <2>1. CASE Cardinality(book.trades) = TradeCapacity
    BY <1>3, <2>1 DEF Excused
  <2> QED BY <1>2, <1>3, <2>1 DEF Excused
<1>4. ASSUME NEW f, Records(o, f) PROVE Excused(p)'
  <2> DEFINE t == TradeOf(o, f)
  <2>1. /\ f \in counter[o].fills /\ ~NoTradeSlot(book, t)
        /\ book'.positions = [book.positions EXCEPT ![t.instrument] =
                                PositionAfterTrade(book.positions[t.instrument], t)]
    BY <1>4 DEF Records
  <2>2. Cardinality(book.trades) # TradeCapacity
    BY <1>1, <2>1 DEF NoTradeSlot
  <2>3. ASSUME NEW i \in Instruments, ~book.positions[i].known
        PROVE  ~book'.positions[i].known
    <3> HIDE DEF t
    <3>1. ~PositionAfterTrade(book.positions[i], t).known
      BY <1>1, <2>3, OvercloseUnknown
    <3> QED BY <1>1, <2>1, <2>3, <3>1
  <2> QED BY <1>2, <2>2, <2>3 DEF Excused
<1> QED BY <1>3, <1>4 DEF About, Books, Keeps, AtCounter

\* Every step keeps the tables and the excuses.
LEMMA AlarmStep == IInv /\ AgreeInv /\ AlarmInv /\ [Next]_vars => AlarmInv'
<1> SUFFICES ASSUME IInv, AgreeInv, AlarmInv, [Next]_vars, ~strayed'
             PROVE  /\ TablesInv'
                    /\ \A p \in Orders : book'.orders[p].reconcile => Excused(p)'
  BY DEF AlarmInv
<1>1. /\ OrdersAgree /\ LotsInv /\ TablesInv
      /\ \A p \in Orders : book.orders[p].reconcile => Excused(p)
      /\ book.orders \in [Orders -> Order]
  BY StrayedStays DEF AgreeInv, AlarmInv, IInv, TypeOK, Book
<1>2. CASE AtCounter
  <2>1. TablesInv'
    BY <1>1, <1>2 DEF AtCounter, TablesInv, Occupied, OccupiedPositions
  <2>2. ASSUME NEW p \in Orders, book'.orders[p].reconcile PROVE Excused(p)'
    <3>1. Excused(p)
      BY <1>1, <1>2, <2>2 DEF AtCounter
    <3> QED BY <1>1, <1>2, <3>1, ExcusedStays
  <2> QED BY <2>1, <2>2
<1>3. ASSUME NEW o \in Orders, About(o)
      PROVE  /\ TablesInv'
             /\ \A p \in Orders : book'.orders[p].reconcile => Excused(p)'
  <2>1. TablesInv'
    BY <1>1, <1>3, TablesNext
  <2>2. ASSUME NEW p \in Orders, book'.orders[p].reconcile PROVE Excused(p)'
    <3>1. CASE book.orders[p].reconcile
      BY <1>1, <1>3, <3>1, ExcusedStays
    <3>2. CASE ~book.orders[p].reconcile
      <4>1. p = o
        BY <1>1, <1>3, <2>2, <3>2 DEF About, OrderMoves
      <4>2. CASE \E i \in Instruments : ~book'.positions[i].known
        BY <4>2 DEF Excused
      <4>3. CASE \E f \in counter[o].fills : NoTradeSlot(book, TradeOf(o, f))
        <5>1. Cardinality(book.trades) = TradeCapacity
          BY <1>1, <4>3, TradeTableFull
        <5> QED BY <1>1, <1>3, <5>1, ExcusedStays DEF Excused
      <4>4. CASE counter[o].status = "Rejected" /\ counter[o].asked
        BY <1>1, <1>3, <4>1, <4>4, ExcusedStays DEF Excused
      <4> QED BY <1>3, <2>2, <3>2, <4>1, <4>2, <4>3, <4>4 DEF About, Alarm
    <3> QED BY <3>1, <3>2
  <2> QED BY <2>1, <2>2
<1> QED BY <1>1, <1>2, <1>3, StepKinds

\* No order is flagged at the start.
LEMMA AlarmInit == Init => AlarmInv
<1> SUFFICES ASSUME Init
             PROVE  TablesInv /\ \A o \in Orders : ~book.orders[o].reconcile
  BY DEF AlarmInv
<1>1. /\ book.orders = [o \in Orders |-> NoOrder] /\ book.trades = {}
      /\ book.positions = [i \in Instruments |-> NoPosition]
  BY DEF Init, EmptyBook
<1>2. Occupied(book) = {} /\ OccupiedPositions(book) = {}
  BY <1>1 DEF Occupied, OccupiedPositions, NoOrder, NoPosition
<1>3. /\ IsFiniteSet(Occupied(book)) /\ Cardinality(Occupied(book)) = 0
      /\ Cardinality(book.trades) = 0
  BY <1>1, <1>2, FS_EmptySet, Zenon
<1>4. TablesInv
  BY <1>2, <1>3, BookAssumption DEF TablesInv
<1> QED BY <1>1, <1>4 DEF NoOrder

\* A truthful counter makes an order demand reconciliation only for a full
\* trade table, a close that overtook its open, or a rejection that crossed a
\* cancel request (trading.cpp 366-581).
THEOREM AlarmsExcused == Spec => []NoFalseAlarm
<1>1. AlarmInv => NoFalseAlarm
  BY DEF AlarmInv, Excused, NoFalseAlarm
<1>2. Spec => []AlarmInv
  BY AlarmInit, AlarmStep, AlwaysIInv, AlwaysAgree, PTL DEF Spec
<1> QED BY <1>1, <1>2, PTL

=============================================================================
