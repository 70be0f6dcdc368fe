---------------------- MODULE AccountTradingStateProofs ----------------------
(***************************************************************************)
(* What the operations of the book keep, for every value of the constants. *)
(* The proofs about OrderBook and about Session cite these lemmas.         *)
(***************************************************************************)
EXTENDS AccountTradingState, TLAPS

-----------------------------------------------------------------------------
(* A sound book stays sound *)

\* The fill counts of an order stay within its quantity, and it is Filled
\* once all of it is accounted for.
SoundOrder(o) ==
  o.state # "Absent" =>
    /\ o.seed.quantity > 0
    /\ o.reported <= o.seed.quantity
    /\ o.accounted <= o.seed.quantity
    /\ o.accounted = o.seed.quantity => o.state = "Filled"

SoundBook(b) == b \in Book /\ \A o \in Orders : SoundOrder(b.orders[o])

\* An empty slot is a sound order.
LEMMA NoOrderSound == NoOrder \in Order /\ SoundOrder(NoOrder)
<1>1. NoSeed \in Seed
  BY BookAssumption DEF NoSeed, Seed, Directions, Offsets
<1> QED
  BY <1>1 DEF NoOrder, Order, SoundOrder

\* The book as it is made is sound.
LEMMA EmptyBookSound == SoundBook(EmptyBook)
<1>1. NoPosition \in Position
  BY DEF NoPosition, Position
<1> QED
  BY <1>1, NoOrderSound DEF SoundBook, EmptyBook, Book

\* Replacing one order by a sound one keeps the book sound.
LEMMA OrderUpdateSound ==
  ASSUME NEW b, SoundBook(b), NEW id \in Orders,
         NEW o \in Order, SoundOrder(o)
  PROVE  SoundBook([b EXCEPT !.orders[id] = o])
BY DEF SoundBook, Book

\* Demanding reconciliation disturbs nothing else.
LEMMA FlagSound ==
  ASSUME NEW b, SoundBook(b), NEW ids
  PROVE  SoundBook(Flag(b, ids))
<1> DEFINE Flagged(o) == IF o \in ids
                         THEN [b.orders[o] EXCEPT !.reconcile = TRUE]
                         ELSE b.orders[o]
<1>1. ASSUME NEW o \in Orders
      PROVE  Flagged(o) \in Order /\ SoundOrder(Flagged(o))
  BY DEF SoundBook, Book, Order, SoundOrder
<1>2. Flag(b, ids) = [b EXCEPT !.reconciliation = TRUE,
                               !.orders = [o \in Orders |-> Flagged(o)]]
  BY DEF Flag
<1> HIDE DEF Flagged
<1> QED
  BY <1>1, <1>2 DEF SoundBook, Book

\* What an operation that only refuses, flags or ignores leaves is sound.
LEMMA RefusalSound ==
  ASSUME NEW b, SoundBook(b), NEW code, NEW ids
  PROVE  /\ SoundBook(Conflict(b, ids).book)
         /\ SoundBook(Refused(b, code, ids).book)
         /\ SoundBook(Ignored(b, code).book)
BY FlagSound DEF Conflict, Refused, Ignored, Result

\* create_order (trading.cpp 274-295) keeps a book sound.
LEMMA CreateOrderSound ==
  ASSUME NEW b, SoundBook(b), NEW id \in Orders, NEW seed \in Seed
  PROVE  SoundBook(CreateOrder(b, id, seed).book)
<1> DEFINE new == [NoOrder EXCEPT !.state = "Created", !.seed = seed]
           added == [b EXCEPT !.orders[id] = new]
<1>1. seed.quantity \in Int
  BY DEF Seed
<1>2. seed.quantity > 0 => new \in Order /\ SoundOrder(new)
  <2>1. NoOrder.reported = 0 /\ NoOrder.accounted = 0
    BY DEF NoOrder
  <2>2. new \in Order
    BY NoOrderSound DEF Order, OrderStates
  <2>3. /\ new.seed = seed
        /\ new.reported = 0
        /\ new.accounted = 0
    BY <2>1, NoOrderSound DEF Order
  <2> QED
    BY <1>1, <2>2, <2>3 DEF SoundOrder
<1> HIDE DEF new
<1>3. seed.quantity > 0 => SoundBook(added)
  BY <1>2, OrderUpdateSound
<1>4. \/ \E ids : CreateOrder(b, id, seed) = Conflict(b, ids)
      \/ \E code, ids : CreateOrder(b, id, seed) = Refused(b, code, ids)
      \/ \E code : CreateOrder(b, id, seed) = Ignored(b, code)
      \/ seed.quantity > 0 /\ CreateOrder(b, id, seed).book = added
  BY <1>1 DEF CreateOrder, Result, new
<1> QED
  BY <1>3, <1>4, RefusalSound

\* apply_local_event (trading.cpp 297-364) keeps a book sound.
LEMMA LocalEventSound ==
  ASSUME NEW b, SoundBook(b), NEW id \in Orders, NEW event \in LocalEvents
  PROVE  SoundBook(ApplyLocalEvent(b, id, event).book)
<1> DEFINE o == b.orders[id]
           result == ApplyLocalEvent(b, id, event)
           new == [o EXCEPT !.state = LocalTarget(event)]
           moved == [b EXCEPT !.orders[id] = new]
<1>1. o \in Order /\ SoundOrder(o)
  BY DEF SoundBook, Book
<1>2. LocalTarget(event) \in OrderStates
  BY DEF LocalTarget, LocalEvents, OrderStates
<1>3. ASSUME o.state \in LocalSource(event)
      PROVE  new \in Order /\ SoundOrder(new)
  BY <1>1, <1>2, <1>3 DEF Order, SoundOrder, LocalSource, LocalEvents
<1> HIDE DEF new
<1>4. o.state \in LocalSource(event) => SoundBook(moved)
  BY <1>3, OrderUpdateSound
<1>5. \/ \E ids : result = Conflict(b, ids)
      \/ \E code, ids : result = Refused(b, code, ids)
      \/ \E code : result = Ignored(b, code)
      \/ /\ o.state \in LocalSource(event)
         /\ result.book = moved \/ result.book = Flag(moved, {id})
  BY DEF ApplyLocalEvent, Result, new
<1> HIDE DEF o, result, moved
<1> QED
  BY <1>4, <1>5, RefusalSound, FlagSound DEF result

\* Merging a well-formed report into an order keeps it sound.
LEMMA OrderAfterReportSound ==
  ASSUME NEW o \in Order, SoundOrder(o), NEW r \in OrderReport,
         o.state # "Absent", ~Malformed(o, r)
  PROVE  /\ OrderAfterReport(o, r) \in Order
         /\ SoundOrder(OrderAfterReport(o, r))
<1> DEFINE after == OrderAfterReport(o, r)
<1>1. r.cum \in Int /\ r.type \in ReportTypes
  BY DEF OrderReport
<1>2. StateAfterReport(o, r) \in OrderStates \cup {"Absent"}
  BY <1>1 DEF StateAfterReport, ReportTarget, ReportTypes, OrderStates, Order
<1>3. o.state = "Filled" => StateAfterReport(o, r) = "Filled"
  BY <1>1 DEF StateAfterReport, ReportTarget, ReportSource, ReportTypes
<1>4. o.seed.quantity \in Int
  BY DEF Order, Seed
<1>5. r.cum \in Nat /\ r.cum <= o.seed.quantity
  BY <1>1, <1>4 DEF Malformed
<1>6. after \in Order
  BY <1>2, <1>5 DEF OrderAfterReport, Order
<1>7. /\ after.seed = o.seed
      /\ after.reported = r.cum
      /\ after.accounted = o.accounted
      /\ after.state = StateAfterReport(o, r)
  BY DEF OrderAfterReport, Order
<1> HIDE DEF after
<1> QED
  BY <1>3, <1>5, <1>6, <1>7 DEF SoundOrder, after

\* What apply_order_report leaves: the book flagged or as it was, or the order
\* as the report has it, flagged when it was rejected before.
LEMMA OrderReportCases ==
  ASSUME NEW b, SoundBook(b), NEW r \in OrderReport
  PROVE  LET o == b.orders[r.id]
             after == OrderAfterReport(o, r)
             merged == [b EXCEPT !.orders[r.id] = after]
             result == ApplyOrderReport(b, r)
         IN \/ \E ids : result = Conflict(b, ids)
            \/ \E code, ids : result = Refused(b, code, ids)
            \/ \E code : result = Ignored(b, code)
            \/ /\ o.state # "Absent" /\ ~Malformed(o, r) /\ SoundBook(merged)
               /\ ~Contradicts(o, r)
               /\ \/ result = Conflict(merged, {r.id})
                  \/ /\ ~(r.type = "Filled" /\ o.state = "Rejected")
                     /\ result.book = merged
<1> DEFINE o == b.orders[r.id]
           after == OrderAfterReport(o, r)
           merged == [b EXCEPT !.orders[r.id] = after]
<1>1. o \in Order /\ SoundOrder(o) /\ r.id \in Orders
  BY DEF SoundBook, Book, OrderReport
<1>2. o.state # "Absent" /\ ~Malformed(o, r) =>
        after \in Order /\ SoundOrder(after)
  BY <1>1, OrderAfterReportSound
<1> HIDE DEF after
<1>3. o.state # "Absent" /\ ~Malformed(o, r) => SoundBook(merged)
  BY <1>1, <1>2, OrderUpdateSound
<1> QED
  BY <1>3 DEF ApplyOrderReport, Result, Ignored, after

\* apply_order_report (trading.cpp 366-479) keeps a book sound.
LEMMA OrderReportSound ==
  ASSUME NEW b, SoundBook(b), NEW r \in OrderReport
  PROVE  SoundBook(ApplyOrderReport(b, r).book)
<1> DEFINE result == ApplyOrderReport(b, r)
           after == OrderAfterReport(b.orders[r.id], r)
           merged == [b EXCEPT !.orders[r.id] = after]
<1>1. \/ \E ids : result = Conflict(b, ids)
      \/ \E code, ids : result = Refused(b, code, ids)
      \/ \E code : result = Ignored(b, code)
      \/ /\ SoundBook(merged)
         /\ result = Conflict(merged, {r.id}) \/ result.book = merged
  BY OrderReportCases
<1> HIDE DEF result, merged
<1> QED
  BY <1>1, RefusalSound DEF result

\* A position stays a pair of naturals: a close too large is not subtracted.
LEMMA PositionAfterTradeType ==
  ASSUME NEW p \in Position, NEW t \in TradeReport, t.quantity > 0
  PROVE  PositionAfterTrade(p, t) \in Position
<1> DEFINE touched == [p EXCEPT !.occupied = TRUE]
           signed == IF Opens(t) THEN t.quantity ELSE -t.quantity
<1>1. t.quantity \in Nat
  BY DEF TradeReport
<1>2. touched \in Position /\ touched.long = p.long /\ touched.short = p.short
  BY DEF Position
<1>3. CASE Overcloses(p, t)
  BY <1>2, <1>3 DEF PositionAfterTrade, Position
<1>4. CASE ~Overcloses(p, t) /\ Side(t) = "long"
  <2>1. p.long + signed \in Nat
    BY <1>1, <1>4 DEF Overcloses, Position
  <2>2. PositionAfterTrade(p, t) = [touched EXCEPT !.long = @ + signed]
    BY <1>4 DEF PositionAfterTrade
  <2> HIDE DEF signed, touched
  <2> QED
    BY <1>2, <2>1, <2>2 DEF Position
<1>5. CASE ~Overcloses(p, t) /\ Side(t) # "long"
  <2>1. p.short + signed \in Nat
    BY <1>1, <1>5 DEF Overcloses, Position
  <2>2. PositionAfterTrade(p, t) = [touched EXCEPT !.short = @ + signed]
    BY <1>5 DEF PositionAfterTrade
  <2> HIDE DEF signed, touched
  <2> QED
    BY <1>2, <2>1, <2>2 DEF Position
<1> QED
  BY <1>3, <1>4, <1>5

\* Recording a trade that fits its order keeps the book sound.
LEMMA RecordTradeSound ==
  ASSUME NEW b, SoundBook(b), NEW t \in TradeReport, t.quantity > 0,
         b.orders[t.id].state # "Absent", ~Mismatched(b.orders[t.id], t)
  PROVE  SoundBook(RecordTrade(b, t))
<1> DEFINE o == b.orders[t.id]
           after == OrderAfterTrade(o, t)
           position == PositionAfterTrade(b.positions[t.instrument], t)
<1>1. o \in Order /\ SoundOrder(o)
  BY DEF SoundBook, Book, TradeReport
<1>2. t.quantity \in Int /\ t.id \in Orders /\ t.instrument \in Instruments
  BY DEF TradeReport
<1>3. after \in Order /\ SoundOrder(after)
  <2>1. o.accounted \in Nat /\ o.reported \in Nat /\ o.seed.quantity \in Int
    BY <1>1 DEF Order, Seed
  <2>2. o.accounted + t.quantity <= o.seed.quantity
    BY <1>2, <2>1 DEF Mismatched
  <2>3. after \in Order
    <3>1. o.accounted + t.quantity \in Nat
      BY <1>2, <2>1
    <3> QED
      BY <1>1, <3>1 DEF OrderAfterTrade, Order, OrderStates
  <2>4. /\ after.seed = o.seed
        /\ after.reported = o.reported
        /\ after.accounted = o.accounted + t.quantity
        /\ after.accounted = o.seed.quantity => after.state = "Filled"
    BY <1>1 DEF OrderAfterTrade, Order
  <2> QED
    BY <1>1, <2>1, <2>2, <2>3, <2>4 DEF SoundOrder
<1>4. position \in Position
  BY <1>2, PositionAfterTradeType DEF SoundBook, Book
<1>5. RecordTrade(b, t) = [b EXCEPT !.trades = @ \cup {t},
                                    !.orders[t.id] = after,
                                    !.positions[t.instrument] = position]
  BY DEF RecordTrade
<1> HIDE DEF o, after, position
<1>6. [b.orders EXCEPT ![t.id] = after] \in [Orders -> Order]
  BY <1>3 DEF SoundBook, Book
<1>7. [b.positions EXCEPT ![t.instrument] = position]
        \in [Instruments -> Position]
  BY <1>4 DEF SoundBook, Book
<1>8. RecordTrade(b, t) \in Book
  <2>1. b.trades \cup {t} \in SUBSET TradeReport
    BY DEF SoundBook, Book
  <2> DEFINE orders == [b.orders EXCEPT ![t.id] = after]
             positions == [b.positions EXCEPT ![t.instrument] = position]
  <2>2. RecordTrade(b, t) = [b EXCEPT !.trades = b.trades \cup {t},
                                      !.orders = orders,
                                      !.positions = positions]
    BY <1>5
  <2> HIDE DEF orders, positions
  <2> QED
    BY <1>6, <1>7, <2>1, <2>2 DEF SoundBook, Book, orders, positions
<1>9. RecordTrade(b, t).orders = [b.orders EXCEPT ![t.id] = after]
  BY <1>5 DEF SoundBook, Book
<1> QED
  BY <1>2, <1>3, <1>8, <1>9 DEF SoundBook, Book

\* What apply_trade leaves: the book flagged or as it was, or the trade
\* recorded, flagged when it fits neither the order's state nor the position.
LEMMA TradeCases ==
  ASSUME NEW b, SoundBook(b), NEW t \in TradeReport
  PROVE  LET o == b.orders[t.id]
             recorded == RecordTrade(b, t)
             result == ApplyTrade(b, t)
         IN \/ \E ids : result = Conflict(b, ids)
            \/ \E code, ids : result = Refused(b, code, ids)
            \/ \E code : result = Ignored(b, code)
            \/ /\ t.quantity > 0 /\ o.state # "Absent" /\ ~Mismatched(o, t)
               /\ SoundBook(recorded)
               /\ \/ result.book = Flag(recorded, {t.id})
                  \/ o.state # "Rejected" /\ result.book = recorded
<1>1. t.quantity \in Int
  BY DEF TradeReport
<1>2. t.quantity > 0 /\ b.orders[t.id].state # "Absent"
        /\ ~Mismatched(b.orders[t.id], t) => SoundBook(RecordTrade(b, t))
  BY RecordTradeSound
<1> QED
  BY <1>1, <1>2 DEF ApplyTrade, Result

\* apply_trade (trading.cpp 481-581) keeps a book sound.
LEMMA TradeSound ==
  ASSUME NEW b, SoundBook(b), NEW t \in TradeReport
  PROVE  SoundBook(ApplyTrade(b, t).book)
BY TradeCases, RefusalSound, FlagSound

-----------------------------------------------------------------------------
(* An operation concerns one order *)

\* Every order but id has the state in c that it has in b.
OthersKeep(b, c, id) ==
  \A o \in Orders \ {id} : c.orders[o].state = b.orders[o].state

\* Flagging changes no state.
LEMMA FlagKeepsStates ==
  ASSUME NEW b, SoundBook(b), NEW ids, NEW o \in Orders
  PROVE  Flag(b, ids).orders[o].state = b.orders[o].state
<1>1. Flag(b, ids).orders[o] = IF o \in ids
                               THEN [b.orders[o] EXCEPT !.reconcile = TRUE]
                               ELSE b.orders[o]
  BY DEF Flag, SoundBook, Book
<1>2. b.orders[o] \in Order
  BY DEF SoundBook, Book
<1> QED BY <1>1, <1>2 DEF Order

\* What only refuses, flags or ignores changes no state.
LEMMA RefusalKeepsStates ==
  ASSUME NEW b, SoundBook(b), NEW code, NEW ids, NEW o \in Orders
  PROVE  /\ Conflict(b, ids).book.orders[o].state = b.orders[o].state
         /\ Refused(b, code, ids).book.orders[o].state = b.orders[o].state
         /\ Ignored(b, code).book.orders[o].state = b.orders[o].state
BY FlagKeepsStates DEF Conflict, Refused, Ignored, Result

\* create_order concerns the order it makes.
LEMMA CreateOrderConcerns ==
  ASSUME NEW b, SoundBook(b), NEW id \in Orders, NEW seed \in Seed
  PROVE  LET result == CreateOrder(b, id, seed) IN
         /\ OthersKeep(b, result.book, id)
         /\ result.code = "Applied" => result.book.orders[id].state = "Created"
<1> DEFINE new == [NoOrder EXCEPT !.state = "Created", !.seed = seed]
           added == [b EXCEPT !.orders[id] = new]
           result == CreateOrder(b, id, seed)
<1>1. OthersKeep(b, added, id) /\ added.orders[id] = new
  BY DEF OthersKeep, SoundBook, Book
<1>2. new.state = "Created"
  BY NoOrderSound DEF Order
<1> HIDE DEF new
<1>3. \/ \E ids : result = Conflict(b, ids)
      \/ \E ids : result = Refused(b, "CapacityExceeded", ids)
      \/ result = Ignored(b, "Duplicate")
      \/ result.book = added
  BY DEF CreateOrder, Result, new
<1>4. \A ids : /\ Conflict(b, ids).code = "Conflict"
               /\ Refused(b, "CapacityExceeded", ids).code = "CapacityExceeded"
               /\ Ignored(b, "Duplicate").code = "Duplicate"
  BY DEF Conflict, Refused, Ignored, Result
<1> HIDE DEF added, result
<1> QED
  BY <1>1, <1>2, <1>3, <1>4, RefusalKeepsStates DEF OthersKeep, result

\* apply_local_event concerns the order it names: it comes to the state of the
\* event from a state in which it may happen, and keeps its state otherwise.
LEMMA LocalEventConcerns ==
  ASSUME NEW b, SoundBook(b), NEW id \in Orders, NEW event \in LocalEvents
  PROVE  LET before == b.orders[id].state
             after == ApplyLocalEvent(b, id, event).book.orders[id].state IN
         /\ OthersKeep(b, ApplyLocalEvent(b, id, event).book, id)
         /\ before \in LocalSource(event) => after = LocalTarget(event)
         /\ before \notin LocalSource(event) => after = before
<1> DEFINE o == b.orders[id]
           result == ApplyLocalEvent(b, id, event)
           new == [o EXCEPT !.state = LocalTarget(event)]
           moved == [b EXCEPT !.orders[id] = new]
<1>1. o \in Order /\ SoundOrder(o)
  BY DEF SoundBook, Book
<1>2. o.state \in LocalSource(event) => new \in Order /\ SoundOrder(new)
  BY <1>1 DEF Order, SoundOrder, LocalSource, LocalEvents, LocalTarget,
              OrderStates
<1>3. OthersKeep(b, moved, id) /\ moved.orders[id].state = LocalTarget(event)
  BY <1>1 DEF OthersKeep, SoundBook, Book, Order
<1> HIDE DEF new
<1>4. o.state \in LocalSource(event) => SoundBook(moved)
  BY <1>2, OrderUpdateSound
<1>5. o.state \in LocalSource(event) =>
        o.state # "Absent" /\ o.state # LocalTarget(event)
  BY DEF LocalSource, LocalEvents, LocalTarget
<1>6. \/ /\ o.state \notin LocalSource(event)
         /\ \/ \E ids : result = Conflict(b, ids)
            \/ \E code, ids : result = Refused(b, code, ids)
            \/ \E code : result = Ignored(b, code)
      \/ /\ o.state \in LocalSource(event)
         /\ result.book = moved \/ result.book = Flag(moved, {id})
  BY <1>5 DEF ApplyLocalEvent, Result, new
<1> HIDE DEF moved
<1>7. CASE o.state \notin LocalSource(event)
  <2>1. \A x \in Orders : result.book.orders[x].state = b.orders[x].state
    <3> HIDE DEF result
    <3> QED BY <1>6, <1>7, RefusalKeepsStates
  <2> QED BY <1>7, <2>1 DEF OthersKeep
<1>8. CASE o.state \in LocalSource(event)
  <2>1. \A x \in Orders : result.book.orders[x].state = moved.orders[x].state
    <3> HIDE DEF result
    <3> QED BY <1>4, <1>6, <1>8, FlagKeepsStates
  <2> QED BY <1>3, <1>8, <2>1 DEF OthersKeep
<1> QED BY <1>7, <1>8

\* apply_order_report concerns the order it names: that one keeps its state or
\* comes to that of the report.
LEMMA OrderReportConcerns ==
  ASSUME NEW b, SoundBook(b), NEW r \in OrderReport
  PROVE  LET before == b.orders[r.id]
             after == ApplyOrderReport(b, r).book.orders[r.id] IN
         /\ OthersKeep(b, ApplyOrderReport(b, r).book, r.id)
         /\ after.state \in {before.state, StateAfterReport(before, r)}
<1> DEFINE o == b.orders[r.id]
           after == OrderAfterReport(o, r)
           merged == [b EXCEPT !.orders[r.id] = after]
           result == ApplyOrderReport(b, r)
<1>1. o \in Order /\ r.id \in Orders
  BY DEF SoundBook, Book, OrderReport
<1>2. OthersKeep(b, merged, r.id)
      /\ merged.orders[r.id].state = StateAfterReport(o, r)
  BY <1>1 DEF OthersKeep, SoundBook, Book, OrderAfterReport, Order
<1> HIDE DEF after
<1>3. \/ \E ids : result = Conflict(b, ids)
      \/ \E code, ids : result = Refused(b, code, ids)
      \/ \E code : result = Ignored(b, code)
      \/ /\ SoundBook(merged)
         /\ result = Conflict(merged, {r.id}) \/ result.book = merged
  BY OrderReportCases DEF after
<1> HIDE DEF merged
<1>4. CASE \A x \in Orders : result.book.orders[x].state = b.orders[x].state
  BY <1>1, <1>4 DEF OthersKeep
<1>5. CASE \A x \in Orders : result.book.orders[x].state = merged.orders[x].state
  BY <1>1, <1>2, <1>5 DEF OthersKeep
<1>6. \/ \A x \in Orders : result.book.orders[x].state = b.orders[x].state
      \/ \A x \in Orders : result.book.orders[x].state = merged.orders[x].state
  <2>1. \A code, ids : \A x \in Orders :
          /\ Conflict(b, ids).book.orders[x].state = b.orders[x].state
          /\ Refused(b, code, ids).book.orders[x].state = b.orders[x].state
          /\ Ignored(b, code).book.orders[x].state = b.orders[x].state
    BY RefusalKeepsStates
  <2>2. SoundBook(merged) => \A x \in Orders :
          Conflict(merged, {r.id}).book.orders[x].state = merged.orders[x].state
    BY RefusalKeepsStates
  <2> HIDE DEF result, o
  <2>3. CASE \E ids : result = Conflict(b, ids)
    BY <2>1, <2>3
  <2>4. CASE \E code, ids : result = Refused(b, code, ids)
    BY <2>1, <2>4
  <2>5. CASE \E code : result = Ignored(b, code)
    BY <2>1, <2>5
  <2>6. CASE /\ SoundBook(merged)
             /\ result = Conflict(merged, {r.id}) \/ result.book = merged
    BY <2>2, <2>6
  <2> QED BY <1>3, <2>3, <2>4, <2>5, <2>6
<1> QED BY <1>4, <1>5, <1>6

\* apply_trade concerns the order it names.
LEMMA TradeConcerns ==
  ASSUME NEW b, SoundBook(b), NEW t \in TradeReport
  PROVE  OthersKeep(b, ApplyTrade(b, t).book, t.id)
<1> DEFINE recorded == RecordTrade(b, t)
           result == ApplyTrade(b, t)
<1>1. OthersKeep(b, recorded, t.id)
  BY DEF OthersKeep, RecordTrade, SoundBook, Book, TradeReport
<1>2. \/ \E ids : result = Conflict(b, ids)
      \/ \E code, ids : result = Refused(b, code, ids)
      \/ \E code : result = Ignored(b, code)
      \/ /\ SoundBook(recorded)
         /\ result.book = Flag(recorded, {t.id}) \/ result.book = recorded
  BY TradeCases
<1> HIDE DEF recorded, result
<1>3. \/ \A x \in Orders : result.book.orders[x].state = b.orders[x].state
      \/ \A x \in Orders : result.book.orders[x].state = recorded.orders[x].state
  <2>1. \A code, ids : \A x \in Orders :
          /\ Conflict(b, ids).book.orders[x].state = b.orders[x].state
          /\ Refused(b, code, ids).book.orders[x].state = b.orders[x].state
          /\ Ignored(b, code).book.orders[x].state = b.orders[x].state
    BY RefusalKeepsStates
  <2>2. SoundBook(recorded) => \A x \in Orders :
          Flag(recorded, {t.id}).orders[x].state = recorded.orders[x].state
    BY FlagKeepsStates
  <2>3. CASE \E ids : result = Conflict(b, ids)
    BY <2>1, <2>3
  <2>4. CASE \E code, ids : result = Refused(b, code, ids)
    BY <2>1, <2>4
  <2>5. CASE \E code : result = Ignored(b, code)
    BY <2>1, <2>5
  <2>6. CASE /\ SoundBook(recorded)
             /\ result.book = Flag(recorded, {t.id}) \/ result.book = recorded
    BY <2>2, <2>6
  <2> QED BY <1>2, <2>3, <2>4, <2>5, <2>6
<1> QED BY <1>1, <1>3 DEF OthersKeep, result

-----------------------------------------------------------------------------
(* Only trades move lots *)

\* Positions, recorded trades, and what each order is and has accounted for
SameLots(b, c) ==
  /\ c.positions = b.positions /\ c.trades = b.trades
  /\ \A o \in Orders :
       /\ c.orders[o].seed = b.orders[o].seed
       /\ c.orders[o].accounted = b.orders[o].accounted
       /\ c.orders[o].state = "Absent" <=> b.orders[o].state = "Absent"

\* Flagging moves none.
LEMMA FlagSameLots ==
  ASSUME NEW b, SoundBook(b), NEW ids
  PROVE  SameLots(b, Flag(b, ids))
<1> DEFINE Flagged(o) == IF o \in ids
                         THEN [b.orders[o] EXCEPT !.reconcile = TRUE]
                         ELSE b.orders[o]
<1>1. ASSUME NEW o \in Orders
      PROVE  /\ Flagged(o).seed = b.orders[o].seed
             /\ Flagged(o).accounted = b.orders[o].accounted
             /\ Flagged(o).state = b.orders[o].state
  BY DEF SoundBook, Book, Order
<1>2. Flag(b, ids) = [b EXCEPT !.reconciliation = TRUE,
                               !.orders = [o \in Orders |-> Flagged(o)]]
  BY DEF Flag
<1> HIDE DEF Flagged
<1> QED BY <1>1, <1>2 DEF SameLots, SoundBook, Book

\* Nor does what only refuses, flags or ignores.
LEMMA RefusalSameLots ==
  ASSUME NEW b, SoundBook(b), NEW code, NEW ids
  PROVE  /\ SameLots(b, Conflict(b, ids).book)
         /\ SameLots(b, Refused(b, code, ids).book)
         /\ SameLots(b, Ignored(b, code).book)
<1>1. SameLots(b, b)
  BY DEF SameLots
<1> QED BY <1>1, FlagSameLots DEF Conflict, Refused, Ignored, Result

\* Replacing an order by one with the same name and count
LEMMA OrderUpdateSameLots ==
  ASSUME NEW b, SoundBook(b), NEW id \in Orders, NEW o,
         o.seed = b.orders[id].seed, o.accounted = b.orders[id].accounted,
         o.state = "Absent" <=> b.orders[id].state = "Absent"
  PROVE  SameLots(b, [b EXCEPT !.orders[id] = o])
BY DEF SameLots, SoundBook, Book

\* Two operations that move none
LEMMA SameLotsTwice ==
  ASSUME NEW b, NEW c, NEW d, SameLots(b, c), SameLots(c, d)
  PROVE  SameLots(b, d)
BY DEF SameLots

\* apply_local_event moves none.
LEMMA LocalEventSameLots ==
  ASSUME NEW b, SoundBook(b), NEW id \in Orders, NEW event \in LocalEvents
  PROVE  SameLots(b, ApplyLocalEvent(b, id, event).book)
<1> DEFINE o == b.orders[id]
           result == ApplyLocalEvent(b, id, event)
           new == [o EXCEPT !.state = LocalTarget(event)]
           moved == [b EXCEPT !.orders[id] = new]
<1>1. o \in Order /\ SoundOrder(o)
  BY DEF SoundBook, Book
<1>2. /\ new.seed = o.seed /\ new.accounted = o.accounted
      /\ new.state = LocalTarget(event) /\ LocalTarget(event) # "Absent"
      /\ o.state \in LocalSource(event) =>
           o.state # "Absent" /\ new \in Order /\ SoundOrder(new)
  BY <1>1 DEF Order, SoundOrder, LocalSource, LocalEvents, LocalTarget, OrderStates
<1> HIDE DEF new
<1>3. o.state \in LocalSource(event) => SoundBook(moved) /\ SameLots(b, moved)
  BY <1>2, OrderUpdateSound, OrderUpdateSameLots
<1>4. \/ \E ids : result = Conflict(b, ids)
      \/ \E code, ids : result = Refused(b, code, ids)
      \/ \E code : result = Ignored(b, code)
      \/ /\ o.state \in LocalSource(event)
         /\ result.book = moved \/ result.book = Flag(moved, {id})
  BY DEF ApplyLocalEvent, Result, new
<1> HIDE DEF moved, result
<1>5. CASE o.state \in LocalSource(event) /\ result.book = Flag(moved, {id})
  <2>1. SameLots(moved, Flag(moved, {id}))
    BY <1>3, <1>5, FlagSameLots
  <2> QED BY <1>3, <1>5, <2>1, SameLotsTwice DEF result
<1>6. CASE o.state \in LocalSource(event) /\ result.book = moved
  BY <1>3, <1>6 DEF result
<1>7. ASSUME NEW code, NEW ids,
             \/ result = Conflict(b, ids) \/ result = Refused(b, code, ids)
             \/ result = Ignored(b, code)
      PROVE  SameLots(b, result.book)
  BY <1>7, RefusalSameLots
<1> QED BY <1>4, <1>5, <1>6, <1>7 DEF result

\* apply_order_report moves none.
LEMMA OrderReportSameLots ==
  ASSUME NEW b, SoundBook(b), NEW r \in OrderReport
  PROVE  SameLots(b, ApplyOrderReport(b, r).book)
<1> DEFINE o == b.orders[r.id]
           after == OrderAfterReport(o, r)
           merged == [b EXCEPT !.orders[r.id] = after]
           result == ApplyOrderReport(b, r)
<1>1. o \in Order /\ SoundOrder(o) /\ r.id \in Orders
  BY DEF SoundBook, Book, OrderReport
<1>2. /\ after.seed = o.seed /\ after.accounted = o.accounted
      /\ after.state = StateAfterReport(o, r)
  BY <1>1 DEF OrderAfterReport, Order
<1>3. o.state # "Absent" => after.state # "Absent"
  BY <1>2 DEF StateAfterReport, ReportTarget, OrderReport, ReportTypes
<1> HIDE DEF after
<1>4. o.state # "Absent" => SameLots(b, merged)
  BY <1>1, <1>2, <1>3, OrderUpdateSameLots
<1>5. \/ \E ids : result = Conflict(b, ids)
      \/ \E code, ids : result = Refused(b, code, ids)
      \/ \E code : result = Ignored(b, code)
      \/ /\ SoundBook(merged) /\ o.state # "Absent"
         /\ result = Conflict(merged, {r.id}) \/ result.book = merged
  <2>1. o.state = "Absent" => result = Refused(b, "UnknownOrder", {})
    BY DEF ApplyOrderReport
  <2> QED BY <2>1, OrderReportCases DEF after
<1> HIDE DEF merged, result
<1>6. CASE /\ SoundBook(merged) /\ o.state # "Absent"
           /\ result = Conflict(merged, {r.id}) \/ result.book = merged
  <2>1. SameLots(merged, Conflict(merged, {r.id}).book)
    BY <1>6, RefusalSameLots
  <2>2. SameLots(b, merged) /\ (result.book = merged \/ SameLots(merged, result.book))
    BY <1>4, <1>6, <2>1
  <2> QED BY <2>2, SameLotsTwice DEF result
<1>7. ASSUME NEW code, NEW ids,
             \/ result = Conflict(b, ids) \/ result = Refused(b, code, ids)
             \/ result = Ignored(b, code)
      PROVE  SameLots(b, result.book)
  BY <1>7, RefusalSameLots
<1> QED BY <1>5, <1>6, <1>7 DEF result

\* create_order moves none; it adds the order, which has accounted for nothing.
LEMMA CreateOrderAdds ==
  ASSUME NEW b, SoundBook(b), NEW id \in Orders, NEW seed \in Seed
  PROVE  LET result == CreateOrder(b, id, seed)
             c == result.book IN
         IF result.code = "Applied"
         THEN /\ c.positions = b.positions /\ c.trades = b.trades
              /\ b.orders[id].state = "Absent"
              /\ c.orders[id].state = "Created" /\ c.orders[id].seed = seed
              /\ c.orders[id].accounted = 0
              /\ \A o \in Orders \ {id} : c.orders[o] = b.orders[o]
         ELSE SameLots(b, c)
<1> DEFINE new == [NoOrder EXCEPT !.state = "Created", !.seed = seed]
           added == [b EXCEPT !.orders[id] = new]
           result == CreateOrder(b, id, seed)
<1>1. new.state = "Created" /\ new.seed = seed /\ new.accounted = 0
  BY DEF NoOrder
<1> HIDE DEF new
<1>2. \/ \E ids : result = Conflict(b, ids)
      \/ result = Refused(b, "CapacityExceeded", {})
      \/ result = Ignored(b, "Duplicate")
      \/ /\ b.orders[id].state = "Absent"
         /\ result = Result(added, "Applied", FALSE, FALSE)
  BY DEF CreateOrder, new
<1>3. ASSUME NEW code, NEW ids
      PROVE  /\ Conflict(b, ids).code = "Conflict"
             /\ Refused(b, code, ids).code = code
             /\ Ignored(b, code).code = code
  BY DEF Conflict, Refused, Ignored, Result
<1>4. CASE /\ b.orders[id].state = "Absent"
           /\ result = Result(added, "Applied", FALSE, FALSE)
  <2>1. result.code = "Applied" /\ result.book = added
    BY <1>4 DEF Result
  <2>2. /\ added.positions = b.positions /\ added.trades = b.trades
        /\ added.orders[id] = new
        /\ \A o \in Orders \ {id} : added.orders[o] = b.orders[o]
    BY DEF SoundBook, Book
  <2> HIDE DEF added, result
  <2> QED BY <1>1, <1>4, <2>1, <2>2 DEF result
<1>5. ASSUME NEW ids,
             \/ result = Conflict(b, ids) \/ result = Ignored(b, "Duplicate")
             \/ result = Refused(b, "CapacityExceeded", {})
      PROVE  result.code # "Applied" /\ SameLots(b, result.book)
  <2> HIDE DEF result
  <2> QED BY <1>3, <1>5, RefusalSameLots
<1> HIDE DEF added
<1> QED BY <1>2, <1>4, <1>5 DEF result

\* apply_trade records the trade when it applies, and moves nothing when it
\* neither applies nor demands reconciliation.
LEMMA TradeOutcome ==
  ASSUME NEW b, NEW t \in TradeReport
  PROVE  LET result == ApplyTrade(b, t)
             o == b.orders[t.id] IN
         /\ result.code = "Applied" =>
              /\ result.book = RecordTrade(b, t) /\ result.positionChanged
              /\ t.quantity > 0 /\ SameKey(b, t) = {}
              /\ o.state # "Absent" /\ ~Mismatched(o, t)
              /\ ~Overcloses(b.positions[t.instrument], t)
         /\ \/ result.code = "Applied"
            \/ result.reconcile
            \/ result.code = "Duplicate" /\ result.book = b /\ t \in b.trades
BY DEF ApplyTrade, Result, Ignored, Conflict, Refused, TradeReport, SameKey

=============================================================================
