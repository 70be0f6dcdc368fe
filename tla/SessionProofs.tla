---------------------------- MODULE SessionProofs ----------------------------
(***************************************************************************)
(* Proofs about Session for any plans, limits and number of orders: the    *)
(* types of the account and of what is on its way to it, and the open      *)
(* slots, which are given back once and only when the book knows the entry *)
(* to have ended.                                                          *)
(*                                                                         *)
(* A slot is tied to the state of its order by HoldsSlot. Every operation  *)
(* of the book concerns one order (AccountTradingStateProofs), and the     *)
(* handler that calls it releases the slot of that order.                  *)
(*                                                                         *)
(* Then what folds over orders compute; the cancel quota; who the orders   *)
(* are; lots and the exit that closes them; one exit order of a signal;    *)
(* what is held compared with what the counter has open; and, for the      *)
(* proofs about Recovery, what an operation tells the book of an order.    *)
(***************************************************************************)
EXTENDS Session, AccountTradingStateProofs, FiniteSetTheorems,
        SequenceTheorems

-----------------------------------------------------------------------------
(* The inductive invariant *)

Message == [id : Orders, kind : {"Order", "CancelResponse"},
            type : ReportTypes, cum : Nat]
Trade == {t \in TradeReport : t.quantity \in Nat}

SessionTypes ==
  /\ SoundBook(book)
  /\ records \in [Orders -> Record]
  /\ exit \in Exit /\ (exit.active => exit.id \in Orders)
  /\ counter \in [Orders -> CounterOrder]
  /\ reports \in Seq(Message) /\ trades \in Seq(Trade)
  /\ plan \in Plans

HoldsSlot(o) ==
  records[o].activeOpen =>
    /\ records[o].occupied
    /\ records[o].intent.offset = "Open"
    /\ State(o) \notin Terminal

OpenSlots ==
  /\ openOrders = CountOpen(records)
  /\ openOrders <= MaxActiveOpen
  /\ \A o \in Orders : HoldsSlot(o)

\* Records are used from the first one on, so the next one is free.
UsedInOrder == Records = 1 .. Cardinality(Records)

AccountInv == SessionTypes /\ UsedInOrder
SessionInv == AccountInv /\ OpenSlots

\* Of a step: the records stay in order and the slots as they should be, and
\* the types with them. Only the slots depend on the order of events that a
\* connection without losses gives (see RecoveryProofs).
SlotsStay == UsedInOrder' /\ (OpenSlots => OpenSlots')
InvStays == AccountInv' /\ (OpenSlots => OpenSlots')

-----------------------------------------------------------------------------
(* Counting records *)

\* There are finitely many orders.
LEMMA OrdersCounted == IsFiniteSet(Orders)
BY SessionAssumption, FS_Interval

\* There are finitely many records, so the slots can be counted.
LEMMA SlotsCounted ==
  ASSUME NEW rs
  PROVE  IsFiniteSet({o \in Orders : rs[o].activeOpen}) /\ CountOpen(rs) \in Nat
<1>1. IsFiniteSet(Orders)
  BY OrdersCounted
<1>2. {o \in Orders : rs[o].activeOpen} \subseteq Orders
  OBVIOUS
<1>3. IsFiniteSet({o \in Orders : rs[o].activeOpen})
  BY <1>1, <1>2, FS_Subset
<1> QED BY <1>3, FS_CardinalityType DEF CountOpen

\* The number of records used
LEMMA RecordsCounted == IsFiniteSet(Records) /\ Cardinality(Records) \in Nat
<1>1. IsFiniteSet(Orders)
  BY OrdersCounted
<1>2. Records \subseteq Orders
  BY DEF Records
<1> QED BY <1>1, <1>2, FS_Subset, FS_CardinalityType

\* The record after the last one used is free, and is the next to be used.
LEMMA NextIsFree ==
  ASSUME UsedInOrder, Cardinality(Records) < RecordCapacity
  PROVE  /\ NextId \in Orders /\ NextId \notin Records
         /\ Records \cup {NextId} = 1 .. NextId
         /\ Cardinality(1 .. NextId) = NextId
<1>1. Cardinality(Records) \in Nat
  BY RecordsCounted
<1>2. NextId \in Nat /\ NextId = Cardinality(Records) + 1
  BY <1>1 DEF NextId
<1>3. NextId \in Orders /\ NextId \notin Records
  BY <1>1, <1>2, SessionAssumption DEF UsedInOrder
<1>4. Records \cup {NextId} = 1 .. NextId
  BY <1>1, <1>2 DEF UsedInOrder
<1>5. Cardinality(1 .. NextId) = NextId
  BY <1>1, <1>2, FS_Interval
<1> QED BY <1>3, <1>4, <1>5

\* A step that takes no record and no slot, and ends no order that holds one
LEMMA SlotsKept ==
  ASSUME UsedInOrder, openOrders' = openOrders,
         \A o \in Orders : /\ records'[o].occupied = records[o].occupied
                           /\ records'[o].activeOpen = records[o].activeOpen
                           /\ records'[o].intent = records[o].intent
                           /\ State(o) \notin Terminal => State(o)' \notin Terminal
  PROVE  SlotsStay
<1>1. Records' = Records
  BY DEF Records
<1>2. {o \in Orders : records'[o].activeOpen} = {o \in Orders : records[o].activeOpen}
  OBVIOUS
<1>3. CountOpen(records') = CountOpen(records)
  BY <1>2 DEF CountOpen
<1>4. ASSUME OpenSlots, NEW o \in Orders PROVE HoldsSlot(o)'
  BY <1>4 DEF OpenSlots, HoldsSlot
<1>5. UsedInOrder'
  BY <1>1 DEF UsedInOrder
<1> QED BY <1>3, <1>4, <1>5 DEF OpenSlots, SlotsStay

-----------------------------------------------------------------------------
(* submit *)

\* The order asked for names an instrument, a direction and a quantity.
LEMMA SeedOfIntent == ASSUME NEW intent \in Intent PROVE SeedOf(intent) \in Seed
BY SessionAssumption DEF Intent, SeedOf, Seed

\* What submit leaves of the book: sound, other orders as they were, and the
\* order Submitted if it was sent.
LEMMA SubmitBookKeeps ==
  ASSUME SoundBook(book), NextId \in Orders, NEW intent \in Intent,
         NEW code \in SubmitCodes(intent)
  PROVE  /\ SoundBook(SubmitBook(intent, code))
         /\ OthersKeep(book, SubmitBook(intent, code), NextId)
         /\ code = "Submitted" =>
              SubmitBook(intent, code).orders[NextId].state = "Submitted"
<1> DEFINE result == CreateOrder(book, NextId, SeedOf(intent))
           created == result.book
           accepted == ApplyLocalEvent(created, NextId, "RiskAccepted").book
           After(b, event) == ApplyLocalEvent(b, NextId, event).book
<1>1. SeedOf(intent) \in Seed
  BY SeedOfIntent
<1>2. SoundBook(created) /\ OthersKeep(book, created, NextId)
  BY <1>1, CreateOrderSound, CreateOrderConcerns
<1>3. {"RiskAccepted", "RiskRejected", "SubmitRejected", "Submitted"}
        \subseteq LocalEvents
  BY DEF LocalEvents
<1>4. SoundBook(accepted) /\ OthersKeep(created, accepted, NextId)
  BY <1>2, <1>3, LocalEventSound, LocalEventConcerns
<1>5. \A event \in LocalEvents :
        /\ SoundBook(After(accepted, event))
        /\ OthersKeep(accepted, After(accepted, event), NextId)
        /\ SoundBook(After(created, event))
        /\ OthersKeep(created, After(created, event), NextId)
  BY <1>2, <1>4, LocalEventSound, LocalEventConcerns
<1>6. code = "Submitted" =>
        After(accepted, "Submitted").orders[NextId].state = "Submitted"
  <2> SUFFICES ASSUME code = "Submitted"
               PROVE  After(accepted, "Submitted").orders[NextId].state = "Submitted"
    OBVIOUS
  <2>1. result.code = "Applied"
    BY DEF SubmitCodes
  <2>2. created.orders[NextId].state = "Created"
    BY <1>1, <2>1, CreateOrderConcerns
  <2>3. accepted.orders[NextId].state = "RiskAccepted"
    BY <1>2, <1>3, <2>2, LocalEventConcerns DEF LocalSource, LocalTarget
  <2> QED
    BY <1>3, <1>4, <2>3, LocalEventConcerns DEF LocalSource, LocalTarget
<1>7. code \in {"Duplicate", "CapacityExceeded", "TableFull", "RiskRejected",
                "NotBuilt", "Refused", "Submitted"}
  BY DEF SubmitCodes, SendOutcomes
<1>8. SubmitBook(intent, code) =
        CASE code \in {"Duplicate", "CapacityExceeded"} -> book
          [] code = "TableFull" -> created
          [] code = "RiskRejected" -> After(created, "RiskRejected")
          [] code \in {"NotBuilt", "Refused"} -> After(accepted, "SubmitRejected")
          [] code = "Submitted" -> After(accepted, "Submitted")
  BY DEF SubmitBook
<1> HIDE DEF result, created, accepted, After
<1>9. /\ OthersKeep(book, book, NextId)
      /\ OthersKeep(book, accepted, NextId)
      /\ \A event \in LocalEvents :
           /\ OthersKeep(book, After(accepted, event), NextId)
           /\ OthersKeep(book, After(created, event), NextId)
  BY <1>2, <1>4, <1>5 DEF OthersKeep
<1> QED BY <1>2, <1>3, <1>5, <1>6, <1>7, <1>8, <1>9

\* submit takes the next record, and a slot for an entry that is sent.
LEMMA SubmitKeeps ==
  ASSUME AccountInv, NEW intent \in Intent, NEW code \in SubmitCodes(intent),
         SubmitOrder(intent, code)
  PROVE  /\ SoundBook(book') /\ records' \in [Orders -> Record]
         /\ counter' \in [Orders -> CounterOrder]
         /\ SlotsStay
<1> DEFINE opens == intent.offset = "Open"
           submitted == code = "Submitted"
           record == [NoRecord EXCEPT !.occupied = TRUE, !.intent = intent,
                                      !.activeOpen = submitted /\ opens]
<1>1. /\ SoundBook(book) /\ records \in [Orders -> Record]
      /\ counter \in [Orders -> CounterOrder]
  BY DEF AccountInv, SessionTypes, InvStays, SlotsStay
<1>2. CASE code \in {"Duplicate", "CapacityExceeded"}
  <2>1. UNCHANGED <<book, records, openOrders, counter>>
    BY <1>2 DEF SubmitOrder, SubmitBook
  <2> QED BY <1>1, <2>1, SlotsKept DEF AccountInv, State
<1>3. CASE code \notin {"Duplicate", "CapacityExceeded"}
  <2>1. Cardinality(Records) < RecordCapacity
    BY <1>3, RecordsCounted, SessionAssumption DEF SubmitCodes
  <2>2. /\ NextId \in Orders /\ NextId \notin Records
        /\ Records \cup {NextId} = 1 .. NextId
        /\ Cardinality(1 .. NextId) = NextId
    BY <2>1, NextIsFree DEF AccountInv
  <2>3. /\ book' = SubmitBook(intent, code)
        /\ records' = [records EXCEPT ![NextId] = record]
        /\ openOrders' = IF submitted /\ opens THEN openOrders + 1 ELSE openOrders
        /\ counter' = IF submitted THEN [counter EXCEPT ![NextId].status = "Live"]
                      ELSE counter
    BY <1>3 DEF SubmitOrder
  <2>4. /\ SoundBook(book') /\ OthersKeep(book, book', NextId)
        /\ submitted => book'.orders[NextId].state = "Submitted"
    BY <1>1, <2>2, <2>3, SubmitBookKeeps
  <2>5. record \in Record
    <3>1. 0 \in 0 .. EntryTimeout
      BY SessionAssumption
    <3>2. (submitted /\ opens) \in BOOLEAN
      OBVIOUS
    <3>3. ASSUME NEW slot \in BOOLEAN
          PROVE  [NoRecord EXCEPT !.occupied = TRUE, !.intent = intent,
                                  !.activeOpen = slot] \in Record
      BY <3>1, <3>3 DEF NoRecord, Record
    <3> HIDE DEF submitted, opens
    <3> QED BY <3>2, <3>3, Zenon
  <2>6. records' \in [Orders -> Record] /\ counter' \in [Orders -> CounterOrder]
    <3>1. [counter EXCEPT ![NextId].status = "Live"] \in [Orders -> CounterOrder]
      BY <1>1 DEF CounterOrder
    <3> HIDE DEF record
    <3> QED BY <1>1, <2>3, <2>5, <3>1
  <2>7. /\ record.occupied = TRUE /\ record.intent = intent
        /\ record.activeOpen <=> submitted /\ opens
    BY DEF NoRecord
  <2> HIDE DEF record
  <2>8. PICK id \in Orders : id = NextId
    BY <2>2
  <2>9. /\ records'[id] = record
        /\ \A o \in Orders \ {id} : records'[o] = records[o]
    BY <1>1, <2>3, <2>8
  <2>10. UsedInOrder'
    <3>1. Records' = Records \cup {id}
      BY <2>7, <2>9 DEF Records
    <3>2. Records' = 1 .. id /\ Cardinality(Records') = id
      BY <2>2, <2>8, <3>1
    <3> QED BY <3>2 DEF UsedInOrder
  <2>11. ASSUME OpenSlots, NEW o \in Orders PROVE HoldsSlot(o)'
    <3>1. CASE o = id
      BY <2>4, <2>7, <2>8, <2>9, <3>1 DEF HoldsSlot, State, Terminal
    <3>2. CASE o # id
      BY <2>4, <2>8, <2>9, <2>11, <3>2 DEF OpenSlots, HoldsSlot, State, OthersKeep
    <3> QED BY <3>1, <3>2
  <2>12. ASSUME OpenSlots
         PROVE  openOrders' = CountOpen(records') /\ openOrders' <= MaxActiveOpen
    <3> DEFINE before == {o \in Orders : records[o].activeOpen}
               after == {o \in Orders : records'[o].activeOpen}
    <3>1. id \notin before
      BY <2>2, <2>8, <2>12 DEF OpenSlots, HoldsSlot, Records
    <3>2. /\ openOrders = Cardinality(before) /\ openOrders <= MaxActiveOpen
          /\ IsFiniteSet(before) /\ openOrders \in Nat
      BY <2>12, SlotsCounted DEF OpenSlots, CountOpen
    <3>3. CASE submitted /\ opens
      <4>1. after = before \cup {id}
        BY <2>7, <2>9, <3>3
      <4>2. openOrders < MaxActiveOpen
        BY <1>3, <3>3 DEF SubmitCodes, RiskAccepts, SendOutcomes
      <4>3. Cardinality(after) = openOrders + 1
        BY <3>1, <3>2, <4>1, FS_AddElement
      <4> QED BY <2>3, <3>2, <3>3, <4>2, <4>3, SessionAssumption DEF CountOpen
    <3>4. CASE ~(submitted /\ opens)
      <4>1. after = before
        BY <2>7, <2>9, <3>1, <3>4
      <4> QED BY <2>3, <3>2, <3>4, <4>1 DEF CountOpen
    <3> QED BY <3>3, <3>4
  <2> QED BY <2>4, <2>6, <2>10, <2>11, <2>12 DEF OpenSlots, SlotsStay
<1> QED BY <1>2, <1>3

-----------------------------------------------------------------------------
(* cancel *)

\* The report cancel rolls back with is one.
LEMMA CancelReportType ==
  ASSUME NEW o \in Orders PROVE CancelReport(o) \in OrderReport
BY DEF CancelReport, OrderReport, ReportTypes

\* cancel ends no order, whether the request is sent or rolled back.
LEMMA CancelKeeps ==
  ASSUME SessionTypes, NEW o \in Orders, NEW code, CancelOrder(o, code)
  PROVE  /\ SoundBook(book') /\ counter' \in [Orders -> CounterOrder]
         /\ \A p \in Orders : State(p) \notin Terminal => State(p)' \notin Terminal
         /\ UNCHANGED <<reports, trades, openOrders>>
<1> DEFINE asked == ApplyLocalEvent(book, o, "CancelRequested").book
           undone == ApplyOrderReport(asked, CancelReport(o)).book
<1>1. SoundBook(book) /\ counter \in [Orders -> CounterOrder]
  BY DEF SessionTypes
<1>2. "CancelRequested" \in LocalEvents /\ CancelReport(o) \in OrderReport
      /\ CancelReport(o).id = o /\ CancelReport(o).cum = 0
      /\ CancelReport(o).type = "CancelRejected"
  BY CancelReportType DEF LocalEvents, CancelReport
<1>3. /\ SoundBook(asked) /\ OthersKeep(book, asked, o)
      /\ asked.orders[o].state \in {"CancelRequested", State(o)}
  BY <1>1, <1>2, LocalEventSound, LocalEventConcerns DEF LocalTarget, State
<1> HIDE DEF asked
<1>4. /\ SoundBook(undone) /\ OthersKeep(asked, undone, o)
      /\ undone.orders[o].state \in {"Accepted", asked.orders[o].state}
  <2>1. StateAfterReport(asked.orders[o], CancelReport(o))
          \in {"Accepted", asked.orders[o].state}
    BY <1>2 DEF StateAfterReport, ReportTarget
  <2> QED BY <1>2, <1>3, <2>1, OrderReportSound, OrderReportConcerns
<1> HIDE DEF undone
<1>5. book' \in {book, asked, undone}
  BY DEF CancelOrder, asked, undone
<1>6. \A p \in Orders :
        /\ State(p) \notin Terminal => asked.orders[p].state \notin Terminal
        /\ State(p) \notin Terminal => undone.orders[p].state \notin Terminal
  BY <1>3, <1>4 DEF OthersKeep, State, Terminal
<1>7. counter' \in [Orders -> CounterOrder]
  <2> DEFINE answered == [counter EXCEPT ![o].asked = TRUE]
             sent == [answered EXCEPT ![o].asks = counter[o].asks + 1]
  <2>1. answered \in [Orders -> CounterOrder] /\ counter[o].asks + 1 \in Nat
    <3>1. counter[o] \in CounterOrder
      BY <1>1
    <3>2. [counter[o] EXCEPT !.asked = TRUE] \in CounterOrder
      BY <3>1 DEF CounterOrder
    <3> QED BY <1>1, <3>1, <3>2 DEF CounterOrder
  <2>2. sent \in [Orders -> CounterOrder]
    <3> HIDE DEF answered
    <3> QED BY <2>1 DEF CounterOrder
  <2>3. counter' \in {counter, sent}
    BY <1>1 DEF CancelOrder
  <2> QED BY <1>1, <2>2, <2>3
<1>8. ASSUME NEW p \in Orders, State(p) \notin Terminal
      PROVE  State(p)' \notin Terminal
  BY <1>5, <1>6, <1>8 DEF State
<1> QED BY <1>1, <1>3, <1>4, <1>5, <1>7, <1>8 DEF CancelOrder

\* It marks the record of the order at most.
LEMMA CancelRecordKeeps ==
  ASSUME NEW rs \in [Orders -> Record], NEW o \in Orders, NEW code
  PROVE  /\ CancelRecord(rs, o, code) \in [Orders -> Record]
         /\ \A p \in Orders :
              /\ CancelRecord(rs, o, code)[p].occupied = rs[p].occupied
              /\ CancelRecord(rs, o, code)[p].activeOpen = rs[p].activeOpen
              /\ CancelRecord(rs, o, code)[p].intent = rs[p].intent
BY DEF CancelRecord, Record

\* Waiting changes nothing else of a record.
LEMMA AgedKeeps ==
  ASSUME records \in [Orders -> Record], NEW last
  PROVE  /\ Aged(last) \in [Orders -> Record]
         /\ \A p \in Orders :
              /\ Aged(last)[p].occupied = records[p].occupied
              /\ Aged(last)[p].activeOpen = records[p].activeOpen
              /\ Aged(last)[p].intent = records[p].intent
<1>1. EntryTimeout \in Nat
  BY SessionAssumption
<1>2. \A n \in 0 .. EntryTimeout : Waited(n, EntryTimeout) \in 0 .. EntryTimeout
  BY <1>1 DEF Waited
<1>3. ASSUME NEW p \in Orders
      PROVE  /\ Aged(last)[p] \in Record
             /\ Aged(last)[p].occupied = records[p].occupied
             /\ Aged(last)[p].activeOpen = records[p].activeOpen
             /\ Aged(last)[p].intent = records[p].intent
  <2> DEFINE r == records[p]
  <2>1. r \in Record
    OBVIOUS
  <2>2. Aged(last)[p] \in {r, [r EXCEPT !.waited = Waited(r.waited, EntryTimeout)]}
    BY DEF Aged
  <2> QED BY <1>2, <2>1, <2>2 DEF Record
<1> QED BY <1>3 DEF Aged

-----------------------------------------------------------------------------
(* The calls: submit, cancel and on_market *)

\* submit, called for a signal
LEMMA SubmitStep == ASSUME AccountInv, Submit, UNCHANGED plan PROVE InvStays
<1>1. PICK intent \in plan.entries :
        \E code \in SubmitCodes(intent) : SubmitOrder(intent, code)
  BY DEF Submit
<1>2. intent \in Intent
  BY <1>1, SessionAssumption DEF AccountInv, SessionTypes, InvStays, SlotsStay
<1>3. PICK code \in SubmitCodes(intent) : SubmitOrder(intent, code)
  BY <1>1
<1>4. /\ SoundBook(book') /\ records' \in [Orders -> Record]
      /\ counter' \in [Orders -> CounterOrder]
      /\ SlotsStay
  BY <1>2, <1>3, SubmitKeeps
<1>5. UNCHANGED <<exit, reports, trades, plan>>
  BY <1>3 DEF Submit, SubmitOrder
<1> QED BY <1>4, <1>5 DEF AccountInv, SessionTypes, InvStays, SlotsStay

\* cancel, called by an operator
LEMMA CancelStep == ASSUME AccountInv, Cancel, UNCHANGED plan PROVE InvStays
<1>1. PICK o \in Orders : \E code \in CancelCodes(o) :
        CancelOrder(o, code) /\ records' = CancelRecord(records, o, code)
  BY DEF Cancel
<1>a. PICK code \in CancelCodes(o) :
        CancelOrder(o, code) /\ records' = CancelRecord(records, o, code)
  BY <1>1
<1>2. records \in [Orders -> Record] /\ SessionTypes
  BY DEF AccountInv, SessionTypes, InvStays, SlotsStay
<1>3. /\ SoundBook(book') /\ counter' \in [Orders -> CounterOrder]
      /\ \A p \in Orders : State(p) \notin Terminal => State(p)' \notin Terminal
      /\ UNCHANGED <<reports, trades, openOrders>>
  BY <1>a, <1>2, CancelKeeps
<1>4. /\ records' \in [Orders -> Record]
      /\ \A p \in Orders : /\ records'[p].occupied = records[p].occupied
                           /\ records'[p].activeOpen = records[p].activeOpen
                           /\ records'[p].intent = records[p].intent
  BY <1>a, <1>2, CancelRecordKeeps
<1>5. SlotsStay
  BY <1>3, <1>4, SlotsKept DEF AccountInv
<1>6. UNCHANGED <<exit, plan>>
  BY DEF Cancel
<1> QED BY <1>3, <1>4, <1>5, <1>6 DEF AccountInv, SessionTypes, InvStays, SlotsStay

\* A step that leaves the book and the records alone
LEMMA NothingBooked ==
  ASSUME AccountInv, UNCHANGED <<plan, book, records, openOrders>>,
         exit' \in Exit, exit'.active => exit'.id \in Orders,
         counter' \in [Orders -> CounterOrder],
         reports' \in Seq(Message), trades' \in Seq(Trade)
  PROVE  InvStays
<1>1. SlotsStay
  BY SlotsKept DEF AccountInv, State
<1> QED BY <1>1 DEF AccountInv, SessionTypes, InvStays, SlotsStay

\* The exit asks for no more than is held.
LEMMA ExitIntentType ==
  ASSUME SessionTypes PROVE ExitIntent \in Intent
<1>1. exit \in Exit /\ Held \in Position
  BY SessionAssumption DEF SessionTypes, SoundBook, Book, Held
<1>2. Closable \in Nat
  BY <1>1 DEF Closable, Position
<1> QED BY <1>1, <1>2 DEF ExitIntent, Intent, Exit, Offsets

\* on_market when an exit is due
LEMMA SubmitExitStep ==
  ASSUME AccountInv, SubmitExit, UNCHANGED plan PROVE InvStays
<1>1. PICK code \in SubmitCodes(ExitIntent) :
        /\ SubmitOrder(ExitIntent, code)
        /\ exit' = IF code = "Submitted" THEN ExitSubmitted ELSE exit
  BY DEF SubmitExit
<1>2. ExitIntent \in Intent /\ SessionTypes /\ exit \in Exit
  BY ExitIntentType DEF AccountInv, SessionTypes, InvStays, SlotsStay
<1>3. /\ SoundBook(book') /\ records' \in [Orders -> Record]
      /\ counter' \in [Orders -> CounterOrder]
      /\ SlotsStay
  BY <1>1, <1>2, SubmitKeeps
<1>4. code = "Submitted" => NextId \in Orders
  <2> SUFFICES ASSUME code = "Submitted" PROVE NextId \in Orders
    OBVIOUS
  <2>1. Cardinality(Records) < RecordCapacity
    BY <1>1, RecordsCounted, SessionAssumption DEF SubmitCodes
  <2> QED BY <2>1, NextIsFree DEF AccountInv
<1>5. exit' \in Exit /\ (exit'.active => exit'.id \in Orders)
  <2>1. CASE code = "Submitted"
    <3>1. 0 \in 0 .. CloseInterval
      BY SessionAssumption
    <3>2. exit' = [exit EXCEPT !.pending = FALSE, !.active = TRUE, !.id = NextId,
                               !.waited = 0, !.freezeAfterCancel = FALSE]
      BY <1>1, <2>1 DEF ExitSubmitted
    <3>3. exit' \in Exit /\ exit'.id = NextId
      BY <1>2, <1>4, <2>1, <3>1, <3>2 DEF Exit
    <3> QED BY <1>4, <2>1, <3>3
  <2>2. CASE code # "Submitted"
    BY <1>1, <1>2, <2>2 DEF SessionTypes
  <2> QED BY <2>1, <2>2
<1>6. UNCHANGED <<reports, trades>>
  BY <1>1 DEF SubmitOrder
<1> QED BY <1>3, <1>5, <1>6 DEF AccountInv, SessionTypes, InvStays, SlotsStay

\* on_market while an exit order is live
LEMMA AwaitExitStep ==
  ASSUME AccountInv, AwaitExit, UNCHANGED plan PROVE InvStays
<1> DEFINE waited == [exit EXCEPT !.waited = Waited(@, CloseInterval)]
<1>1. /\ exit \in Exit /\ exit.active /\ exit.id \in Orders
      /\ records \in [Orders -> Record] /\ SessionTypes
  BY DEF AwaitExit, AccountInv, SessionTypes, InvStays, SlotsStay
<1>2. waited \in Exit /\ waited.active = exit.active /\ waited.id = exit.id
  <2>1. Waited(exit.waited, CloseInterval) \in 0 .. CloseInterval
    BY <1>1, SessionAssumption DEF Waited, Exit
  <2> QED BY <1>1, <2>1 DEF Exit
<1>3. CASE exit' = waited /\ UNCHANGED <<book, records, openOrders, environment>>
  BY <1>1, <1>2, <1>3, NothingBooked DEF environment, SessionTypes
<1>4. ASSUME NEW code \in CancelCodes(exit.id), CancelOrder(exit.id, code),
             records' = CancelRecord(records, exit.id, code),
             exit' = IF code = "Requested"
                     THEN [waited EXCEPT !.freezeAfterCancel =
                             exit.attempt >= MaxReprices]
                     ELSE waited
      PROVE  InvStays
  <2>1. /\ SoundBook(book') /\ counter' \in [Orders -> CounterOrder]
        /\ \A p \in Orders : State(p) \notin Terminal => State(p)' \notin Terminal
        /\ UNCHANGED <<reports, trades, openOrders>>
    BY <1>1, <1>4, CancelKeeps
  <2>2. /\ records' \in [Orders -> Record]
        /\ \A p \in Orders : /\ records'[p].occupied = records[p].occupied
                             /\ records'[p].activeOpen = records[p].activeOpen
                             /\ records'[p].intent = records[p].intent
    BY <1>1, <1>4, CancelRecordKeeps
  <2>3. SlotsStay
    BY <2>1, <2>2, SlotsKept DEF AccountInv
  <2>4. exit' \in Exit /\ exit'.id \in Orders
    <3>1. ASSUME NEW last \in BOOLEAN
          PROVE  /\ [waited EXCEPT !.freezeAfterCancel = last] \in Exit
                 /\ [waited EXCEPT !.freezeAfterCancel = last].id = exit.id
      <4> HIDE DEF waited
      <4> QED BY <1>2, <3>1 DEF Exit
    <3>2. (exit.attempt >= MaxReprices) \in BOOLEAN
      OBVIOUS
    <3>3. /\ [waited EXCEPT !.freezeAfterCancel = exit.attempt >= MaxReprices] \in Exit
          /\ [waited EXCEPT !.freezeAfterCancel = exit.attempt >= MaxReprices].id = exit.id
      BY <3>1, <3>2, Zenon
    <3> HIDE DEF waited
    <3> QED BY <1>1, <1>2, <1>4, <3>3
  <2> QED BY <2>1, <2>2, <2>3, <2>4 DEF AccountInv, SessionTypes, InvStays, SlotsStay
<1> QED BY <1>3, <1>4 DEF AwaitExit

\* Some orders have a first one. The numbers up to it are the smallest such set.
LEMMA FirstOfOrders ==
  ASSUME NEW os \in SUBSET Orders, os # {}
  PROVE  \E o \in os : \A p \in os : o <= p
<1> DEFINE upTo == {1 .. o : o \in os}
<1>1. IsFiniteSet(Orders) /\ Orders = 1 .. RecordCapacity /\ RecordCapacity \in Nat
  BY SessionAssumption, FS_Interval
<1>2. IsWellFoundedOn(StrictSubsetOrdering(Orders), SUBSET Orders)
  BY <1>1, FS_StrictSubsetOrderingWellFounded, FS_FiniteSubsetsOfFinite
<1>3. upTo \subseteq SUBSET Orders
  BY <1>1
<1>4. upTo # {}
  OBVIOUS
<1>5. PICK x \in upTo : \A y \in upTo : <<y, x>> \notin StrictSubsetOrdering(Orders)
  <2> HIDE DEF upTo
  <2> QED BY <1>2, <1>3, <1>4, WFMin
<1>6. PICK o \in os : x = 1 .. o
  BY <1>5
<1>7. ASSUME NEW p \in os PROVE o <= p
  <2> SUFFICES ASSUME p < o PROVE FALSE
    BY <1>1
  <2>1. o \in 1 .. RecordCapacity /\ p \in 1 .. RecordCapacity
    BY <1>1
  <2>2. 1 .. p \subseteq 1 .. o /\ o \in 1 .. o /\ o \notin 1 .. p
    BY <2>1
  <2>3. 1 .. p \in upTo /\ 1 .. p \in SUBSET Orders /\ 1 .. o \in SUBSET Orders
    BY <1>1, <2>1
  <2>4. <<1 .. p, 1 .. o>> \in StrictSubsetOrdering(Orders)
    BY <2>2, <2>3 DEF StrictSubsetOrdering
  <2> QED BY <1>5, <1>6, <2>3, <2>4
<1> QED BY <1>7

\* on_market while entries are live
LEMMA AwaitEntriesStep ==
  ASSUME AccountInv, AwaitEntries, UNCHANGED plan PROVE InvStays
<1>1. records \in [Orders -> Record] /\ SessionTypes /\ UNCHANGED exit
  BY DEF AwaitEntries, AccountInv, SessionTypes, InvStays, SlotsStay
<1>2. CASE /\ records' = Aged(RecordCapacity)
           /\ UNCHANGED <<book, openOrders, environment>>
  <2>1. /\ records' \in [Orders -> Record]
        /\ \A p \in Orders : /\ records'[p].occupied = records[p].occupied
                             /\ records'[p].activeOpen = records[p].activeOpen
                             /\ records'[p].intent = records[p].intent
    BY <1>1, <1>2, AgedKeeps
  <2>2. SlotsStay
    BY <1>2, <2>1, SlotsKept DEF AccountInv, State
  <2> QED BY <1>1, <1>2, <2>1, <2>2 DEF AccountInv, SessionTypes, InvStays, SlotsStay, environment
<1>3. ASSUME TimedOut # {}, NEW code \in CancelCodes(FirstTimedOut),
             CancelOrder(FirstTimedOut, code),
             records' = CancelRecord(Aged(FirstTimedOut), FirstTimedOut, code)
      PROVE  InvStays
  <2>1. FirstTimedOut \in Orders
    <3>1. TimedOut \subseteq Orders
      BY DEF TimedOut, Aging, Records
    <3>2. \E o \in TimedOut : \A p \in TimedOut : o <= p
      BY <1>3, <3>1, FirstOfOrders
    <3> QED BY <3>1, <3>2 DEF FirstTimedOut
  <2>2. /\ SoundBook(book') /\ counter' \in [Orders -> CounterOrder]
        /\ \A p \in Orders : State(p) \notin Terminal => State(p)' \notin Terminal
        /\ UNCHANGED <<reports, trades, openOrders>>
    BY <1>1, <1>3, <2>1, CancelKeeps
  <2>3. /\ records' \in [Orders -> Record]
        /\ \A p \in Orders : /\ records'[p].occupied = records[p].occupied
                             /\ records'[p].activeOpen = records[p].activeOpen
                             /\ records'[p].intent = records[p].intent
    BY <1>1, <1>3, <2>1, AgedKeeps, CancelRecordKeeps
  <2>4. SlotsStay
    BY <2>2, <2>3, SlotsKept DEF AccountInv
  <2> QED BY <1>1, <2>2, <2>3, <2>4 DEF AccountInv, SessionTypes, InvStays, SlotsStay
<1> QED BY <1>2, <1>3 DEF AwaitEntries

\* on_market drops an exit that is due when there is nothing to close.
DropsExit ==
  /\ ExitDue /\ Held.occupied /\ Held.known /\ Closable = 0
  /\ exit' = NoExit
  /\ UNCHANGED <<book, records, daily, openOrders, frozen, fault, environment>>

\* An exit that is due is dropped or sent.
LEMMA DueExitKinds == DueExit => DropsExit \/ SubmitExit
BY Zenon DEF DueExit, DropsExit

\* on_market, whatever it finds
LEMMA MarketStep ==
  ASSUME AccountInv, OnMarket, UNCHANGED plan PROVE InvStays
<1>1. CASE ExitImpossible
  <2>1. UNCHANGED <<book, records, exit, openOrders, environment>>
    BY <1>1 DEF ExitImpossible
  <2> QED BY <2>1, NothingBooked DEF AccountInv, SessionTypes, InvStays, SlotsStay, environment
<1>2. CASE DropsExit
  <2>1. UNCHANGED <<book, records, openOrders, environment>> /\ exit' = NoExit
    BY <1>2 DEF DropsExit
  <2>2. NoExit \in Exit /\ ~NoExit.active
    BY SessionAssumption DEF NoExit, Exit, Directions
  <2> QED BY <2>1, <2>2, NothingBooked DEF AccountInv, SessionTypes, InvStays, SlotsStay, environment
<1> QED
  BY <1>1, <1>2, DueExitKinds, SubmitExitStep, AwaitExitStep, AwaitEntriesStep DEF OnMarket

-----------------------------------------------------------------------------
(* drain_callbacks *)

\* What an event did to its order o decides whether the slot is released.
LEMMA ReleaseKeeps ==
  ASSUME AccountInv, NEW o \in Orders, NEW rs \in [Orders -> Record],
         \A p \in Orders : /\ rs[p].occupied = records[p].occupied
                           /\ rs[p].activeOpen = records[p].activeOpen
                           /\ rs[p].intent = records[p].intent,
         OthersKeep(book, book', o),
         records' = Release(rs, book', o),
         openOrders' = openOrders - (CountOpen(records) - CountOpen(records'))
  PROVE  records' \in [Orders -> Record] /\ SlotsStay
<1>1. \/ records' = rs /\ (rs[o].activeOpen => State(o)' \notin Terminal)
      \/ records' = [rs EXCEPT ![o].activeOpen = FALSE]
  BY DEF Release, State
<1>2. records' \in [Orders -> Record]
  <2>1. [rs[o] EXCEPT !.activeOpen = FALSE] \in Record
    BY DEF Record
  <2>2. records' \in {rs, [rs EXCEPT ![o] = [rs[o] EXCEPT !.activeOpen = FALSE]]}
    BY <1>1
  <2> QED BY <2>1, <2>2
<1>3. /\ \A p \in Orders : /\ records'[p].occupied = records[p].occupied
                           /\ records'[p].intent = records[p].intent
      /\ \A p \in Orders \ {o} : records'[p].activeOpen = records[p].activeOpen
      /\ records'[o].activeOpen =>
           records[o].activeOpen /\ State(o)' \notin Terminal
  BY <1>1 DEF Record
<1>4. ASSUME OpenSlots, NEW p \in Orders PROVE HoldsSlot(p)'
  <2>1. HoldsSlot(p)
    BY <1>4 DEF OpenSlots
  <2>2. CASE p = o
    BY <1>3, <2>1, <2>2 DEF HoldsSlot
  <2>3. CASE p # o
    BY <1>3, <2>1, <2>3 DEF HoldsSlot, OthersKeep, State
  <2> QED BY <2>2, <2>3
<1>5. ASSUME OpenSlots
      PROVE  openOrders' = CountOpen(records') /\ openOrders' <= MaxActiveOpen
  <2>1. /\ openOrders = CountOpen(records) /\ CountOpen(records) \in Nat
        /\ CountOpen(records') \in Nat /\ openOrders <= MaxActiveOpen
        /\ MaxActiveOpen \in Nat
    BY <1>5, SlotsCounted, SessionAssumption DEF OpenSlots
  <2>2. {p \in Orders : records'[p].activeOpen}
          \subseteq {p \in Orders : records[p].activeOpen}
    BY <1>3
  <2>3. CountOpen(records') <= CountOpen(records)
    BY <2>2, SlotsCounted, FS_Subset DEF CountOpen
  <2> QED BY <2>1, <2>3
<1>6. UsedInOrder'
  <2>1. Records' = Records
    BY <1>3 DEF Records
  <2> QED BY <2>1 DEF AccountInv, UsedInOrder
<1> QED BY <1>2, <1>4, <1>5, <1>6 DEF OpenSlots, SlotsStay

\* An order report, or the answer to a cancel request
LEMMA ReportStep ==
  ASSUME AccountInv, ReceiveReport, UNCHANGED plan PROVE InvStays
<1> DEFINE m == Head(reports)
           r == [id |-> m.id, type |-> m.type, cum |-> m.cum]
           cleared == IF m.kind = "CancelResponse"
                      THEN [records EXCEPT ![m.id].cancelRequested = FALSE]
                      ELSE records
<1>1. /\ reports \in Seq(Message) /\ reports # <<>>
      /\ SoundBook(book) /\ records \in [Orders -> Record] /\ exit \in Exit
      /\ trades \in Seq(Trade) /\ counter \in [Orders -> CounterOrder]
  BY DEF ReceiveReport, AccountInv, SessionTypes, InvStays, SlotsStay
<1>2. m \in Message /\ Tail(reports) \in Seq(Message)
  BY <1>1
<1>3. m.id \in Orders /\ r \in OrderReport /\ r.id = m.id
  BY <1>2 DEF Message, OrderReport
<1>4. /\ book' = ApplyOrderReport(book, r).book
      /\ records' = Release(cleared, book', m.id)
      /\ openOrders' = openOrders - (CountOpen(records) - CountOpen(records'))
      /\ reports' = Tail(reports) /\ UNCHANGED <<counter, trades>>
  BY DEF ReceiveReport, ReportResult
<1>5. SoundBook(book') /\ OthersKeep(book, book', m.id)
  BY <1>1, <1>3, <1>4, OrderReportSound, OrderReportConcerns
<1>6. /\ cleared \in [Orders -> Record]
      /\ \A p \in Orders : /\ cleared[p].occupied = records[p].occupied
                           /\ cleared[p].activeOpen = records[p].activeOpen
                           /\ cleared[p].intent = records[p].intent
  BY <1>1, <1>3 DEF Record
<1>7. records' \in [Orders -> Record] /\ SlotsStay
  <2> HIDE DEF m, cleared
  <2> QED BY <1>3, <1>4, <1>5, <1>6, ReleaseKeeps
<1>8. exit' \in Exit /\ (exit'.active => exit'.id \in Orders)
  <2> DEFINE p == book'.positions[Instrument]
             left == IF exit.direction = "Sell" THEN p.long ELSE p.short
  <2>1. left \in Nat
    BY <1>5, SessionAssumption DEF SoundBook, Book, Position
  <2>2. /\ [exit EXCEPT !.active = FALSE, !.id = 0] \in Exit
        /\ [exit EXCEPT !.active = FALSE, !.id = 0].active = FALSE
    BY <1>1 DEF Exit
  <2>3. ExitAfterCancel(book') \in Exit /\ ExitAfterCancel(book').active = FALSE
    <3>2. ExitAfterCancel(book') =
            [exit EXCEPT !.active = FALSE, !.id = 0, !.quantity = left,
                         !.pending = left > 0, !.attempt = exit.attempt + 1]
      BY DEF ExitAfterCancel
    <3>4. exit.attempt + 1 \in Nat
      BY <1>1 DEF Exit
    <3>3. (left > 0) \in BOOLEAN
      OBVIOUS
    <3>5. PICK attempt \in Nat : attempt = exit.attempt + 1
      BY <3>4
    <3> DEFINE After(due) ==
          [exit EXCEPT !.active = FALSE, !.id = 0, !.quantity = left,
                       !.pending = due, !.attempt = attempt]
    <3>6. ExitAfterCancel(book') = After(left > 0)
      BY <3>2, <3>5
    <3>7. ASSUME NEW due \in BOOLEAN
          PROVE  After(due) \in Exit /\ After(due).active = FALSE
      <4> HIDE DEF left
      <4> QED BY <1>1, <2>1, <3>7 DEF Exit
    <3> HIDE DEF left, After
    <3>8. After(left > 0) \in Exit /\ After(left > 0).active = FALSE
      BY <3>3, <3>7, Zenon
    <3> QED BY <3>6, <3>8, Zenon
  <2>4. \/ exit' = exit
        \/ exit' = [exit EXCEPT !.active = FALSE, !.id = 0]
        \/ exit' = ExitAfterCancel(book')
    BY DEF ReceiveReport
  <2> QED BY <1>1, <2>2, <2>3, <2>4 DEF AccountInv, SessionTypes, InvStays, SlotsStay
<1> QED
  BY <1>1, <1>2, <1>4, <1>5, <1>7, <1>8 DEF AccountInv, SessionTypes, InvStays, SlotsStay

\* What a trade makes of the exit is one.
LEMMA ExitAfterTradeType ==
  ASSUME SessionTypes, NEW t \in Trade, NEW result
  PROVE  LET e == ExitAfterTrade(t.id, t, result) IN
         e \in Exit /\ (e.active => e.id \in Orders)
<1>1. /\ exit \in Exit /\ (exit.active => exit.id \in Orders)
      /\ t.id \in Orders /\ t.quantity \in Nat /\ t.direction \in Directions
  BY DEF SessionTypes, Trade, TradeReport
<1>2. NoExit \in Exit /\ NoExit.active = FALSE
  BY SessionAssumption DEF NoExit, Exit, Directions
<1>3. /\ ExitAfterOpen(t.id, t) \in Exit
      /\ ExitAfterOpen(t.id, t).active = exit.active
      /\ ExitAfterOpen(t.id, t).id = exit.id
  <2>1. records[t.id].intent.signal \in Nat
    BY <1>1 DEF SessionTypes, Record, Intent
  <2>2. Opposite(t.direction) \in Directions
    BY DEF Opposite, Directions
  <2>3. exit.quantity + t.quantity \in Nat
    BY <1>1 DEF Exit
  <2>4. PICK signal \in Nat, direction \in Directions, n \in Nat :
          /\ signal = records[t.id].intent.signal
          /\ direction = Opposite(t.direction)
          /\ n = exit.quantity + t.quantity
    BY <2>1, <2>2, <2>3
  <2>5. ExitAfterOpen(t.id, t) =
          [exit EXCEPT !.pending = TRUE, !.signal = signal,
                       !.direction = direction, !.quantity = n]
    BY <2>4 DEF ExitAfterOpen
  <2> QED BY <1>1, <2>5 DEF Exit
<1>4. ExitAfterTrade(t.id, t, result) \in {exit, NoExit, ExitAfterOpen(t.id, t)}
  BY DEF ExitAfterTrade
<1> QED BY <1>1, <1>2, <1>3, <1>4

\* A trade
LEMMA TradeStep ==
  ASSUME AccountInv, ReceiveTrade, UNCHANGED plan PROVE InvStays
<1> DEFINE t == Head(trades)
<1>1. /\ trades \in Seq(Trade) /\ trades # <<>>
      /\ SoundBook(book) /\ records \in [Orders -> Record] /\ exit \in Exit
      /\ reports \in Seq(Message) /\ counter \in [Orders -> CounterOrder]
  BY DEF ReceiveTrade, AccountInv, SessionTypes, InvStays, SlotsStay
<1>2. t \in Trade /\ Tail(trades) \in Seq(Trade)
  BY <1>1
<1>3. t \in TradeReport /\ t.id \in Orders /\ t.quantity \in Nat
      /\ t.direction \in Directions
  BY <1>2 DEF Trade, TradeReport
<1>4. /\ book' = ApplyTrade(book, t).book
      /\ records' = Release(records, book', t.id)
      /\ openOrders' = openOrders - (CountOpen(records) - CountOpen(records'))
      /\ exit' = ExitAfterTrade(t.id, t, ApplyTrade(book, t))
      /\ trades' = Tail(trades) /\ UNCHANGED <<counter, reports>>
  BY DEF ReceiveTrade
<1>5. SoundBook(book') /\ OthersKeep(book, book', t.id)
  BY <1>1, <1>3, <1>4, TradeSound, TradeConcerns
<1>6. records' \in [Orders -> Record] /\ SlotsStay
  <2> HIDE DEF t
  <2> QED BY <1>1, <1>3, <1>4, <1>5, ReleaseKeeps
<1>7. exit' \in Exit /\ (exit'.active => exit'.id \in Orders)
  BY <1>2, <1>4, ExitAfterTradeType DEF AccountInv
<1> QED
  BY <1>1, <1>2, <1>4, <1>5, <1>6, <1>7 DEF AccountInv, SessionTypes, InvStays, SlotsStay

-----------------------------------------------------------------------------
(* The counter *)

\* What the counter sends are messages and trades.
LEMMA CounterKeeps ==
  ASSUME AccountInv, NEW o \in Orders, CounterStep(o), UNCHANGED plan
  PROVE  InvStays
<1>1. /\ counter \in [Orders -> CounterOrder] /\ records \in [Orders -> Record]
      /\ reports \in Seq(Message) /\ trades \in Seq(Trade)
  BY DEF AccountInv, SessionTypes, InvStays, SlotsStay
<1>2. /\ counter[o] \in CounterOrder /\ counter[o].filled \in Nat
      /\ records[o].intent \in Intent /\ Quantity(o) \in Nat
  BY <1>1 DEF CounterOrder, Record, Intent, Quantity
<1>3. ASSUME NEW kind \in {"Order", "CancelResponse"}, NEW type \in ReportTypes,
             NEW cum \in Nat, Send(Report(o, kind, type, cum))
      PROVE  reports' \in Seq(Message)
  <2>1. Report(o, kind, type, cum) \in Message
    BY <1>3 DEF Report, Message
  <2> QED BY <1>1, <1>3, <2>1 DEF Send
<1>4. {"Accepted", "Rejected", "Canceled", "Filled", "PartiallyFilled",
       "CancelRejected"} \subseteq ReportTypes
  BY DEF ReportTypes
<1>5. UNCHANGED account
  BY DEF CounterStep, CounterAccept, CounterReject, CounterFill, CounterCancel,
         CounterRefuse
<1>6. CASE CounterAccept(o)
  <2>1. reports' \in Seq(Message)
    BY <1>2, <1>3, <1>4, <1>6 DEF CounterAccept
  <2>2. counter' \in [Orders -> CounterOrder] /\ trades' = trades
    BY <1>1, <1>6 DEF CounterAccept, CounterOrder
  <2> QED BY <1>1, <1>5, <2>1, <2>2, NothingBooked
      DEF account, AccountInv, SessionTypes, InvStays, SlotsStay
<1>7. CASE CounterReject(o) \/ CounterCancel(o)
  <2>1. reports' \in Seq(Message)
    BY <1>2, <1>3, <1>4, <1>7 DEF CounterReject, CounterCancel
  <2>2. PICK status \in {"Rejected", "Canceled"} :
          counter' = [counter EXCEPT ![o].status = status, ![o].asked = FALSE]
    BY <1>7 DEF CounterReject, CounterCancel
  <2>3. counter' \in [Orders -> CounterOrder]
    <3> DEFINE ended == [counter EXCEPT ![o].status = status]
    <3>1. ended \in [Orders -> CounterOrder]
      BY <1>1 DEF CounterOrder
    <3>2. counter' = [ended EXCEPT ![o].asked = FALSE]
      BY <2>2
    <3> HIDE DEF ended
    <3>3. [ended[o] EXCEPT !.asked = FALSE] \in CounterOrder
      BY <3>1 DEF CounterOrder
    <3> QED BY <3>1, <3>2, <3>3
  <2>4. trades' = trades
    BY <1>7 DEF CounterReject, CounterCancel
  <2> QED BY <1>1, <1>5, <2>1, <2>3, <2>4, NothingBooked
      DEF account, AccountInv, SessionTypes, InvStays, SlotsStay
<1>8. CASE CounterFill(o)
  <2>1. PICK cum \in (counter[o].filled + 1) .. Quantity(o) :
          LET full == cum = Quantity(o)
              volume == cum - counter[o].filled
              intent == records[o].intent IN
          /\ Send(Report(o, "Order", IF full THEN "Filled" ELSE "PartiallyFilled",
                         cum))
          /\ trades' = Append(trades,
                              [key |-> <<o, cum>>, id |-> o,
                               instrument |-> Instrument,
                               direction |-> intent.direction,
                               offset |-> intent.offset, quantity |-> volume])
          /\ counter' = [counter EXCEPT
                           ![o].filled = cum,
                           ![o].status = IF full THEN "Filled" ELSE "Accepted"]
    BY <1>8 DEF CounterFill
  <2>2. cum \in Nat /\ cum - counter[o].filled \in Nat
    BY <1>2
  <2>3. reports' \in Seq(Message)
    <3>1. (IF cum = Quantity(o) THEN "Filled" ELSE "PartiallyFilled") \in ReportTypes
      BY <1>4
    <3> QED BY <1>3, <2>1, <2>2, <3>1
  <2>4. trades' \in Seq(Trade)
    <3> DEFINE t == [key |-> <<o, cum>>, id |-> o, instrument |-> Instrument,
                     direction |-> records[o].intent.direction,
                     offset |-> records[o].intent.offset,
                     quantity |-> cum - counter[o].filled]
    <3>1. t \in TradeReport
      <4>1. records[o].intent.direction \in Directions
            /\ records[o].intent.offset \in Offsets
        BY <1>2 DEF Intent
      <4>2. <<o, cum>> \in TradeKeys /\ cum - counter[o].filled \in Int
        BY <2>2 DEF TradeKeys
      <4> QED BY <4>1, <4>2, SessionAssumption DEF TradeReport
    <3>2. t \in Trade
      BY <2>2, <3>1 DEF Trade
    <3>3. trades' = Append(trades, t)
      BY <2>1
    <3> HIDE DEF t
    <3> QED BY <1>1, <3>2, <3>3
  <2>5. counter' \in [Orders -> CounterOrder]
    <3> DEFINE filled == [counter EXCEPT ![o].filled = cum]
               status == IF cum = Quantity(o) THEN "Filled" ELSE "Accepted"
    <3>1. filled \in [Orders -> CounterOrder]
      BY <1>1, <2>2 DEF CounterOrder
    <3>2. counter' = [filled EXCEPT ![o].status = status]
      BY <2>1
    <3>3. status \in {"Filled", "Accepted"}
      OBVIOUS
    <3> HIDE DEF filled, status
    <3>4. [filled[o] EXCEPT !.status = status] \in CounterOrder
      BY <3>1, <3>3 DEF CounterOrder
    <3> QED BY <3>1, <3>2, <3>4
  <2> QED BY <1>5, <2>3, <2>4, <2>5, NothingBooked
      DEF account, AccountInv, SessionTypes, InvStays, SlotsStay
<1>9. CASE CounterRefuse(o)
  <2>1. reports' \in Seq(Message)
    BY <1>2, <1>3, <1>4, <1>9 DEF CounterRefuse
  <2>2. counter' \in [Orders -> CounterOrder] /\ trades' = trades
    <3>1. [counter[o] EXCEPT !.asked = FALSE] \in CounterOrder
      BY <1>2 DEF CounterOrder
    <3> QED BY <1>1, <1>9, <3>1 DEF CounterRefuse
  <2> QED BY <1>5, <2>1, <2>2, NothingBooked DEF account, AccountInv, SessionTypes, InvStays, SlotsStay
<1> QED BY <1>6, <1>7, <1>8, <1>9 DEF CounterStep

-----------------------------------------------------------------------------
(* The theorems *)

\* The account has no order and holds no slot at first.
LEMMA SessionInitInv == NothingYet => SessionInv
<1> SUFFICES ASSUME NothingYet PROVE SessionInv
  OBVIOUS
<1>1. /\ book = EmptyBook /\ records = [o \in Orders |-> NoRecord]
      /\ exit = NoExit /\ plan \in Plans /\ openOrders = 0
      /\ counter = [o \in Orders |-> NoCounterOrder]
      /\ reports = <<>> /\ trades = <<>>
  BY DEF NothingYet
<1>2. NoRecord \in Record
  BY SessionAssumption DEF NoRecord, NoIntent, Record, Intent, Directions, Offsets
<1>3. NoExit \in Exit /\ NoExit.active = FALSE
  BY SessionAssumption DEF NoExit, Exit, Directions
<1>4. NoCounterOrder \in CounterOrder
  BY DEF NoCounterOrder, CounterOrder
<1>5. <<>> \in Seq(Message) /\ <<>> \in Seq(Trade)
  BY EmptySeq
<1>6. SessionTypes
  BY <1>1, <1>2, <1>3, <1>4, <1>5, EmptyBookSound DEF SessionTypes
<1>7. \A o \in Orders : ~records[o].occupied /\ ~records[o].activeOpen
  BY <1>1 DEF NoRecord
<1>8. OpenSlots
  <2>1. {o \in Orders : records[o].activeOpen} = {}
    BY <1>7
  <2>2. CountOpen(records) = 0
    BY <2>1, FS_EmptySet DEF CountOpen
  <2> QED BY <1>1, <1>7, <2>2, SessionAssumption DEF OpenSlots, HoldsSlot
<1>9. UsedInOrder
  <2>1. Records = {}
    BY <1>7 DEF Records
  <2>2. Cardinality(Records) = 0
    BY <2>1, FS_EmptySet
  <2> QED BY <2>1, <2>2 DEF UsedInOrder
<1> QED BY <1>6, <1>8, <1>9 DEF SessionInv, AccountInv

\* Every step keeps the invariant.
LEMMA SessionNextInv == ASSUME AccountInv, [Next]_vars PROVE InvStays
<1>1. CASE UNCHANGED vars \/ (ReceiveUnknown /\ UNCHANGED plan)
  <2>1. UNCHANGED <<plan, book, records, exit, openOrders, counter, reports, trades>>
    BY <1>1 DEF vars, ReceiveUnknown, environment
  <2> QED BY <2>1, NothingBooked DEF AccountInv, SessionTypes
<1>2. CASE Next /\ ~ReceiveUnknown
  BY <1>2, SubmitStep, CancelStep, MarketStep, ReportStep, TradeStep, CounterKeeps
  DEF Next
<1> QED BY <1>1, <1>2 DEF Next

\* The inductive invariant: the types, the slots and the order of the records.
THEOREM AlwaysSessionInv == Spec => []SessionInv
<1>1. SessionInv /\ [Next]_vars => SessionInv'
  BY SessionNextInv DEF SessionInv, InvStays
<1> QED BY <1>1, SessionInitInv, PTL DEF Spec, Init

\* The part of it that does not depend on the slots
THEOREM AlwaysAccountInv == Spec => []AccountInv
<1>1. SessionInv => AccountInv
  BY DEF SessionInv
<1> QED BY <1>1, AlwaysSessionInv, PTL

\* No account has more entry orders open than its limit (evaluate_risk).
THEOREM SlotsWithinLimit == Spec => [](openOrders <= MaxActiveOpen)
<1>1. SessionInv => openOrders <= MaxActiveOpen
  BY DEF SessionInv, OpenSlots
<1> QED BY <1>1, AlwaysSessionInv, PTL

-----------------------------------------------------------------------------
(* Sums *)

\* The members of a set are reached by taking them away one by one, in any order.
LEMMA AllSubsets ==
  ASSUME NEW S, IsFiniteSet(S), NEW G,
         \A s \in SUBSET S : (\A x \in s : s \ {x} \in G) => s \in G
  PROVE  \A s \in SUBSET S : s \in G
<1> DEFINE bad == {s \in SUBSET S : s \notin G}
<1> SUFFICES ASSUME bad # {} PROVE FALSE
  OBVIOUS
<1>1. IsWellFoundedOn(StrictSubsetOrdering(S), SUBSET S)
  <2>1. FiniteSubsetsOf(S) = SUBSET S
    BY FS_FiniteSubsetsOfFinite
  <2>2. IsWellFoundedOn(StrictSubsetOrdering(S), FiniteSubsetsOf(S))
    BY FS_StrictSubsetOrderingWellFounded
  <2> QED BY <2>1, <2>2
<1>2. PICK s \in bad : \A t \in bad : <<t, s>> \notin StrictSubsetOrdering(S)
  <2>1. bad \subseteq SUBSET S
    OBVIOUS
  <2> HIDE DEF bad
  <2> QED BY <1>1, <2>1, WFMin
<1>3. ASSUME NEW x \in s PROVE s \ {x} \in G
  <2>1. s \ {x} \in SUBSET S /\ s \ {x} # s /\ s \ {x} \subseteq s /\ s \in SUBSET S
    BY <1>2
  <2>2. <<s \ {x}, s>> \in StrictSubsetOrdering(S)
    BY <2>1 DEF StrictSubsetOrdering
  <2> QED BY <1>2, <2>1, <2>2
<1> QED BY <1>2, <1>3

\* What holds of 0, and of the successor of every number it holds of
LEMMA AllNumbers ==
  ASSUME NEW G, 0 \in G, \A n \in Nat : n \in G => n + 1 \in G
  PROVE  \A n \in Nat : n \in G
<1> DEFINE bad == {n \in Nat : n \notin G}
<1> SUFFICES ASSUME bad # {} PROVE FALSE
  OBVIOUS
<1>1. PICK n \in bad : \A m \in bad : <<m, n>> \notin OpToRel(<, Nat)
  <2>1. bad \subseteq Nat
    OBVIOUS
  <2> HIDE DEF bad
  <2> QED BY <2>1, NatLessThanWellFounded, WFMin
<1>2. n \in Nat /\ n \notin G /\ n # 0
  BY <1>1
<1>3. n - 1 \in Nat /\ (n - 1) + 1 = n
  BY <1>2
<1>4. <<n - 1, n>> \in OpToRel(<, Nat)
  BY <1>2, <1>3 DEF OpToRel
<1>5. n - 1 \in G
  BY <1>1, <1>3, <1>4
<1> QED BY <1>2, <1>3, <1>5

\* One step of SumFunctionOnSet, and the table of all its steps
SumStep(w, sums, s) ==
  IF s = {} THEN 0 ELSE LET x == CHOOSE x \in s : TRUE IN w[x] + sums[s \ {x}]
SumTable(w, S) == CHOOSE sums : sums = [s \in SUBSET S |-> SumStep(w, sums, s)]

LEMMA SumFromTable ==
  ASSUME NEW w, NEW S
  PROVE  SumFunctionOnSet(w, S) = SumTable(w, S)[S]
BY DEF SumFunctionOnSet, FoldFunctionOnSet, MapThenFoldSet, SumTable, SumStep

\* A step looks at one set, with one member less.
LEMMA StepLooksBelow ==
  ASSUME NEW S, IsFiniteSet(S), NEW s \in SUBSET S, NEW w, NEW f, NEW g,
         \A t \in SUBSET s : Cardinality(t) < Cardinality(s) => f[t] = g[t]
  PROVE  SumStep(w, f, s) = SumStep(w, g, s)
<1>1. CASE s = {}
  BY <1>1 DEF SumStep
<1>2. CASE s # {}
  <2> DEFINE x == CHOOSE x \in s : TRUE
  <2>1. x \in s
    BY <1>2
  <2> HIDE DEF x
  <2>2. IsFiniteSet(s)
    BY FS_Subset
  <2>3. Cardinality(s \ {x}) = Cardinality(s) - 1 /\ Cardinality(s) \in Nat
    BY <2>1, <2>2, FS_RemoveElement, FS_CardinalityType
  <2>4. f[s \ {x}] = g[s \ {x}]
    BY <2>3
  <2> QED BY <1>2, <2>4 DEF SumStep, x
<1> QED BY <1>1, <1>2

\* There is such a table: it can be filled in by the size of the sets.
LEMMA TableFilled ==
  ASSUME NEW S, IsFiniteSet(S), NEW w
  PROVE  SumTable(w, S) = [s \in SUBSET S |-> SumStep(w, SumTable(w, S), s)]
<1> DEFINE UpTo(n) == {s \in SUBSET S : Cardinality(s) < n}
           Fills(g, n) == \A s \in UpTo(n) : g[s] = SumStep(w, g, s)
           G == {n \in Nat : \E g : Fills(g, n)}
<1>1. \A s \in SUBSET S : IsFiniteSet(s) /\ Cardinality(s) \in Nat
                          /\ Cardinality(s) <= Cardinality(S)
  BY FS_Subset, FS_CardinalityType
<1>2. 0 \in G
  BY <1>1
<1>3. ASSUME NEW n \in Nat, n \in G PROVE n + 1 \in G
  <2>1. PICK g : Fills(g, n)
    BY <1>3
  <2> DEFINE h == [s \in SUBSET S |-> IF Cardinality(s) < n THEN g[s] ELSE SumStep(w, g, s)]
  <2>2. ASSUME NEW s \in UpTo(n + 1) PROVE h[s] = SumStep(w, h, s)
    <3>1. h[s] = SumStep(w, g, s)
      BY <2>1, <2>2
    <3>2. \A t \in SUBSET s : Cardinality(t) < Cardinality(s) => g[t] = h[t]
      BY <1>1, <2>2
    <3> HIDE DEF h
    <3>3. SumStep(w, g, s) = SumStep(w, h, s)
      BY <2>2, <3>2, StepLooksBelow
    <3> QED BY <3>1, <3>3
  <2>3. Fills(h, n + 1)
    BY <2>2
  <2> HIDE DEF Fills, h
  <2> QED BY <2>3
<1>4. Cardinality(S) + 1 \in Nat
  BY FS_CardinalityType
<1>5. PICK g : Fills(g, Cardinality(S) + 1)
  <2>1. Cardinality(S) + 1 \in G
    <3> HIDE DEF G
    <3> QED BY <1>2, <1>3, <1>4, AllNumbers
  <2> QED BY <2>1
<1> DEFINE f == [s \in SUBSET S |-> g[s]]
<1>6. ASSUME NEW s \in SUBSET S PROVE f[s] = SumStep(w, f, s)
  <2>1. f[s] = SumStep(w, g, s)
    BY <1>1, <1>4, <1>5
  <2>2. \A t \in SUBSET s : Cardinality(t) < Cardinality(s) => g[t] = f[t]
    OBVIOUS
  <2> HIDE DEF f
  <2> QED BY <2>1, <2>2, StepLooksBelow
<1>7. f = [s \in SUBSET S |-> SumStep(w, f, s)]
  BY <1>6
<1> HIDE DEF f
<1> QED BY <1>7 DEF SumTable

\* The order in which a sum takes its terms does not matter.
LEMMA TermsInAnyOrder ==
  ASSUME NEW S, IsFiniteSet(S), NEW w, \A x \in S : w[x] \in Int
  PROVE  \A s \in SUBSET S :
           /\ SumTable(w, S)[s] \in Int
           /\ s = {} => SumTable(w, S)[s] = 0
           /\ \A x \in s :
                /\ SumTable(w, S)[s] = w[x] + SumTable(w, S)[s \ {x}]
                /\ SumTable(w, S)[s \ {x}] \in Int
<1> DEFINE T == SumTable(w, S)
           Right(s) == /\ T[s] \in Int
                       /\ s = {} => T[s] = 0
                       /\ \A x \in s : /\ T[s] = w[x] + T[s \ {x}]
                                        /\ T[s \ {x}] \in Int
           G == {s \in SUBSET S : Right(s)}
<1>1. \A s \in SUBSET S : T[s] = SumStep(w, T, s)
  <2>1. T = [s \in SUBSET S |-> SumStep(w, T, s)]
    BY TableFilled
  <2> HIDE DEF T
  <2> QED BY <2>1
<1> HIDE DEF T
<1>2. ASSUME NEW s \in SUBSET S, \A x \in s : s \ {x} \in G
      PROVE  s \in G
  <2>1. CASE s = {}
    <3>1. SumStep(w, T, s) = 0
      BY <2>1 DEF SumStep
    <3> QED BY <1>1, <2>1, <3>1
  <2>2. CASE s # {}
    <3> DEFINE c == CHOOSE c \in s : TRUE
    <3>1. c \in s
      BY <2>2
    <3>2. T[s] = w[c] + T[s \ {c}]
      BY <1>1, <2>2 DEF SumStep
    <3> HIDE DEF c
    <3>3. \A x \in s : T[s \ {x}] \in Int /\ w[x] \in Int
      BY <1>2
    <3>5. T[s] \in Int
      <4>1. T[s \ {c}] \in Int /\ w[c] \in Int
        BY <3>1, <3>3
      <4> QED BY <3>2, <4>1
    <3>4. ASSUME NEW x \in s PROVE T[s] = w[x] + T[s \ {x}]
      <4>1. CASE x = c
        BY <3>2, <4>1
      <4>2. CASE x # c
        <5>1. /\ T[s \ {c}] = w[x] + T[(s \ {c}) \ {x}]
              /\ T[s \ {x}] = w[c] + T[(s \ {x}) \ {c}]
          BY <1>2, <3>1, <4>2
        <5>2. (s \ {c}) \ {x} = (s \ {x}) \ {c}
          OBVIOUS
        <5>3. T[(s \ {c}) \ {x}] = T[(s \ {x}) \ {c}]
          BY <5>2, Zenon
        <5>4. T[(s \ {x}) \ {c}] \in Int
          BY <1>2, <3>1, <4>2
        <5> QED BY <3>1, <3>2, <3>3, <5>1, <5>3, <5>4
      <4> QED BY <4>1, <4>2
    <3> QED BY <2>2, <3>3, <3>4, <3>5
  <2> QED BY <2>1, <2>2
<1>3. \A s \in SUBSET S : s \in G
  <2> HIDE DEF G
  <2> QED BY <1>2, AllSubsets
<1> QED BY <1>3 DEF T

\* The table of a subset is part of the table of the set.
LEMMA SmallerTable ==
  ASSUME NEW S, IsFiniteSet(S), NEW R \in SUBSET S, NEW w
  PROVE  \A s \in SUBSET R : SumTable(w, R)[s] = SumTable(w, S)[s]
<1> DEFINE T == SumTable(w, S)
           U == SumTable(w, R)
           G == {s \in SUBSET R : U[s] = T[s]}
<1>1. IsFiniteSet(R)
  BY FS_Subset
<1>2. T = [s \in SUBSET S |-> SumStep(w, T, s)] /\ U = [s \in SUBSET R |-> SumStep(w, U, s)]
  BY <1>1, TableFilled
<1> HIDE DEF T, U
<1>3. ASSUME NEW s \in SUBSET R, \A x \in s : s \ {x} \in G
      PROVE  s \in G
  <2>1. U[s] = SumStep(w, U, s) /\ T[s] = SumStep(w, T, s)
    BY <1>2
  <2>2. CASE s = {}
    <3>1. SumStep(w, U, s) = 0 /\ SumStep(w, T, s) = 0
      BY <2>2 DEF SumStep
    <3> QED BY <2>1, <3>1
  <2>3. CASE s # {}
    <3>1. U[s] = T[s]
      BY <1>3, <2>1, <2>3 DEF SumStep
    <3> QED BY <3>1
  <2> QED BY <2>2, <2>3
<1>4. \A s \in SUBSET R : s \in G
  <2> HIDE DEF G
  <2> QED BY <1>1, <1>3, AllSubsets
<1> QED BY <1>4 DEF T, U

\* A sum is a number, that of nothing is 0, and each term counts once.
LEMMA SumTerm ==
  ASSUME NEW S, IsFiniteSet(S), NEW w, \A y \in S : w[y] \in Int
  PROVE  /\ SumFunctionOnSet(w, S) \in Int
         /\ S = {} => SumFunctionOnSet(w, S) = 0
         /\ \A x \in S :
              /\ SumFunctionOnSet(w, S \ {x}) \in Int
              /\ SumFunctionOnSet(w, S) = w[x] + SumFunctionOnSet(w, S \ {x})
<1>1. /\ SumTable(w, S)[S] \in Int
      /\ S = {} => SumTable(w, S)[S] = 0
      /\ \A x \in S : /\ SumTable(w, S)[S] = w[x] + SumTable(w, S)[S \ {x}]
                      /\ SumTable(w, S)[S \ {x}] \in Int
  BY TermsInAnyOrder
<1>2. ASSUME NEW x \in S
      PROVE  SumFunctionOnSet(w, S \ {x}) = SumTable(w, S)[S \ {x}]
  <2>1. SumTable(w, S \ {x})[S \ {x}] = SumTable(w, S)[S \ {x}]
    BY SmallerTable
  <2> QED BY <2>1, SumFromTable
<1> QED BY <1>1, <1>2, SumFromTable

\* Sums compare as their terms do.
LEMMA SumMonotone ==
  ASSUME NEW S, IsFiniteSet(S), NEW w, NEW v,
         \A y \in S : w[y] \in Int /\ v[y] \in Int /\ w[y] <= v[y]
  PROVE  SumFunctionOnSet(w, S) <= SumFunctionOnSet(v, S)
<1> DEFINE G == {s \in SUBSET S : SumFunctionOnSet(w, s) <= SumFunctionOnSet(v, s)}
<1>1. ASSUME NEW s \in SUBSET S, \A x \in s : s \ {x} \in G
      PROVE  s \in G
  <2>1. IsFiniteSet(s)
    BY FS_Subset
  <2>2. CASE s = {}
    BY <2>1, <2>2, SumTerm
  <2>3. CASE s # {}
    <3>1. PICK x \in s : TRUE
      BY <2>3
    <3>2. /\ SumFunctionOnSet(w, s) = w[x] + SumFunctionOnSet(w, s \ {x})
          /\ SumFunctionOnSet(v, s) = v[x] + SumFunctionOnSet(v, s \ {x})
          /\ SumFunctionOnSet(w, s \ {x}) \in Int
          /\ SumFunctionOnSet(v, s \ {x}) \in Int
      BY <2>1, SumTerm
    <3>3. SumFunctionOnSet(w, s \ {x}) <= SumFunctionOnSet(v, s \ {x})
      BY <1>1
    <3>4. w[x] \in Int /\ v[x] \in Int /\ w[x] <= v[x]
      BY <3>1
    <3> DEFINE below == SumFunctionOnSet(w, s \ {x})
               above == SumFunctionOnSet(v, s \ {x})
    <3> HIDE DEF below, above
    <3>5. SumFunctionOnSet(w, s) <= SumFunctionOnSet(v, s)
      <4>1. /\ SumFunctionOnSet(w, s) = w[x] + below
            /\ SumFunctionOnSet(v, s) = v[x] + above
            /\ below \in Int /\ above \in Int /\ below <= above
        BY <3>2, <3>3 DEF below, above
      <4>2. w[x] + below <= v[x] + above
        BY <3>4, <4>1
      <4> QED BY <4>1, <4>2
    <3> QED BY <3>5
  <2> QED BY <2>2, <2>3
<1>2. S \in G
  <2> HIDE DEF G
  <2>1. \A s \in SUBSET S : s \in G
    BY <1>1, AllSubsets
  <2> QED BY <2>1
<1> QED BY <1>2

\* Equal terms make equal sums.
LEMMA SumEqual ==
  ASSUME NEW S, IsFiniteSet(S), NEW w, NEW v,
         \A y \in S : w[y] \in Int /\ v[y] = w[y]
  PROVE  SumFunctionOnSet(v, S) = SumFunctionOnSet(w, S)
<1>1. /\ SumFunctionOnSet(w, S) <= SumFunctionOnSet(v, S)
      /\ SumFunctionOnSet(v, S) <= SumFunctionOnSet(w, S)
  BY SumMonotone
<1>2. SumFunctionOnSet(w, S) \in Int /\ SumFunctionOnSet(v, S) \in Int
  BY SumTerm
<1> QED BY <1>1, <1>2

\* One term changes the sum by as much as it changes.
LEMMA SumChange ==
  ASSUME NEW S, IsFiniteSet(S), NEW w, NEW v, NEW x \in S,
         \A y \in S : w[y] \in Int /\ v[y] \in Int,
         \A y \in S \ {x} : v[y] = w[y]
  PROVE  SumFunctionOnSet(v, S) = SumFunctionOnSet(w, S) + v[x] - w[x]
<1>1. /\ SumFunctionOnSet(w, S) = w[x] + SumFunctionOnSet(w, S \ {x})
      /\ SumFunctionOnSet(v, S) = v[x] + SumFunctionOnSet(v, S \ {x})
      /\ SumFunctionOnSet(w, S \ {x}) \in Int
  BY SumTerm
<1>2. SumFunctionOnSet(v, S \ {x}) = SumFunctionOnSet(w, S \ {x})
  BY FS_Subset, SumEqual
<1> QED BY <1>1, <1>2

\* A sum of zeros
LEMMA SumZero ==
  ASSUME NEW S, IsFiniteSet(S), NEW w, \A y \in S : w[y] = 0
  PROVE  SumFunctionOnSet(w, S) = 0
<1> DEFINE G == {s \in SUBSET S : SumFunctionOnSet(w, s) = 0}
<1>1. ASSUME NEW s \in SUBSET S, \A x \in s : s \ {x} \in G
      PROVE  s \in G
  <2>1. IsFiniteSet(s) /\ \A x \in s : w[x] = 0
    BY FS_Subset
  <2>2. CASE s = {}
    BY <2>1, <2>2, SumTerm
  <2>3. CASE s # {}
    <3>1. PICK x \in s : TRUE
      BY <2>3
    <3>2. SumFunctionOnSet(w, s) = w[x] + SumFunctionOnSet(w, s \ {x})
      BY <2>1, SumTerm
    <3>3. SumFunctionOnSet(w, s \ {x}) = 0 /\ w[x] = 0
      BY <1>1, <2>1
    <3>4. SumFunctionOnSet(w, s) = 0
      BY <3>2, <3>3
    <3> QED BY <3>4
  <2> QED BY <2>2, <2>3
<1>2. S \in G
  <2> HIDE DEF G
  <2>1. \A s \in SUBSET S : s \in G
    BY <1>1, AllSubsets
  <2> QED BY <2>1
<1> QED BY <1>2

\* The sum of two sums
LEMMA SumOfSums ==
  ASSUME NEW S, IsFiniteSet(S), NEW w, NEW v, NEW u,
         \A y \in S : w[y] \in Int /\ v[y] \in Int /\ u[y] = w[y] + v[y]
  PROVE  SumFunctionOnSet(u, S) = SumFunctionOnSet(w, S) + SumFunctionOnSet(v, S)
<1> DEFINE W(s) == SumFunctionOnSet(w, s)
           V(s) == SumFunctionOnSet(v, s)
           U(s) == SumFunctionOnSet(u, s)
           G == {s \in SUBSET S : U(s) = W(s) + V(s)}
<1>1. ASSUME NEW s \in SUBSET S, \A x \in s : s \ {x} \in G
      PROVE  s \in G
  <2>1. /\ IsFiniteSet(s)
        /\ \A y \in s : w[y] \in Int /\ v[y] \in Int /\ u[y] = w[y] + v[y]
        /\ \A y \in s : u[y] \in Int
    BY FS_Subset
  <2>2. CASE s = {}
    <3>1. U(s) = 0 /\ W(s) = 0 /\ V(s) = 0
      BY <2>1, <2>2, SumTerm
    <3> QED BY <3>1
  <2>3. CASE s # {}
    <3>1. PICK x \in s : TRUE
      BY <2>3
    <3>2. /\ U(s) = u[x] + U(s \ {x})
          /\ W(s) = w[x] + W(s \ {x}) /\ W(s \ {x}) \in Int
          /\ V(s) = v[x] + V(s \ {x}) /\ V(s \ {x}) \in Int
      BY <2>1, SumTerm
    <3>3. U(s \ {x}) = W(s \ {x}) + V(s \ {x})
      BY <1>1
    <3> HIDE DEF U, V, W
    <3>4. w[x] \in Int /\ v[x] \in Int /\ u[x] = w[x] + v[x]
      BY <2>1
    <3>5. U(s) = W(s) + V(s)
      BY <3>2, <3>3, <3>4
    <3> QED BY <3>5
  <2> QED BY <2>2, <2>3
<1>2. S \in G
  <2> HIDE DEF G
  <2>1. \A s \in SUBSET S : s \in G
    BY <1>1, AllSubsets
  <2> QED BY <2>1
<1> QED BY <1>2

-----------------------------------------------------------------------------
(* What a step may be *)

\* The intents of the records, and what the exit is about, stay as they are.
SameIntents ==
  \A o \in Orders : /\ records'[o].intent = records[o].intent
                    /\ records'[o].occupied = records[o].occupied
SameExit ==
  /\ exit'.pending = exit.pending /\ exit'.active = exit.active
  /\ exit'.id = exit.id /\ exit'.signal = exit.signal
  /\ exit'.direction = exit.direction /\ exit'.attempt = exit.attempt
  /\ exit'.quantity = exit.quantity

\* submit for a signal, a cancel by an operator or by on_market, and the steps
\* that only wait or fail: on_market without an order to send, an unknown
\* callback
EntersOrder ==
  /\ \E intent \in plan.entries : \E code \in SubmitCodes(intent) :
       SubmitOrder(intent, code)
  /\ UNCHANGED <<exit, frozen>>
CancelsOrder ==
  /\ \E o \in Orders : \E code \in CancelCodes(o) : CancelOrder(o, code)
  /\ SameIntents /\ SameExit
Waits ==
  /\ UNCHANGED <<book, daily, counter, reports, trades>>
  /\ SameIntents /\ SameExit

\* frozen is set by faults only, and never taken back.
Thawed == frozen \in BOOLEAN

LEMMA SessionFaults ==
  ASSUME Thawed, NEW reasons, SetFaults(reasons)
  PROVE  /\ Thawed' /\ (frozen => frozen')
         /\ reasons # <<>> => frozen'
BY Zenon DEF Thawed, SetFaults

\* A step that marks or ages records leaves their intents.
LEMMA MarksOnly ==
  ASSUME records \in [Orders -> Record], NEW o \in Orders, NEW code, NEW last,
         records' \in {CancelRecord(records, o, code),
                       CancelRecord(Aged(last), o, code), Aged(last), records}
  PROVE  SameIntents
BY AgedKeeps, CancelRecordKeeps DEF SameIntents

\* on_market sends an exit order or drops it, cancels one order or none.
LEMMA MarketKinds ==
  ASSUME AccountInv, Thawed, OnMarket
  PROVE  /\ DropsExit \/ SubmitExit \/ CancelsOrder \/ Waits
         /\ Thawed' /\ (frozen => frozen')
<1>1. records \in [Orders -> Record] /\ exit \in Exit
      /\ (exit.active => exit.id \in Orders)
  BY DEF AccountInv, SessionTypes
<1>2. Thawed' /\ (frozen => frozen')
  <2>1. (\E reasons : SetFaults(reasons)) \/ UNCHANGED frozen
    BY DueExitKinds
    DEF OnMarket, ExitImpossible, DropsExit, SubmitExit, AwaitExit, AwaitEntries
  <2> QED BY <2>1, SessionFaults DEF Thawed
<1>3. CASE ExitImpossible
  BY <1>2, <1>3 DEF ExitImpossible, Waits, SameIntents, SameExit, environment
<1>4. CASE AwaitExit
  <2> DEFINE waited == [exit EXCEPT !.waited = Waited(@, CloseInterval)]
  <2>1. exit.id \in Orders
    BY <1>1, <1>4 DEF AwaitExit
  <2>2. /\ waited.pending = exit.pending /\ waited.active = exit.active
        /\ waited.id = exit.id /\ waited.signal = exit.signal
        /\ waited.direction = exit.direction /\ waited.attempt = exit.attempt
        /\ waited.quantity = exit.quantity
    BY <1>1 DEF Exit
  <2>3. SameExit
    <3>1. exit' = waited \/ \E b : exit' = [waited EXCEPT !.freezeAfterCancel = b]
      BY <1>4 DEF AwaitExit
    <3>2. \A b : LET e == [waited EXCEPT !.freezeAfterCancel = b] IN
            /\ e.pending = waited.pending /\ e.active = waited.active
            /\ e.id = waited.id /\ e.signal = waited.signal
            /\ e.direction = waited.direction /\ e.attempt = waited.attempt
            /\ e.quantity = waited.quantity
      BY <1>1 DEF Exit
    <3> HIDE DEF waited
    <3> QED BY <2>2, <3>1, <3>2 DEF SameExit
  <2>4. SameIntents
    <3>1. records' = records \/ \E code : records' = CancelRecord(records, exit.id, code)
      BY <1>4 DEF AwaitExit
    <3> QED BY <1>1, <2>1, <3>1, MarksOnly
  <2>5. \/ UNCHANGED <<book, daily, counter, reports, trades>>
        \/ \E code \in CancelCodes(exit.id) : CancelOrder(exit.id, code)
    BY <1>4 DEF AwaitExit, environment
  <2> QED BY <1>2, <2>1, <2>3, <2>4, <2>5 DEF CancelsOrder, Waits
<1>5. CASE AwaitEntries
  <2>1. TimedOut # {} => FirstTimedOut \in Orders
    <3>1. TimedOut \subseteq Orders
      BY DEF TimedOut, Aging, Records
    <3>2. TimedOut # {} => \E o \in TimedOut : \A p \in TimedOut : o <= p
      BY <3>1, FirstOfOrders
    <3> QED BY <3>1, <3>2 DEF FirstTimedOut
  <2>2. SameIntents
    <3>1. CASE records' = Aged(RecordCapacity)
      BY <1>1, <3>1, AgedKeeps DEF SameIntents
    <3>2. CASE /\ TimedOut # {}
               /\ \E code : records' = CancelRecord(Aged(FirstTimedOut),
                                                    FirstTimedOut, code)
      BY <1>1, <2>1, <3>2, MarksOnly
    <3> QED BY <1>5, <3>1, <3>2 DEF AwaitEntries
  <2>3. SameExit
    BY <1>5 DEF AwaitEntries, SameExit
  <2>4. \/ UNCHANGED <<book, daily, counter, reports, trades>>
        \/ /\ TimedOut # {}
           /\ \E code \in CancelCodes(FirstTimedOut) : CancelOrder(FirstTimedOut, code)
    BY <1>5 DEF AwaitEntries, environment
  <2> QED BY <1>2, <2>1, <2>2, <2>3, <2>4 DEF CancelsOrder, Waits
<1> QED BY <1>2, <1>3, <1>4, <1>5, DueExitKinds DEF OnMarket

\* The kinds of steps of the session
LEMMA StepKinds ==
  ASSUME AccountInv, Thawed, [Next]_vars
  PROVE  /\ Thawed' /\ (frozen => frozen')
         /\ plan' = plan
         /\ \/ EntersOrder \/ DropsExit \/ SubmitExit \/ CancelsOrder \/ Waits
            \/ ReceiveReport \/ ReceiveTrade \/ \E o \in Orders : CounterStep(o)
<1>1. records \in [Orders -> Record]
  BY DEF AccountInv, SessionTypes
<1>2. CASE Submit /\ UNCHANGED plan
  BY <1>2 DEF Submit, EntersOrder, Thawed
<1>3. CASE Cancel /\ UNCHANGED plan
  <2>1. SameIntents
    <3>1. \E o \in Orders : \E code : records' = CancelRecord(records, o, code)
      BY <1>3 DEF Cancel
    <3> QED BY <1>1, <3>1, MarksOnly
  <2> QED BY <1>3, <2>1 DEF Cancel, CancelsOrder, SameExit, Thawed
<1>4. CASE OnMarket /\ UNCHANGED plan
  BY <1>4, MarketKinds
<1>5. CASE (ReceiveReport \/ ReceiveTrade) /\ UNCHANGED plan
  <2>1. \E reasons : SetFaults(reasons)
    BY <1>5 DEF ReceiveReport, ReceiveTrade
  <2> QED BY <1>5, <2>1, SessionFaults
<1>6. CASE ReceiveUnknown /\ UNCHANGED plan
  BY <1>6, SessionFaults DEF ReceiveUnknown, Waits, SameIntents, SameExit, environment
<1>7. CASE (\E o \in Orders : CounterStep(o)) /\ UNCHANGED plan
  <2>1. UNCHANGED frozen
    BY <1>7 DEF CounterStep, CounterAccept, CounterReject, CounterFill,
                CounterCancel, CounterRefuse, account
  <2> QED BY <1>7, <2>1 DEF Thawed
<1>8. CASE UNCHANGED vars
  BY <1>8 DEF vars, Waits, SameIntents, SameExit, Thawed
<1> QED BY <1>2, <1>3, <1>4, <1>5, <1>6, <1>7, <1>8 DEF Next

-----------------------------------------------------------------------------
(* The cancel quota *)

Asks == [o \in Orders |-> counter[o].asks]
QuotaInv == daily \in Daily /\ CancelQuotaIsWhatWasSent

\* The quota as the sum over the orders
LEMMA QuotaIsSum ==
  CancelQuotaIsWhatWasSent
    <=> daily.cancels = plan.used.cancels + SumFunctionOnSet(Asks, Orders)
BY DEF CancelQuotaIsWhatWasSent, SumFunction, Asks

\* A step that sends no cancel request takes nothing of the quota.
LEMMA QuotaUntouched ==
  ASSUME AccountInv, QuotaInv, plan' = plan, daily' \in Daily,
         daily'.cancels = daily.cancels,
         \A o \in Orders : counter'[o].asks = counter[o].asks
  PROVE  QuotaInv'
<1>1. Asks' = Asks
  BY DEF Asks
<1>2. SumFunctionOnSet(Asks, Orders)' = SumFunctionOnSet(Asks, Orders)
  BY <1>1 DEF SumFunctionOnSet, FoldFunctionOnSet, MapThenFoldSet
<1>3. CancelQuotaIsWhatWasSent'
        <=> daily'.cancels = plan'.used.cancels + SumFunctionOnSet(Asks, Orders)'
  BY DEF CancelQuotaIsWhatWasSent, SumFunction, Asks
<1> QED BY <1>2, <1>3, QuotaIsSum DEF QuotaInv

\* A cancel request takes one.
LEMMA QuotaTaken ==
  ASSUME AccountInv, QuotaInv, plan' = plan, NEW o \in Orders,
         NEW code \in CancelCodes(o), CancelOrder(o, code)
  PROVE  QuotaInv'
<1>1. counter \in [Orders -> CounterOrder] /\ daily \in Daily
  BY DEF AccountInv, SessionTypes, QuotaInv
<1>2. daily' = [daily EXCEPT !.cancels = daily.cancels + CancelQuota(code)]
  BY DEF CancelOrder
<1>3. CASE code = "Requested"
  <2>1. daily.cancels < MaxCancels
    BY <1>1, <1>3, SessionAssumption DEF CancelCodes, Daily
  <2>2. daily' \in Daily /\ daily'.cancels = daily.cancels + 1
    <3>1. daily.cancels + 1 \in 0 .. MaxCancels
      BY <1>1, <2>1, SessionAssumption DEF Daily
    <3>2. PICK n \in 0 .. MaxCancels : n = daily.cancels + 1
      BY <3>1
    <3>3. daily' = [daily EXCEPT !.cancels = n]
      BY <1>2, <1>3, <3>2 DEF CancelQuota
    <3> QED BY <1>1, <3>2, <3>3 DEF Daily
  <2>3. counter' = [counter EXCEPT ![o].asked = TRUE, ![o].asks = counter[o].asks + 1]
    BY <1>3, <1>1 DEF CancelOrder, CounterOrder
  <2>4. /\ counter'[o].asks = counter[o].asks + 1
        /\ \A p \in Orders \ {o} : counter'[p] = counter[p]
    BY <1>1, <2>3 DEF CounterOrder
  <2> DEFINE w == Asks
             v == [p \in Orders |-> counter'[p].asks]
  <2>5. /\ \A p \in Orders : w[p] \in Int
        /\ v[o] = w[o] + 1
        /\ \A p \in Orders \ {o} : v[p] = w[p]
    BY <1>1, <2>4 DEF Asks, CounterOrder
  <2>6. \A p \in Orders : w[p] \in Int /\ v[p] \in Int
    BY <2>5
  <2>7. CancelQuotaIsWhatWasSent'
          <=> daily'.cancels = plan'.used.cancels + SumFunctionOnSet(v, Orders)
    BY DEF CancelQuotaIsWhatWasSent, SumFunction
  <2>8. daily.cancels = plan.used.cancels + SumFunctionOnSet(w, Orders)
    BY QuotaIsSum DEF QuotaInv
  <2> HIDE DEF w, v
  <2>9. IsFiniteSet(Orders)
    BY OrdersCounted
  <2>10. SumFunctionOnSet(v, Orders) = SumFunctionOnSet(w, Orders) + v[o] - w[o]
    <3>1. \A p \in Orders \ {o} : v[p] = w[p]
      BY <2>5
    <3>2. PICK later, now : later = v /\ now = w
      OBVIOUS
    <3>3. /\ \A p \in Orders : now[p] \in Int /\ later[p] \in Int
          /\ \A p \in Orders \ {o} : later[p] = now[p]
      BY <2>6, <3>1, <3>2
    <3>4. SumFunctionOnSet(later, Orders)
            = SumFunctionOnSet(now, Orders) + later[o] - now[o]
      BY <2>9, <3>3, SumChange, o \in Orders, later[o] \in Int, now[o] \in Int
    <3> QED BY <3>2, <3>4
  <2>11. SumFunctionOnSet(w, Orders) \in Int
    BY <2>6, <2>9, SumTerm
  <2>12. plan.used.cancels \in Int
    BY SessionAssumption DEF AccountInv, SessionTypes, Daily
  <2>13. w[o] \in Int /\ v[o] = w[o] + 1
    BY <2>5
  <2> QED BY <2>2, <2>7, <2>8, <2>10, <2>11, <2>12, <2>13 DEF QuotaInv
<1>4. CASE code # "Requested"
  <2>1. daily' = daily /\ counter' = counter
    BY <1>1, <1>2, <1>4 DEF CancelOrder, CancelQuota, Daily
  <2> QED BY <1>1, <2>1, QuotaUntouched
<1> QED BY <1>3, <1>4

\* submit keeps the counts of the day within their limits.
LEMMA SubmitCounts ==
  ASSUME AccountInv, QuotaInv, plan' = plan, NEW intent,
         NEW code \in SubmitCodes(intent), SubmitOrder(intent, code)
  PROVE  QuotaInv'
<1>1. counter \in [Orders -> CounterOrder] /\ daily \in Daily
  BY DEF AccountInv, SessionTypes, QuotaInv
<1>2. \A o \in Orders : counter'[o].asks = counter[o].asks
  <2>1. counter' \in {counter, [counter EXCEPT ![NextId].status = "Live"]}
    BY DEF SubmitOrder
  <2> QED BY <1>1, <2>1 DEF CounterOrder
<1>3. daily' \in Daily /\ daily'.cancels = daily.cancels
  <2> DEFINE opens == intent.offset = "Open" /\ code \in SendOutcomes
             sends == code \in {"Refused", "Submitted"}
             signals == IF opens THEN daily.signals + 1 ELSE daily.signals
             orders == IF sends THEN daily.orders + 1 ELSE daily.orders
  <2>1. code \in SendOutcomes => RiskAccepts(intent)
    BY DEF SubmitCodes, SendOutcomes
  <2>2. signals \in 0 .. MaxSignals
    BY <1>1, <2>1, SessionAssumption DEF RiskAccepts, Daily
  <2>3. orders \in 0 .. MaxOrders
    BY <1>1, <2>1, SessionAssumption DEF RiskAccepts, Daily, SendOutcomes
  <2>4. daily' = [daily EXCEPT !.signals = signals, !.orders = orders]
    BY DEF SubmitOrder
  <2> HIDE DEF signals, orders
  <2> QED BY <1>1, <2>2, <2>3, <2>4 DEF Daily
<1> QED BY <1>2, <1>3, QuotaUntouched

\* The counter answers cancel requests, and makes none.
LEMMA CounterAsksNothing ==
  ASSUME AccountInv, NEW o \in Orders, CounterStep(o)
  PROVE  \A p \in Orders : counter'[p].asks = counter[p].asks
<1>1. counter \in [Orders -> CounterOrder]
  BY DEF AccountInv, SessionTypes
<1>2. \/ \E status : counter' = [counter EXCEPT ![o].status = status]
      \/ counter' = [counter EXCEPT ![o].asked = FALSE]
      \/ \E status : counter' = [counter EXCEPT ![o].status = status,
                                                ![o].asked = FALSE]
      \/ \E cum, status : counter' = [counter EXCEPT ![o].filled = cum,
                                                     ![o].status = status]
  <2>1. CASE CounterFill(o)
    BY <2>1 DEF CounterFill
  <2>2. CASE CounterAccept(o)
    BY <2>2 DEF CounterAccept
  <2>3. CASE CounterReject(o) \/ CounterCancel(o)
    BY <2>3 DEF CounterReject, CounterCancel
  <2>4. CASE CounterRefuse(o)
    BY <2>4 DEF CounterRefuse
  <2> QED BY <2>1, <2>2, <2>3, <2>4 DEF CounterStep
<1>3. ASSUME NEW cum, NEW status
      PROVE  LET c == counter[o] IN
             /\ [c EXCEPT !.status = status].asks = c.asks
             /\ [c EXCEPT !.asked = FALSE].asks = c.asks
             /\ [c EXCEPT !.status = status, !.asked = FALSE].asks = c.asks
             /\ [c EXCEPT !.filled = cum, !.status = status].asks = c.asks
  BY <1>1 DEF CounterOrder
<1>4. \E c : /\ counter' = [counter EXCEPT ![o] = c]
             /\ c.asks = counter[o].asks
  <2>1. CASE \E status : counter' = [counter EXCEPT ![o].status = status]
    BY <1>3, <2>1
  <2>2. CASE counter' = [counter EXCEPT ![o].asked = FALSE]
    BY <1>3, <2>2
  <2>3. CASE \E status : counter' = [counter EXCEPT ![o].status = status,
                                                   ![o].asked = FALSE]
    <3>1. PICK status : counter' = [counter EXCEPT ![o].status = status,
                                                   ![o].asked = FALSE]
      BY <2>3
    <3>2. counter' = [counter EXCEPT ![o] = [counter[o] EXCEPT !.status = status,
                                                               !.asked = FALSE]]
      BY <1>1, <3>1
    <3> QED BY <1>3, <3>2
  <2>4. CASE \E cum, status : counter' = [counter EXCEPT ![o].filled = cum,
                                                        ![o].status = status]
    <3>1. PICK cum, status : counter' = [counter EXCEPT ![o].filled = cum,
                                                        ![o].status = status]
      BY <2>4
    <3>2. counter' = [counter EXCEPT ![o] = [counter[o] EXCEPT !.filled = cum,
                                                               !.status = status]]
      BY <1>1, <3>1
    <3>3. [counter[o] EXCEPT !.filled = cum, !.status = status].asks = counter[o].asks
      BY <1>3
    <3> QED BY <3>2, <3>3, Zenon
  <2> QED BY <1>2, <2>1, <2>2, <2>3, <2>4
<1> QED BY <1>1, <1>4

\* Every step keeps the quota.
LEMMA QuotaStep ==
  ASSUME AccountInv, Thawed, QuotaInv, [Next]_vars PROVE QuotaInv'
<1>1. plan' = plan
  BY StepKinds
<1>2. CASE EntersOrder \/ SubmitExit
  BY <1>1, <1>2, SubmitCounts DEF EntersOrder, SubmitExit
<1>3. CASE CancelsOrder
  BY <1>1, <1>3, QuotaTaken DEF CancelsOrder
<1>4. CASE DropsExit \/ Waits \/ ReceiveReport \/ ReceiveTrade
  BY <1>1, <1>4, QuotaUntouched
  DEF DropsExit, environment, Waits, ReceiveReport, ReceiveTrade, QuotaInv
<1>5. ASSUME NEW o \in Orders, CounterStep(o) PROVE QuotaInv'
  <2>1. daily' = daily
    BY <1>5 DEF CounterStep, CounterAccept, CounterReject, CounterFill,
                CounterCancel, CounterRefuse, account
  <2> QED BY <1>1, <1>5, <2>1, CounterAsksNothing, QuotaUntouched DEF QuotaInv
<1> QED BY <1>2, <1>3, <1>4, <1>5, StepKinds

\* At first nothing has been sent in this run.
LEMMA QuotaInit == Init => QuotaInv /\ Thawed
<1> SUFFICES ASSUME Init PROVE QuotaInv /\ Thawed
  OBVIOUS
<1>1. /\ daily = plan.used /\ plan \in Plans /\ frozen = FALSE
      /\ counter = [o \in Orders |-> NoCounterOrder]
  BY DEF Init, NothingYet
<1>2. \A o \in Orders : Asks[o] = 0
  BY <1>1 DEF Asks, NoCounterOrder
<1>3. IsFiniteSet(Orders)
  BY OrdersCounted
<1>4. SumFunctionOnSet(Asks, Orders) = 0
  <2> HIDE DEF Asks
  <2> QED BY <1>2, <1>3, SumZero
<1>5. daily \in Daily /\ daily.cancels \in Int
  BY <1>1, SessionAssumption DEF Daily
<1>6. daily.cancels = plan.used.cancels + SumFunctionOnSet(Asks, Orders)
  BY <1>1, <1>4, <1>5
<1>7. CancelQuotaIsWhatWasSent
  BY <1>6, QuotaIsSum, Zenon
<1> QED BY <1>1, <1>5, <1>7 DEF QuotaInv, Thawed

\* For any number of orders and any limits, the cancel quota of the day is what
\* the counter has been sent: a refused request is counted once, and a failed
\* call not at all (cancel).
THEOREM QuotaIsWhatWasSent == Spec => []CancelQuotaIsWhatWasSent
<1>1. QuotaInv /\ Thawed /\ AccountInv /\ [Next]_vars => QuotaInv' /\ Thawed'
  BY QuotaStep, StepKinds
<1>2. QuotaInv => CancelQuotaIsWhatWasSent
  BY DEF QuotaInv
<1> QED BY <1>1, <1>2, QuotaInit, AlwaysAccountInv, PTL DEF Spec

-----------------------------------------------------------------------------
(* Who the orders are *)

\* The counter knows no order without a record.
OnlyRecords == \A o \in Orders \ Records : counter[o].status = "None"

\* Entries open and are asked for once, exits close.
PurposeIsOffset ==
  \A o \in Records :
    /\ records[o].intent.purpose = "Entry" <=> records[o].intent.offset = "Open"
    /\ records[o].intent.purpose = "Entry" => records[o].intent.attempt = 0

SameKeyAs(i, j) ==
  i.signal = j.signal /\ i.purpose = j.purpose /\ i.attempt = j.attempt

\* No two records have one key.
KeysApart ==
  \A o, p \in Records : SameKeyAs(records[o].intent, records[p].intent) => o = p

\* The book knows an order by what its record asks for.
BookNamesRecords ==
  \A o \in Orders :
    IF State(o) = "Absent" THEN book.orders[o].accounted = 0
    ELSE o \in Records /\ book.orders[o].seed = SeedOf(records[o].intent)

OrdersInv == OnlyRecords /\ PurposeIsOffset /\ KeysApart /\ BookNamesRecords

\* Two books with the same orders, whatever became of them
SameNames(b, c) ==
  \A o \in Orders :
    /\ c.orders[o].seed = b.orders[o].seed
    /\ c.orders[o].state = "Absent" <=> b.orders[o].state = "Absent"
    /\ b.orders[o].state = "Absent" => c.orders[o].accounted = b.orders[o].accounted

LEMMA LotsAreNames == ASSUME NEW b, NEW c, SameLots(b, c) PROVE SameNames(b, c)
BY DEF SameLots, SameNames

\* A step that neither enters an order nor tells the counter of one
LEMMA OrdersStay ==
  ASSUME OrdersInv, SameIntents, SameNames(book, book'),
         \A o \in Orders : counter[o].status = "None" => counter'[o].status = "None"
  PROVE  OrdersInv'
<1>1. Records' = Records /\ \A o \in Orders : records'[o].intent = records[o].intent
  BY DEF SameIntents, Records
<1>2. OnlyRecords' /\ PurposeIsOffset' /\ KeysApart'
  BY <1>1 DEF OrdersInv, OnlyRecords, PurposeIsOffset, KeysApart, SameKeyAs, Records
<1>3. BookNamesRecords'
  BY <1>1 DEF OrdersInv, BookNamesRecords, SameNames, State, SeedOf, Records
<1> QED BY <1>2, <1>3 DEF OrdersInv

\* What submit adds: the record of the next order, which no record has the key
\* of, and that order in the book, unless its table is full
AddsOrder(id, intent, code) ==
  /\ id = NextId /\ id \notin Records
  /\ SameSignal(intent) = {}
  /\ records'[id].occupied /\ records'[id].intent = intent
  /\ counter' = IF code = "Submitted" THEN [counter EXCEPT ![id].status = "Live"]
                ELSE counter
  /\ book'.positions = book.positions /\ book'.trades = book.trades
  /\ \A o \in Orders \ {id} :
       /\ records'[o] = records[o]
       /\ book'.orders[o].seed = book.orders[o].seed
       /\ book'.orders[o].accounted = book.orders[o].accounted
       /\ book'.orders[o].state = "Absent" <=> book.orders[o].state = "Absent"
  /\ book'.orders[id].accounted = 0
  /\ book'.orders[id].state # "Absent" => book'.orders[id].seed = SeedOf(intent)

LEMMA SubmitAdds ==
  ASSUME AccountInv, OrdersInv, NEW intent \in Intent,
         NEW code \in SubmitCodes(intent), SubmitOrder(intent, code)
  PROVE  \/ code # "Submitted" /\ UNCHANGED <<book, records, counter>>
         \/ \E id \in Orders : AddsOrder(id, intent, code)
<1> DEFINE seed == SeedOf(intent)
           record == [NoRecord EXCEPT !.occupied = TRUE, !.intent = intent,
                        !.activeOpen = code = "Submitted" /\ intent.offset = "Open"]
<1>1. /\ SoundBook(book) /\ records \in [Orders -> Record] /\ seed \in Seed
  BY SeedOfIntent DEF AccountInv, SessionTypes
<1>2. CASE code \in {"Duplicate", "CapacityExceeded"}
  BY <1>2 DEF SubmitOrder, SubmitBook
<1>3. CASE code \notin {"Duplicate", "CapacityExceeded"}
  <2>1. Cardinality(Records) < RecordCapacity /\ SameSignal(intent) = {}
    BY <1>3, RecordsCounted, SessionAssumption DEF SubmitCodes
  <2>2. PICK id \in Orders : id = NextId /\ id \notin Records
    BY <2>1, NextIsFree DEF AccountInv
  <2>3. /\ records' = [records EXCEPT ![id] = record]
        /\ counter' = IF code = "Submitted"
                      THEN [counter EXCEPT ![id].status = "Live"] ELSE counter
        /\ book' = SubmitBook(intent, code)
    BY <1>3, <2>2 DEF SubmitOrder
  <2>4. record.occupied = TRUE /\ record.intent = intent
    BY DEF NoRecord
  <2> HIDE DEF record
  <2>5. /\ records'[id].occupied /\ records'[id].intent = intent
        /\ \A o \in Orders \ {id} : records'[o] = records[o]
    BY <1>1, <2>3, <2>4
  <2> DEFINE created == CreateOrder(book, id, seed).book
             accepted == ApplyLocalEvent(created, id, "RiskAccepted").book
  <2>6. {"RiskAccepted", "RiskRejected", "SubmitRejected", "Submitted"}
          \subseteq LocalEvents
    BY DEF LocalEvents
  <2>7. SoundBook(created)
    BY <1>1, CreateOrderSound
  <2>8. /\ book.orders[id].state = "Absent" /\ book.orders[id].accounted = 0
    BY <2>2 DEF OrdersInv, BookNamesRecords, State
  <2>9. /\ created.positions = book.positions /\ created.trades = book.trades
        /\ \A o \in Orders \ {id} :
             /\ created.orders[o].seed = book.orders[o].seed
             /\ created.orders[o].accounted = book.orders[o].accounted
             /\ created.orders[o].state = "Absent" <=> book.orders[o].state = "Absent"
        /\ created.orders[id].accounted = 0
        /\ created.orders[id].state # "Absent" => created.orders[id].seed = seed
    <3> HIDE DEF seed
    <3>1. CASE CreateOrder(book, id, seed).code = "Applied"
      BY <1>1, <3>1, CreateOrderAdds
    <3>2. CASE CreateOrder(book, id, seed).code # "Applied"
      <4>1. SameLots(book, created)
        BY <1>1, <3>2, CreateOrderAdds
      <4> QED BY <2>8, <4>1 DEF SameLots
    <3> QED BY <3>1, <3>2
  <2> HIDE DEF created
  <2>10. SameLots(created, accepted) /\ SoundBook(accepted) /\ SameLots(created, created)
    BY <2>6, <2>7, LocalEventSameLots, LocalEventSound DEF SameLots
  <2> HIDE DEF accepted
  <2>11. \A event \in LocalEvents :
           /\ SameLots(created, ApplyLocalEvent(created, id, event).book)
           /\ SameLots(created, ApplyLocalEvent(accepted, id, event).book)
    BY <2>7, <2>10, LocalEventSameLots, SameLotsTwice
  <2>12. SameLots(created, book')
    <3>1. code \in {"TableFull", "RiskRejected", "NotBuilt", "Refused", "Submitted"}
      BY <1>3 DEF SubmitCodes, SendOutcomes
    <3>2. \/ SubmitBook(intent, code) = created
          \/ \E event \in LocalEvents :
               \/ SubmitBook(intent, code) = ApplyLocalEvent(created, id, event).book
               \/ SubmitBook(intent, code) = ApplyLocalEvent(accepted, id, event).book
      BY <2>2, <2>6, <3>1 DEF SubmitBook, created, accepted
    <3> QED BY <2>3, <2>10, <2>11, <3>2
  <2>13. AddsOrder(id, intent, code)
    BY <2>1, <2>2, <2>3, <2>5, <2>9, <2>12 DEF AddsOrder, SameLots
  <2> QED BY <2>13
<1> QED BY <1>2, <1>3

\* A step that enters an order keeps them apart.
LEMMA OrdersAdded ==
  ASSUME AccountInv, OrdersInv, NEW id \in Orders, NEW intent \in Intent, NEW code,
         AddsOrder(id, intent, code),
         intent.purpose = "Entry" <=> intent.offset = "Open",
         intent.purpose = "Entry" => intent.attempt = 0
  PROVE  OrdersInv'
<1>1. /\ Records' = Records \cup {id} /\ id \notin Records
      /\ records'[id].intent = intent
      /\ \A o \in Orders \ {id} : records'[o] = records[o]
  BY DEF AddsOrder, Records
<1>2. \A o \in Records : ~SameKeyAs(records[o].intent, intent)
  BY DEF AddsOrder, SameSignal, SameKeyAs
<1>3. counter \in [Orders -> CounterOrder]
      /\ \A o \in Orders \ {id} : counter'[o] = counter[o]
  BY DEF AddsOrder, AccountInv, SessionTypes
<1>4. OnlyRecords'
  BY <1>1, <1>3 DEF OrdersInv, OnlyRecords
<1>5. PurposeIsOffset'
  BY <1>1 DEF OrdersInv, PurposeIsOffset, Records
<1>6. KeysApart'
  <2> SUFFICES ASSUME NEW o \in Records', NEW p \in Records',
                      SameKeyAs(records'[o].intent, records'[p].intent)
               PROVE  o = p
    BY DEF KeysApart, SameKeyAs
  <2>1. \A q \in Records : q \in Orders \ {id} /\ records'[q].intent = records[q].intent
    BY <1>1 DEF Records
  <2>2. CASE o = id /\ p \in Records
    BY <1>1, <1>2, <2>1, <2>2 DEF SameKeyAs
  <2>3. CASE p = id /\ o \in Records
    BY <1>1, <1>2, <2>1, <2>3 DEF SameKeyAs
  <2>4. CASE o \in Records /\ p \in Records
    BY <2>1, <2>4 DEF OrdersInv, KeysApart
  <2> QED BY <1>1, <2>2, <2>3, <2>4
<1>7. BookNamesRecords'
  <2> SUFFICES ASSUME NEW o \in Orders
               PROVE  IF State(o)' = "Absent" THEN book'.orders[o].accounted = 0
                      ELSE o \in Records'
                           /\ book'.orders[o].seed = SeedOf(records'[o].intent)
    BY DEF BookNamesRecords, SeedOf
  <2>1. CASE o = id
    BY <1>1, <2>1 DEF AddsOrder, State
  <2>2. CASE o # id
    BY <1>1, <2>2 DEF AddsOrder, State, OrdersInv, BookNamesRecords
  <2> QED BY <2>1, <2>2
<1> QED BY <1>4, <1>5, <1>6, <1>7 DEF OrdersInv

\* The entries of a plan open; an exit closes.
LEMMA IntentsOfCalls ==
  ASSUME AccountInv
  PROVE  /\ \A intent \in plan.entries :
              /\ intent \in Intent
              /\ intent.purpose = "Entry" /\ intent.offset = "Open"
              /\ intent.attempt = 0
         /\ ExitIntent \in Intent
         /\ ExitIntent.purpose = "Exit" /\ ExitIntent.offset = "Close"
         /\ ExitIntent.signal = exit.signal /\ ExitIntent.attempt = exit.attempt
         /\ ExitIntent.direction = exit.direction
BY SessionAssumption, ExitIntentType DEF AccountInv, SessionTypes, ExitIntent

\* A trade names no order anew.
LEMMA TradeNames ==
  ASSUME NEW b, SoundBook(b), NEW t \in TradeReport
  PROVE  SameNames(b, ApplyTrade(b, t).book)
<1> DEFINE o == b.orders[t.id]
           after == OrderAfterTrade(o, t)
           recorded == RecordTrade(b, t)
           result == ApplyTrade(b, t)
<1>1. o \in Order /\ t.id \in Orders
  BY DEF SoundBook, Book, TradeReport
<1>2. after.seed = o.seed /\ after.state # "Absent"
  BY <1>1 DEF OrderAfterTrade, Order
<1>3. /\ recorded.orders[t.id] = after
      /\ \A p \in Orders \ {t.id} : recorded.orders[p] = b.orders[p]
  BY <1>1 DEF RecordTrade, SoundBook, Book
<1> HIDE DEF after
<1>4. o.state # "Absent" => SameNames(b, recorded)
  BY <1>2, <1>3 DEF SameNames
<1>5. \/ \E ids : result = Conflict(b, ids)
      \/ \E code, ids : result = Refused(b, code, ids)
      \/ \E code : result = Ignored(b, code)
      \/ /\ o.state # "Absent" /\ SoundBook(recorded)
         /\ result.book = Flag(recorded, {t.id}) \/ result.book = recorded
  BY TradeCases
<1> HIDE DEF recorded, result, o
<1>6. CASE /\ o.state # "Absent" /\ SoundBook(recorded)
           /\ result.book = Flag(recorded, {t.id}) \/ result.book = recorded
  <2>1. SameNames(recorded, result.book)
    BY <1>6, FlagSameLots, LotsAreNames DEF SameNames
  <2> QED BY <1>4, <1>6, <2>1 DEF SameNames, result
<1>7. ASSUME NEW code, NEW ids,
             \/ result = Conflict(b, ids) \/ result = Refused(b, code, ids)
             \/ result = Ignored(b, code)
      PROVE  SameNames(b, result.book)
  BY <1>7, RefusalSameLots, LotsAreNames
<1> QED BY <1>5, <1>6, <1>7 DEF result

\* A trade that counts: it is one of the order o, no record of it exists, and
\* it closes no more than is held.
TakesTrade(o, t) ==
  /\ t.id = o /\ t.instrument = Instrument
  /\ t.direction = records[o].intent.direction
  /\ t.offset = records[o].intent.offset
  /\ t.quantity > 0 /\ SameKey(book, t) = {}
  /\ ~Mismatched(book.orders[o], t) /\ ~Overcloses(Held, t)
  /\ book' = RecordTrade(book, t)
  /\ exit' = IF t.offset = "Open"
             THEN IF Incompatible(o) THEN exit ELSE ExitAfterOpen(o, t)
             ELSE IF Flat(Held') THEN NoExit ELSE exit
  /\ t.offset = "Open" /\ Incompatible(o) => frozen'

LEMMA TradeKinds ==
  ASSUME AccountInv, Thawed, OrdersInv, ReceiveTrade
  PROVE  /\ \/ \E o \in Records : \E t \in Trade :
                 t = Head(trades) /\ TakesTrade(o, t)
            \/ exit' = exit /\ (book' = book \/ frozen')
         /\ SameIntents /\ SameNames(book, book')
         /\ trades # <<>> /\ trades' = Tail(trades) /\ Tail(trades) \in Seq(Trade)
<1> DEFINE t == Head(trades)
           result == ApplyTrade(book, t)
           o == t.id
<1>1. /\ trades \in Seq(Trade) /\ trades # <<>> /\ SoundBook(book)
      /\ records \in [Orders -> Record]
  BY DEF ReceiveTrade, AccountInv, SessionTypes
<1>2. t \in Trade /\ Tail(trades) \in Seq(Trade) /\ t \in TradeReport /\ o \in Orders
  BY <1>1 DEF Trade, TradeReport
<1>3. /\ book' = result.book /\ records' = Release(records, book', o)
      /\ exit' = ExitAfterTrade(o, t, result)
      /\ SetFaults(ResultFaults(result) \o TradeFaults(o, result))
      /\ trades' = Tail(trades)
  BY DEF ReceiveTrade
<1>4. SameIntents
  BY <1>1, <1>2, <1>3 DEF Release, SameIntents, Record
<1>5. SameNames(book, book')
  BY <1>1, <1>2, <1>3, TradeNames
<1> HIDE DEF t
<1>6. ResultFaults(result) \in {<<>>, <<"StateConflict">>}
      /\ TradeFaults(o, result) \in {<<>>, <<"StateConflict">>}
  BY DEF ResultFaults, TradeFaults, If
<1>7. ResultFaults(result) # <<>> \/ TradeFaults(o, result) # <<>> => frozen'
  <2>1. \A r, s \in {<<>>, <<"StateConflict">>} : r # <<>> \/ s # <<>> => r \o s # <<>>
    OBVIOUS
  <2> QED BY <1>3, <1>6, <2>1, SessionFaults
<1>8. result.reconcile => ResultFaults(result) # <<>>
  BY DEF ResultFaults, If
<1>9. CASE result.code = "Applied"
  <2>1. /\ book' = RecordTrade(book, t) /\ result.positionChanged
        /\ t.quantity > 0 /\ SameKey(book, t) = {}
        /\ State(o) # "Absent" /\ ~Mismatched(book.orders[o], t)
        /\ ~Overcloses(book.positions[t.instrument], t)
    BY <1>2, <1>3, <1>9, TradeOutcome DEF State
  <2>2. o \in Records /\ book.orders[o].seed = SeedOf(records[o].intent)
    BY <1>2, <2>1 DEF OrdersInv, BookNamesRecords
  <2>3. /\ t.instrument = Instrument /\ t.direction = records[o].intent.direction
        /\ t.offset = records[o].intent.offset
    BY <2>1, <2>2 DEF Mismatched, SeedOf
  <2>4. Counts(result)
    BY <1>9, <2>1 DEF Counts
  <2>5. Flat(Held') <=> Flat(result.book.positions[Instrument])
    BY <1>3 DEF Held
  <2>6. exit' = IF t.offset = "Open"
                THEN IF Incompatible(o) THEN exit ELSE ExitAfterOpen(o, t)
                ELSE IF Flat(Held') THEN NoExit ELSE exit
    BY <1>3, <2>3, <2>4, <2>5 DEF ExitAfterTrade
  <2>7. t.offset = "Open" /\ Incompatible(o) => frozen'
    BY <1>7, <2>3, <2>4 DEF TradeFaults, If
  <2> HIDE DEF result
  <2>8. TakesTrade(o, t)
    BY <2>1, <2>3, <2>6, <2>7 DEF TakesTrade, Held
  <2> QED BY <1>1, <1>2, <1>3, <1>4, <1>5, <2>2, <2>8 DEF t
<1>10. CASE result.code # "Applied"
  <2>1. exit' = exit
    BY <1>3, <1>10 DEF ExitAfterTrade, Counts
  <2>2. result.reconcile \/ result.book = book
    BY <1>2, <1>10, TradeOutcome
  <2> HIDE DEF result
  <2>3. frozen' \/ book' = book
    BY <1>3, <1>7, <1>8, <2>2
  <2> QED BY <1>1, <1>2, <1>3, <1>4, <1>5, <2>1, <2>3
<1> QED BY <1>9, <1>10

\* What cancel leaves of the book
LEMMA CancelSameLots ==
  ASSUME AccountInv, NEW o \in Orders, NEW code, CancelOrder(o, code)
  PROVE  SameLots(book, book')
<1> DEFINE asked == ApplyLocalEvent(book, o, "CancelRequested").book
           undone == ApplyOrderReport(asked, CancelReport(o)).book
<1>1. SoundBook(book) /\ "CancelRequested" \in LocalEvents /\ CancelReport(o) \in OrderReport
  BY CancelReportType DEF AccountInv, SessionTypes, LocalEvents
<1>2. SameLots(book, asked) /\ SoundBook(asked)
  BY <1>1, LocalEventSameLots, LocalEventSound
<1> HIDE DEF asked
<1>3. SameLots(asked, undone)
  BY <1>1, <1>2, OrderReportSameLots
<1>4. SameLots(book, undone) /\ SameLots(book, book)
  BY <1>2, <1>3, SameLotsTwice DEF SameLots
<1>5. book' \in {book, asked, undone}
  BY DEF CancelOrder, asked, undone
<1> HIDE DEF undone
<1> QED BY <1>2, <1>4, <1>5

\* The counter ends no order back into one it has not seen.
LEMMA StatusStays ==
  ASSUME AccountInv, NEW o \in Orders,
         CounterStep(o) \/ (\E code : CancelOrder(o, code))
  PROVE  \A p \in Orders :
           /\ counter[p].status = "None" => counter'[p].status = "None"
           /\ counter[p].status = "Canceled" => counter'[p].status = "Canceled"
           /\ counter'[p].status \in {"Live", "Accepted"} =>
                counter[p].status \in {"Live", "Accepted"}
<1>1. counter \in [Orders -> CounterOrder]
  BY DEF AccountInv, SessionTypes
<1>2. \A p \in Orders \ {o} : counter'[p] = counter[p]
  BY <1>1 DEF CounterStep, CounterAccept, CounterReject, CounterFill, CounterCancel,
              CounterRefuse, CancelOrder
<1>3. CASE CounterRefuse(o) \/ \E code : CancelOrder(o, code)
  <2>1. \/ counter' = counter \/ counter' = [counter EXCEPT ![o].asked = FALSE]
        \/ counter' = [counter EXCEPT ![o].asked = TRUE, ![o].asks = counter[o].asks + 1]
    BY <1>1, <1>3 DEF CounterRefuse, CancelOrder
  <2>2. counter'[o].status = counter[o].status
    BY <1>1, <2>1 DEF CounterOrder
  <2> QED BY <1>2, <2>2
<1>4. CASE CounterAccept(o) \/ CounterReject(o) \/ CounterFill(o) \/ CounterCancel(o)
  <2>1. counter[o].status \in {"Live", "Accepted"}
    BY <1>4 DEF CounterAccept, CounterReject, CounterFill, CounterCancel, Live
  <2>2. counter'[o].status # "None"
    <3>1. CASE CounterFill(o)
      <4>1. PICK status \in {"Filled", "Accepted"} : \E cum :
              counter' = [counter EXCEPT ![o].filled = cum, ![o].status = status]
        BY <3>1 DEF CounterFill
      <4> QED BY <1>1, <4>1 DEF CounterOrder
    <3>2. CASE CounterReject(o) \/ CounterCancel(o)
      <4>1. PICK status \in {"Rejected", "Canceled"} :
              counter' = [counter EXCEPT ![o].status = status, ![o].asked = FALSE]
        BY <3>2 DEF CounterReject, CounterCancel
      <4> QED BY <1>1, <4>1 DEF CounterOrder
    <3>3. CASE CounterAccept(o)
      BY <1>1, <3>3 DEF CounterAccept, CounterOrder
    <3> QED BY <1>4, <3>1, <3>2, <3>3
  <2> QED BY <1>2, <2>1, <2>2
<1> QED BY <1>3, <1>4 DEF CounterStep

\* Every step keeps the orders apart.
LEMMA OrdersStep ==
  ASSUME AccountInv, Thawed, OrdersInv, [Next]_vars PROVE OrdersInv'
<1>1. SameNames(book, book)
  BY DEF SameNames
<1>2. ASSUME NEW intent \in Intent, NEW code \in SubmitCodes(intent),
             SubmitOrder(intent, code),
             intent.purpose = "Entry" <=> intent.offset = "Open",
             intent.purpose = "Entry" => intent.attempt = 0
      PROVE  OrdersInv'
  <2>1. CASE UNCHANGED <<book, records, counter>>
    BY <1>1, <2>1, OrdersStay DEF SameIntents
  <2>2. CASE \E id \in Orders : AddsOrder(id, intent, code)
    BY <1>2, <2>2, OrdersAdded
  <2> QED BY <1>2, <2>1, <2>2, SubmitAdds
<1>3. CASE EntersOrder \/ SubmitExit
  BY <1>2, <1>3, IntentsOfCalls DEF EntersOrder, SubmitExit
<1>4. CASE CancelsOrder
  BY <1>4, CancelSameLots, LotsAreNames, StatusStays, OrdersStay DEF CancelsOrder
<1>5. CASE DropsExit \/ Waits
  BY <1>1, <1>5, OrdersStay DEF DropsExit, environment, SameIntents, Waits
<1>6. CASE ReceiveReport
  <2> DEFINE m == Head(reports)
             r == [id |-> m.id, type |-> m.type, cum |-> m.cum]
  <2>1. /\ reports \in Seq(Message) /\ reports # <<>> /\ SoundBook(book)
        /\ records \in [Orders -> Record]
    BY <1>6 DEF ReceiveReport, AccountInv, SessionTypes
  <2>2. m \in Message
    BY <2>1
  <2>3. r \in OrderReport /\ m.id \in Orders
    BY <2>2 DEF Message, OrderReport
  <2>4. SameNames(book, book')
    BY <1>6, <2>1, <2>3, OrderReportSameLots, LotsAreNames DEF ReceiveReport, ReportResult
  <2>5. SameIntents
    <3> DEFINE cleared == IF m.kind = "CancelResponse"
                          THEN [records EXCEPT ![m.id].cancelRequested = FALSE]
                          ELSE records
    <3>1. /\ cleared \in [Orders -> Record]
          /\ \A p \in Orders : /\ cleared[p].occupied = records[p].occupied
                               /\ cleared[p].intent = records[p].intent
      BY <2>1, <2>3 DEF Record
    <3>2. records' = Release(cleared, book', m.id)
      BY <1>6 DEF ReceiveReport
    <3> HIDE DEF cleared, m
    <3> QED BY <2>3, <3>1, <3>2 DEF Release, SameIntents, Record
  <2>6. counter' = counter
    BY <1>6 DEF ReceiveReport
  <2> QED BY <2>4, <2>5, <2>6, OrdersStay
<1>7. CASE ReceiveTrade
  <2>1. counter' = counter
    BY <1>7 DEF ReceiveTrade
  <2> QED BY <1>7, <2>1, TradeKinds, OrdersStay
<1>8. ASSUME NEW o \in Orders, CounterStep(o) PROVE OrdersInv'
  <2>1. UNCHANGED <<book, records>>
    BY <1>8 DEF CounterStep, CounterAccept, CounterReject, CounterFill,
                CounterCancel, CounterRefuse, account
  <2>2. SameIntents /\ SameNames(book, book')
    BY <2>1 DEF SameIntents, SameNames
  <2> QED BY <1>8, <2>2, StatusStays, OrdersStay
<1> QED BY <1>3, <1>4, <1>5, <1>6, <1>7, <1>8, StepKinds

\* At first there are none.
LEMMA OrdersInit == NothingYet => OrdersInv
<1> SUFFICES ASSUME NothingYet PROVE OrdersInv
  OBVIOUS
<1>1. \A o \in Orders : /\ counter[o].status = "None" /\ ~records[o].occupied
                        /\ State(o) = "Absent" /\ book.orders[o].accounted = 0
  BY DEF NothingYet, NoCounterOrder, NoRecord, State, EmptyBook, NoOrder
<1>2. Records = {}
  BY <1>1 DEF Records
<1> QED BY <1>1, <1>2 DEF OrdersInv, OnlyRecords, PurposeIsOffset, KeysApart,
                          BookNamesRecords

\* Orders are told apart by the key of their intents, in the account and in the
\* book alike: the inductive invariant of what follows.
THEOREM AlwaysOrdersInv == Spec => [](AccountInv /\ Thawed /\ OrdersInv)
<1>1. Init => Thawed
  BY DEF Init, Thawed
<1>2. AccountInv /\ Thawed /\ OrdersInv /\ [Next]_vars => Thawed' /\ OrdersInv'
  BY OrdersStep, StepKinds
<1> QED BY <1>1, <1>2, OrdersInit, AlwaysAccountInv, PTL DEF Spec, Init

-----------------------------------------------------------------------------
(* Lots and exits *)

\* An exit is due or sent for the signal of an entry, and against it.
EntryOf(o) ==
  /\ o \in Records
  /\ records[o].intent.purpose = "Entry"
  /\ records[o].intent.signal = exit.signal
  /\ records[o].intent.direction = Opposite(exit.direction)
ExitHasEntry == exit.pending \/ exit.active => \E o \in Orders : EntryOf(o)

ExitIdle == ~exit.active => exit.id = 0

ExitInv == ExitIdle /\ ExitHasEntry /\ LotsHaveAnExit

Grows ==
  \A o \in Records : o \in Records' /\ records'[o].intent = records[o].intent

\* A step that moves neither lots nor the exit
LEMMA ExitStays ==
  ASSUME ExitInv, SameExit, Held' = Held, frozen => frozen', Grows
  PROVE  ExitInv'
<1>1. Closable' = Closable
  BY DEF SameExit, Closable
<1>2. LotsHaveAnExit'
  BY <1>1 DEF ExitInv, LotsHaveAnExit, SameExit
<1>3. \A o \in Orders : EntryOf(o) => EntryOf(o)'
  BY DEF EntryOf, Grows, SameExit
<1> QED BY <1>2, <1>3 DEF ExitInv, ExitIdle, ExitHasEntry, SameExit

\* submit moves no lots and keeps the records there are.
LEMMA SubmitMovesNoLots ==
  ASSUME AccountInv, OrdersInv, NEW intent \in Intent,
         NEW code \in SubmitCodes(intent), SubmitOrder(intent, code)
  PROVE  Held' = Held /\ Grows
<1>1. CASE UNCHANGED <<book, records, counter>>
  BY <1>1 DEF Held, Grows, Records
<1>2. CASE \E id \in Orders : AddsOrder(id, intent, code)
  BY <1>2 DEF AddsOrder, Held, Grows, Records
<1> QED BY <1>1, <1>2, SubmitAdds

\* An exit order sent is of the exit that was due.
LEMMA ExitSent ==
  ASSUME exit \in Exit, NEW id \in Orders, id = NextId, exit' = ExitSubmitted
  PROVE  /\ ~exit'.pending /\ exit'.active /\ exit'.id = id
         /\ exit'.signal = exit.signal /\ exit'.direction = exit.direction
         /\ exit'.attempt = exit.attempt
BY DEF ExitSubmitted, Exit

\* on_market sends it.
LEMMA ExitSubmitStep ==
  ASSUME AccountInv, OrdersInv, ExitInv, SubmitExit, frozen => frozen'
  PROVE  ExitInv'
<1>1. PICK code \in SubmitCodes(ExitIntent) :
        /\ SubmitOrder(ExitIntent, code)
        /\ exit' = IF code = "Submitted" THEN ExitSubmitted ELSE exit
  BY DEF SubmitExit
<1>2. ExitIntent \in Intent /\ exit \in Exit
  BY IntentsOfCalls DEF AccountInv, SessionTypes
<1>3. Held' = Held /\ Grows
  BY <1>1, <1>2, SubmitMovesNoLots
<1>4. CASE code # "Submitted"
  BY <1>1, <1>3, <1>4, ExitStays DEF SameExit
<1>5. CASE code = "Submitted"
  <2>1. PICK id \in Orders : AddsOrder(id, ExitIntent, code)
    BY <1>1, <1>2, <1>5, SubmitAdds
  <2>2. /\ ~exit'.pending /\ exit'.active /\ exit'.id = id
        /\ exit'.signal = exit.signal /\ exit'.direction = exit.direction
    BY <1>1, <1>2, <1>5, <2>1, ExitSent DEF AddsOrder
  <2>3. exit.pending /\ Closable > 0 /\ Closable' = Closable
    BY <1>3, <2>2 DEF SubmitExit, ExitDue, Closable
  <2>4. LotsHaveAnExit'
    BY <1>3, <2>2, <2>3 DEF ExitInv, LotsHaveAnExit
  <2>5. ExitHasEntry'
    <3>1. PICK o \in Orders : EntryOf(o)
      BY <2>3 DEF ExitInv, ExitHasEntry
    <3>2. EntryOf(o)'
      BY <1>3, <2>2, <3>1 DEF EntryOf, Grows
    <3> QED BY <3>2 DEF ExitHasEntry
  <2> QED BY <2>2, <2>4, <2>5 DEF ExitInv, ExitIdle
<1> QED BY <1>4, <1>5

\* What a report makes of the exit: the exit order is canceled, and the exit is
\* due again, given up with the account frozen, or there was nothing to it.
ExitReported(m) ==
  /\ m.kind = "Order" /\ m.type = "Canceled" /\ exit.id = m.id
  /\ exit'.id = 0 /\ ~exit'.active
  /\ exit'.signal = exit.signal /\ exit'.direction = exit.direction
  /\ \/ frozen' /\ exit'.pending = exit.pending
     \/ /\ exit'.attempt = exit.attempt + 1
        /\ exit'.pending = (Closable' > 0)

\* Faults put one after the other are some if one of them is.
LEMMA FaultsJoined ==
  ASSUME NEW R, NEW a, NEW b, NEW c, NEW d,
         a \in {<<>>} \cup {<<x>> : x \in R}, b \in {<<>>} \cup {<<x>> : x \in R},
         c \in {<<>>} \cup {<<x>> : x \in R}, d \in {<<>>} \cup {<<x>> : x \in R},
         a # <<>> \/ b # <<>> \/ c # <<>> \/ d # <<>>
  PROVE  a \o b \o c \o d # <<>>
<1>1. \A x \in R : <<x>> \in Seq(R)
  OBVIOUS
<1>2. a \in Seq(R) /\ b \in Seq(R) /\ c \in Seq(R) /\ d \in Seq(R)
  BY <1>1, EmptySeq
<1> QED BY <1>2

\* What else a report does
LEMMA ReportKinds ==
  ASSUME AccountInv, Thawed, ReceiveReport
  PROVE  /\ exit' = exit \/ ExitReported(Head(reports))
         /\ SameLots(book, book') /\ SameIntents
         /\ Head(reports) \in Message /\ Tail(reports) \in Seq(Message)
         /\ reports # <<>> /\ reports' = Tail(reports)
         /\ UNCHANGED <<counter, trades>>
<1> DEFINE m == Head(reports)
           r == [id |-> m.id, type |-> m.type, cum |-> m.cum]
           cleared == IF m.kind = "CancelResponse"
                      THEN [records EXCEPT ![m.id].cancelRequested = FALSE]
                      ELSE records
           result == ReportResult(m)
           canceled == EndsExit(m, result)
           gone == ~book'.positions[Instrument].occupied
<1>1. /\ reports \in Seq(Message) /\ reports # <<>> /\ SoundBook(book)
      /\ records \in [Orders -> Record] /\ exit \in Exit
  BY DEF ReceiveReport, AccountInv, SessionTypes
<1>2. m \in Message /\ Tail(reports) \in Seq(Message)
  BY <1>1
<1>3. r \in OrderReport /\ m.id \in Orders
  BY <1>2 DEF Message, OrderReport
<1>4. SameLots(book, book')
  BY <1>1, <1>3, OrderReportSameLots DEF ReceiveReport, ReportResult
<1>5. SameIntents
  <2>1. /\ cleared \in [Orders -> Record]
        /\ \A p \in Orders : /\ cleared[p].occupied = records[p].occupied
                             /\ cleared[p].intent = records[p].intent
    BY <1>1, <1>3 DEF Record
  <2>2. records' = Release(cleared, book', m.id)
    BY DEF ReceiveReport
  <2> HIDE DEF cleared, m
  <2> QED BY <1>3, <2>1, <2>2 DEF Release, SameIntents, Record
<1>6. \/ exit' = exit
      \/ canceled /\ exit' = [exit EXCEPT !.active = FALSE, !.id = 0]
           /\ (exit.freezeAfterCancel \/ gone)
      \/ canceled /\ exit' = ExitAfterCancel(book')
  BY DEF ReceiveReport
<1>7. CASE /\ canceled /\ exit' = [exit EXCEPT !.active = FALSE, !.id = 0]
           /\ exit.freezeAfterCancel \/ gone
  <2>1. frozen'
    <3> DEFINE a == ResultFaults(result)
               b == If(m.kind = "CancelResponse" /\ exit.id = m.id, "CloseCancelRejected")
               c == If(canceled /\ exit.freezeAfterCancel, "CloseRetryExhausted")
               d == If(canceled /\ gone, "StateConflict")
    <3>1. SetFaults(a \o b \o c \o d)
      BY DEF ReceiveReport
    <3> DEFINE R == {"StateConflict", "CloseCancelRejected", "CloseRetryExhausted"}
    <3>2. /\ a \in {<<>>} \cup {<<x>> : x \in R}
          /\ b \in {<<>>} \cup {<<x>> : x \in R}
          /\ c \in {<<>>} \cup {<<x>> : x \in R}
          /\ d \in {<<>>} \cup {<<x>> : x \in R}
      BY DEF If, ResultFaults
    <3>3. c # <<>> \/ d # <<>>
      BY <1>7 DEF If
    <3> HIDE DEF a, b, c, d, R
    <3>4. a \o b \o c \o d # <<>>
      BY <3>2, <3>3, FaultsJoined
    <3> QED BY <3>1, <3>4, SessionFaults
  <2>2. /\ exit'.id = 0 /\ ~exit'.active /\ exit'.pending = exit.pending
        /\ exit'.signal = exit.signal /\ exit'.direction = exit.direction
    BY <1>1, <1>7 DEF Exit
  <2> QED BY <1>2, <1>4, <1>5, <1>7, <2>1, <2>2
      DEF ExitReported, EndsExit, ReceiveReport, AccountInv, SessionTypes
<1>8. CASE canceled /\ exit' = ExitAfterCancel(book')
  <2> DEFINE p == book'.positions[Instrument]
             left == IF exit.direction = "Sell" THEN p.long ELSE p.short
             due == left > 0
  <2>1. exit' = [exit EXCEPT !.active = FALSE, !.id = 0, !.quantity = left,
                             !.pending = due, !.attempt = exit.attempt + 1]
    BY <1>8 DEF ExitAfterCancel
  <2>2. Closable' = IF exit'.direction = "Sell" THEN p.long ELSE p.short
    BY DEF Closable, Held
  <2> HIDE DEF left, due
  <2>3. /\ exit'.id = 0 /\ ~exit'.active /\ exit'.pending = due
        /\ exit'.signal = exit.signal /\ exit'.direction = exit.direction
        /\ exit'.attempt = exit.attempt + 1
    BY <1>1, <2>1 DEF Exit
  <2>4. Closable' = left
    BY <2>2, <2>3 DEF left
  <2>5. exit'.pending = (Closable' > 0)
    BY <2>3, <2>4 DEF due
  <2> QED BY <1>2, <1>4, <1>5, <1>8, <2>3, <2>5
      DEF ExitReported, EndsExit, ReceiveReport, AccountInv, SessionTypes
<1> QED BY <1>1, <1>2, <1>4, <1>5, <1>6, <1>7, <1>8 DEF ReceiveReport

\* A report leaves an exit to lots, if the account is not frozen.
LEMMA ExitReportStep ==
  ASSUME AccountInv, Thawed, ExitInv, ReceiveReport, frozen => frozen'
  PROVE  ExitInv'
<1>1. /\ exit' = exit \/ ExitReported(Head(reports))
      /\ SameLots(book, book') /\ SameIntents /\ Head(reports) \in Message
  BY ReportKinds
<1>2. Held' = Held /\ Grows
  BY <1>1 DEF Held, SameLots, SameIntents, Grows, Records
<1>3. CASE exit' = exit
  BY <1>2, <1>3, ExitStays DEF SameExit
<1>4. CASE ExitReported(Head(reports))
  <2>1. exit.id # 0
    <3>1. exit.id \in Orders
      BY <1>1, <1>4 DEF ExitReported, Message
    <3> QED BY <3>1, SessionAssumption
  <2>2. exit.active
    BY <2>1 DEF ExitInv, ExitIdle
  <2>3. ExitHasEntry'
    <3>1. PICK o \in Orders : EntryOf(o)
      BY <2>2 DEF ExitInv, ExitHasEntry
    <3>2. EntryOf(o)'
      BY <1>2, <1>4, <3>1 DEF EntryOf, Grows, ExitReported
    <3> QED BY <3>2 DEF ExitHasEntry
  <2>4. LotsHaveAnExit'
    <3>1. Closable' = Closable
      BY <1>2, <1>4 DEF Closable, ExitReported
    <3>2. ~frozen' => Closable > 0 /\ (Held.long = 0 \/ Held.short = 0)
      BY <2>2 DEF ExitInv, LotsHaveAnExit
    <3>3. ~frozen' => exit'.pending
      BY <1>4, <3>1, <3>2 DEF ExitReported
    <3> QED BY <1>2, <3>1, <3>2, <3>3 DEF LotsHaveAnExit
  <2>5. ExitIdle'
    BY <1>4 DEF ExitReported, ExitIdle
  <2> QED BY <2>3, <2>4, <2>5 DEF ExitInv
<1> QED BY <1>1, <1>3, <1>4

\* What is held after a trade that counts
LEMMA HeldAfterTrade ==
  ASSUME AccountInv, NEW o \in Orders, NEW t \in Trade, TakesTrade(o, t)
  PROVE  LET signed == IF t.offset = "Open" THEN t.quantity ELSE -t.quantity
             long == t.offset = "Open" <=> t.direction = "Buy" IN
         /\ Held \in Position /\ t.quantity \in Nat /\ t.quantity > 0
         /\ Held'.long = IF long THEN Held.long + signed ELSE Held.long
         /\ Held'.short = IF long THEN Held.short ELSE Held.short + signed
         /\ t.offset # "Open" =>
              t.quantity <= IF long THEN Held.long ELSE Held.short
<1>1. SoundBook(book) /\ Held \in Position
  BY SessionAssumption DEF AccountInv, SessionTypes, SoundBook, Book, Held
<1>2. t.quantity \in Nat /\ t.quantity > 0 /\ t.instrument = Instrument
      /\ ~Overcloses(Held, t)
  BY DEF TakesTrade, Trade
<1>3. Held' = PositionAfterTrade(Held, t)
  <2>1. book' = RecordTrade(book, t)
    BY DEF TakesTrade
  <2>2. book'.positions = [book.positions EXCEPT
                             ![Instrument] = PositionAfterTrade(@, t)]
    BY <1>1, <1>2, <2>1 DEF RecordTrade, SoundBook, Book
  <2> QED BY <1>1, <2>2, SessionAssumption DEF Held, SoundBook, Book
<1> DEFINE signed == IF t.offset = "Open" THEN t.quantity ELSE -t.quantity
           touched == [Held EXCEPT !.occupied = TRUE]
<1>4. touched \in Position /\ touched.long = Held.long /\ touched.short = Held.short
  BY <1>1 DEF Position
<1>5. Held' = IF t.offset = "Open" <=> t.direction = "Buy"
              THEN [touched EXCEPT !.long = @ + signed]
              ELSE [touched EXCEPT !.short = @ + signed]
  BY <1>2, <1>3 DEF PositionAfterTrade, Side, Opens
<1> HIDE DEF touched
<1>6. \A n : /\ [touched EXCEPT !.long = n].long = n
             /\ [touched EXCEPT !.long = n].short = touched.short
             /\ [touched EXCEPT !.short = n].short = n
             /\ [touched EXCEPT !.short = n].long = touched.long
  BY <1>4 DEF Position
<1>7. t.offset # "Open" =>
        t.quantity <= IF t.offset = "Open" <=> t.direction = "Buy"
                      THEN Held.long ELSE Held.short
  BY <1>1, <1>2 DEF Overcloses, Side, Opens, Position
<1> QED BY <1>1, <1>2, <1>4, <1>5, <1>6, <1>7

\* An exit after an opening trade is against it, and for its signal.
LEMMA ExitOpened ==
  ASSUME exit \in Exit, NEW o \in Orders, NEW t, exit' = ExitAfterOpen(o, t)
  PROVE  /\ exit'.pending /\ exit'.active = exit.active /\ exit'.id = exit.id
         /\ exit'.signal = records[o].intent.signal
         /\ exit'.direction = Opposite(t.direction) /\ exit'.attempt = exit.attempt
BY DEF ExitAfterOpen, Exit

\* A trade opens lots of the signal of the exit, or closes lots it is for.
LEMMA ExitTradeStep ==
  ASSUME AccountInv, Thawed, OrdersInv, ExitInv, ReceiveTrade, frozen => frozen'
  PROVE  ExitInv'
<1>1. /\ \/ \E o \in Records : \E t \in Trade :
              t = Head(trades) /\ TakesTrade(o, t)
         \/ exit' = exit /\ (book' = book \/ frozen')
      /\ SameIntents /\ exit \in Exit
  BY TradeKinds DEF AccountInv, SessionTypes
<1>2. Grows
  BY <1>1 DEF SameIntents, Grows, Records
<1>3. CASE exit' = exit /\ (book' = book \/ frozen')
  <2>1. CASE book' = book
    BY <1>2, <1>3, <2>1, ExitStays DEF SameExit, Held
  <2>2. CASE frozen'
    <3>1. ExitHasEntry'
      <4>1. \A o \in Orders : EntryOf(o) => EntryOf(o)'
        BY <1>2, <1>3 DEF EntryOf, Grows
      <4> QED BY <1>3, <4>1 DEF ExitInv, ExitHasEntry
    <3> QED BY <1>3, <2>2, <3>1 DEF ExitInv, ExitIdle, LotsHaveAnExit
  <2> QED BY <1>3, <2>1, <2>2
<1>4. ASSUME NEW o \in Records, NEW t \in Trade, TakesTrade(o, t) PROVE ExitInv'
  <2>1. /\ o \in Orders /\ t.offset = records[o].intent.offset
        /\ t.direction = records[o].intent.direction
        /\ records[o].intent \in Intent
    BY <1>4 DEF TakesTrade, Records, AccountInv, SessionTypes, Record
  <2>2. t.offset \in Offsets /\ t.direction \in Directions
        /\ exit.direction \in Directions
    BY <1>1, <2>1 DEF Intent, Exit
  <2>3. CASE t.offset = "Open" /\ ~Incompatible(o)
    <3>1. exit' = ExitAfterOpen(o, t)
      BY <1>4, <2>3 DEF TakesTrade
    <3>2. /\ exit'.pending /\ exit'.active = exit.active /\ exit'.id = exit.id
          /\ exit'.signal = records[o].intent.signal
          /\ exit'.direction = Opposite(t.direction)
      BY <1>1, <2>1, <3>1, ExitOpened
    <3>3. records[o].intent.purpose = "Entry"
      BY <2>1, <2>3 DEF OrdersInv, PurposeIsOffset
    <3>4. EntryOf(o)'
      <4>1. t.direction = Opposite(exit'.direction)
        BY <2>2, <3>2 DEF Opposite, Directions
      <4> QED BY <1>2, <2>1, <3>2, <3>3, <4>1 DEF EntryOf, Grows
    <3>5. ExitHasEntry'
      BY <2>1, <3>4 DEF ExitHasEntry
    <3>6. LotsHaveAnExit'
      <4> SUFFICES ASSUME ~frozen' PROVE Closable' > 0 /\ (Held'.long = 0 \/ Held'.short = 0)
        BY <3>2 DEF LotsHaveAnExit
      <4>1. Held.long \in Nat /\ Held.short \in Nat
        BY <1>4, <2>1, HeldAfterTrade DEF Position
      <4>2. Closable' = IF t.direction = "Buy" THEN Held'.long ELSE Held'.short
        BY <2>2, <3>2 DEF Closable, Opposite, Directions
      <4>3. /\ t.quantity \in Nat /\ t.quantity > 0
            /\ t.direction = "Buy" => /\ Held'.long = Held.long + t.quantity
                                      /\ Held'.short = Held.short
            /\ t.direction # "Buy" => /\ Held'.long = Held.long
                                      /\ Held'.short = Held.short + t.quantity
        BY <1>4, <2>1, <2>3, HeldAfterTrade
      <4>4. IF t.direction = "Buy" THEN Held.short = 0 ELSE Held.long = 0
        <5>1. CASE exit.pending \/ exit.active
          <6>1. exit.signal = records[o].intent.signal
            BY <2>3, <5>1 DEF Incompatible
          <6>2. PICK e \in Orders : EntryOf(e)
            BY <5>1 DEF ExitInv, ExitHasEntry
          <6>3. e = o
            BY <1>4, <3>3, <6>1, <6>2 DEF EntryOf, OrdersInv, KeysApart, SameKeyAs, PurposeIsOffset
          <6>4. t.direction = Opposite(exit.direction)
            BY <2>1, <6>2, <6>3 DEF EntryOf
          <6>5. Closable > 0 /\ (Held.long = 0 \/ Held.short = 0)
            BY <5>1 DEF ExitInv, LotsHaveAnExit
          <6> QED BY <2>2, <4>1, <6>4, <6>5 DEF Closable, Opposite, Directions
        <5>2. CASE ~(exit.pending \/ exit.active)
          BY <5>2 DEF ExitInv, LotsHaveAnExit, Flat
        <5> QED BY <5>1, <5>2
      <4> QED BY <4>1, <4>2, <4>3, <4>4
    <3> QED BY <3>2, <3>5, <3>6 DEF ExitInv, ExitIdle
  <2>4. CASE t.offset = "Open" /\ Incompatible(o)
    <3>1. exit' = exit /\ frozen'
      BY <1>4, <2>4 DEF TakesTrade
    <3>2. \A p \in Orders : EntryOf(p) => EntryOf(p)'
      BY <1>2, <3>1 DEF EntryOf, Grows
    <3> QED BY <3>1, <3>2 DEF ExitInv, ExitIdle, ExitHasEntry, LotsHaveAnExit
  <2>5. CASE t.offset # "Open" /\ Flat(Held')
    <3>1. exit' = NoExit
      BY <1>4, <2>5 DEF TakesTrade
    <3> QED BY <2>5, <3>1 DEF ExitInv, ExitIdle, ExitHasEntry, LotsHaveAnExit, NoExit
  <2>6. CASE t.offset # "Open" /\ ~Flat(Held')
    <3>1. exit' = exit
      BY <1>4, <2>6 DEF TakesTrade
    <3>2. ExitHasEntry'
      <4>1. \A p \in Orders : EntryOf(p) => EntryOf(p)'
        BY <1>2, <3>1 DEF EntryOf, Grows
      <4> QED BY <3>1, <4>1 DEF ExitInv, ExitHasEntry
    <3>3. LotsHaveAnExit'
      <4> SUFFICES ASSUME ~frozen' PROVE LotsHaveAnExit'
        BY DEF LotsHaveAnExit
      <4> DEFINE long == t.direction # "Buy"
      <4>1. /\ Held.long \in Nat /\ Held.short \in Nat
            /\ t.quantity \in Nat /\ t.quantity > 0
            /\ long => /\ Held'.long = Held.long - t.quantity
                       /\ Held'.short = Held.short /\ t.quantity <= Held.long
            /\ ~long => /\ Held'.long = Held.long /\ t.quantity <= Held.short
                        /\ Held'.short = Held.short - t.quantity
        BY <1>4, <2>1, <2>6, HeldAfterTrade DEF Position
      <4>2. exit.pending \/ exit.active
        BY <4>1 DEF ExitInv, LotsHaveAnExit, Flat
      <4>3. Closable > 0 /\ (Held.long = 0 \/ Held.short = 0)
        BY <4>2 DEF ExitInv, LotsHaveAnExit
      <4>4. Held'.long > 0 \/ Held'.short > 0
        BY <2>6, <4>1 DEF Flat
      <4>5. Closable' > 0 /\ (Held'.long = 0 \/ Held'.short = 0)
        BY <3>1, <4>1, <4>3, <4>4 DEF Closable
      <4> QED BY <3>1, <4>2, <4>5 DEF LotsHaveAnExit
    <3> QED BY <3>1, <3>2, <3>3 DEF ExitInv, ExitIdle
  <2> QED BY <2>3, <2>4, <2>5, <2>6
<1> QED BY <1>1, <1>3, <1>4

\* While lots and exits go together, on_market drops no exit.
LEMMA NoneDropped == AccountInv /\ ExitInv => ~DropsExit
BY DEF DropsExit, ExitDue, ExitInv, LotsHaveAnExit

\* Every step keeps lots and exits together.
LEMMA ExitStep ==
  ASSUME AccountInv, Thawed, OrdersInv, ExitInv, [Next]_vars PROVE ExitInv'
<1>1. frozen => frozen'
  BY StepKinds
<1>2. CASE EntersOrder
  <2>1. PICK intent \in plan.entries : \E code \in SubmitCodes(intent) :
          SubmitOrder(intent, code)
    BY <1>2 DEF EntersOrder
  <2>2. Held' = Held /\ Grows
    BY <2>1, IntentsOfCalls, SubmitMovesNoLots
  <2> QED BY <1>1, <1>2, <2>2, ExitStays DEF EntersOrder, SameExit
<1>3. CASE DropsExit \/ SubmitExit
  BY <1>1, <1>3, NoneDropped, ExitSubmitStep
<1>4. CASE CancelsOrder
  <2>1. SameLots(book, book')
    BY <1>4, CancelSameLots DEF CancelsOrder
  <2>2. Held' = Held /\ Grows
    BY <1>4, <2>1 DEF CancelsOrder, SameLots, Held, SameIntents, Grows, Records
  <2> QED BY <1>1, <1>4, <2>2, ExitStays DEF CancelsOrder
<1>5. CASE Waits
  <2>1. Held' = Held /\ Grows
    BY <1>5 DEF Waits, Held, SameIntents, Grows, Records
  <2> QED BY <1>1, <1>5, <2>1, ExitStays DEF Waits
<1>6. CASE ReceiveReport
  BY <1>1, <1>6, ExitReportStep
<1>7. CASE ReceiveTrade
  BY <1>1, <1>7, ExitTradeStep
<1>8. ASSUME NEW o \in Orders, CounterStep(o) PROVE ExitInv'
  <2>1. UNCHANGED <<book, records, exit, frozen>>
    BY <1>8 DEF CounterStep, CounterAccept, CounterReject, CounterFill,
                CounterCancel, CounterRefuse, account
  <2>2. Held' = Held /\ Grows /\ SameExit
    BY <2>1 DEF Held, Grows, Records, SameExit
  <2> QED BY <1>1, <2>2, ExitStays
<1> QED BY <1>2, <1>3, <1>4, <1>5, <1>6, <1>7, <1>8, StepKinds

\* At first there are neither.
LEMMA ExitInit == Init => ExitInv
<1> SUFFICES ASSUME Init PROVE ExitInv
  OBVIOUS
<1>1. exit = NoExit /\ book = EmptyBook
  BY DEF Init, NothingYet
<1>2. Held = NoPosition
  BY <1>1, SessionAssumption DEF Held, EmptyBook
<1> QED BY <1>1, <1>2 DEF ExitInv, ExitIdle, ExitHasEntry, LotsHaveAnExit, NoExit,
                          NoPosition, Flat

\* The invariant of lots and exits, with the one of the orders it rests on
THEOREM AlwaysExitInv == Spec => [](AccountInv /\ Thawed /\ OrdersInv /\ ExitInv)
<1>1. AccountInv /\ Thawed /\ OrdersInv /\ ExitInv /\ [Next]_vars => ExitInv'
  BY ExitStep
<1> QED BY <1>1, ExitInit, AlwaysOrdersInv, PTL DEF Spec

\* For any entries, quantities and limits: an account that is not frozen holds
\* lots of one side exactly while it has an exit for them, due or at the counter,
\* whatever the order in which reports and trades come (drain_callbacks,
\* apply_trade_effect).
THEOREM LotsKeepAnExit == Spec => []LotsHaveAnExit
<1>1. ExitInv => LotsHaveAnExit
  BY DEF ExitInv
<1> QED BY <1>1, AlwaysExitInv, PTL

\* Only a trade that counts raises what an order has accounted for.
LEMMA CountsByTrade ==
  ASSUME AccountInv, Thawed, OrdersInv, [Next]_vars,
         NEW o \in Orders, book'.orders[o].accounted > book.orders[o].accounted
  PROVE  \/ o \in Records /\ \E t \in Trade : TakesTrade(o, t)
         \/ frozen'
<1>1. SoundBook(book) /\ book.orders[o].accounted \in Nat
  BY DEF AccountInv, SessionTypes, SoundBook, Book, Order
<1>2. ASSUME book'.orders[o].accounted = book.orders[o].accounted PROVE FALSE
  BY <1>1, <1>2
<1>3. ASSUME NEW intent \in Intent, NEW code \in SubmitCodes(intent),
             SubmitOrder(intent, code)
      PROVE  FALSE
  <2>1. CASE UNCHANGED <<book, records, counter>>
    BY <1>2, <2>1
  <2>2. ASSUME NEW id \in Orders, AddsOrder(id, intent, code) PROVE FALSE
    <3>1. CASE o = id
      <4>1. book'.orders[o].accounted = 0
        BY <2>2, <3>1 DEF AddsOrder
      <4> QED BY <1>1, <4>1
    <3>2. CASE o # id
      <4>1. book'.orders[o].accounted = book.orders[o].accounted
        BY <2>2, <3>2 DEF AddsOrder
      <4> QED BY <1>2, <4>1
    <3> QED BY <3>1, <3>2
  <2> QED BY <1>3, <2>1, <2>2, SubmitAdds
<1>4. ~EntersOrder /\ ~SubmitExit
  BY <1>3, IntentsOfCalls DEF EntersOrder, SubmitExit
<1>5. ~CancelsOrder
  BY <1>2, CancelSameLots DEF CancelsOrder, SameLots
<1>6. ~DropsExit /\ ~Waits
  BY <1>2 DEF DropsExit, Waits
<1>7. ~ReceiveReport
  BY <1>2, ReportKinds DEF SameLots
<1>8. \A p \in Orders : ~CounterStep(p)
  <2> SUFFICES ASSUME NEW p \in Orders, CounterStep(p) PROVE FALSE
    OBVIOUS
  <2>1. book' = book
    BY DEF CounterStep, CounterAccept, CounterReject, CounterFill,
           CounterCancel, CounterRefuse, account
  <2> QED BY <1>2, <2>1
<1>9. ReceiveTrade
  BY <1>4, <1>5, <1>6, <1>7, <1>8, StepKinds
<1>10. CASE book' = book
  BY <1>2, <1>10
<1>11. ASSUME NEW p \in Records, NEW t \in Trade, TakesTrade(p, t)
       PROVE  o \in Records /\ TakesTrade(o, t)
  <2>1. book' = RecordTrade(book, t) /\ t.id = p
    BY <1>11 DEF TakesTrade
  <2>2. o # p => book'.orders[o] = book.orders[o]
    BY <1>1, <2>1 DEF RecordTrade, SoundBook, Book
  <2> QED BY <1>2, <1>11, <2>2
<1> QED BY <1>9, <1>10, <1>11, TradeKinds

\* For any entries and quantities: an account that holds lots and is not frozen
\* takes no lots of another signal than that of its exit (apply_trade_effect).
THEOREM LotsAreOfOneSignal == Spec => LotsOfOneSignal
<1> DEFINE OneSignal ==
      \A o \in Records :
        /\ records[o].intent.purpose = "Entry"
        /\ book'.orders[o].accounted > book.orders[o].accounted
        /\ ~frozen'
        => Flat(Held) \/ exit.signal = records[o].intent.signal
<1>1. AccountInv /\ Thawed /\ OrdersInv /\ ExitInv /\ [Next]_vars => [OneSignal]_vars
  <2> SUFFICES ASSUME AccountInv, Thawed, OrdersInv, ExitInv, [Next]_vars,
                      NEW o \in Records, records[o].intent.purpose = "Entry",
                      book'.orders[o].accounted > book.orders[o].accounted,
                      ~frozen'
               PROVE  Flat(Held) \/ exit.signal = records[o].intent.signal
    OBVIOUS
  <2>1. o \in Orders
    BY DEF Records
  <2>2. PICK t \in Trade : TakesTrade(o, t)
    BY <2>1, CountsByTrade
  <2>3. t.offset = "Open"
    BY <2>2 DEF TakesTrade, OrdersInv, PurposeIsOffset
  <2>4. ~Incompatible(o) /\ ~frozen
    BY <2>2, <2>3, StepKinds DEF TakesTrade
  <2> QED BY <2>4 DEF Incompatible, ExitInv, LotsHaveAnExit
<1> QED BY <1>1, AlwaysExitInv, PTL DEF Spec, LotsOfOneSignal

-----------------------------------------------------------------------------
(* One exit order of a signal *)

\* The counter says of no order that it is canceled before it is.
CancelsAreTrue ==
  \A i \in 1 .. Len(reports) :
    reports[i].kind = "Order" /\ reports[i].type = "Canceled"
      => counter[reports[i].id].status = "Canceled"

ExitRecord(o, signal) ==
  /\ o \in Records
  /\ records[o].intent.purpose = "Exit" /\ records[o].intent.signal = signal

\* Attempts at an exit begin with the one numbered 0.
FirstExits ==
  \A o \in Orders, signal \in Nat : ExitRecord(o, signal) =>
    \E p \in Orders : ExitRecord(p, signal) /\ records[p].intent.attempt = 0

\* The exit order the session waits for is one of the exit.
ActiveIsExit == exit.active => ExitRecord(exit.id, exit.signal)

LiveExit(o) == ExitRecord(o, exit.signal) /\ Live(o)

\* While the account is not frozen, the only exit order of the signal at the
\* counter is the one the session waits for. Before the first attempt there may
\* be a forgotten one, but then the attempt is a duplicate.
ExitAlone ==
  ~frozen =>
    /\ exit.active => \A o \in Orders : LiveExit(o) => o = exit.id
    /\ ~exit.active /\ exit.attempt > 0 => \A o \in Orders : ~LiveExit(o)
    /\ exit.active \/ exit.attempt > 0 => \E o \in Orders : ExitRecord(o, exit.signal)
    /\ ~exit.active /\ ~exit.pending => exit.attempt = 0

OneExitInv ==
  CancelsAreTrue /\ FirstExits /\ ActiveIsExit /\ ExitAlone /\ OneExitOrder

\* Orders live at the counter were so before, and stay canceled.
NoneRevived ==
  \A p \in Orders :
    /\ counter[p].status = "Canceled" => counter'[p].status = "Canceled"
    /\ Live(p)' => Live(p)

\* A step that neither enters an order nor changes the exit
LEMMA OneExitStays ==
  ASSUME AccountInv, OneExitInv, SameExit, SameIntents, frozen => frozen',
         NoneRevived, CancelsAreTrue'
  PROVE  OneExitInv'
<1>1. Records' = Records /\ \A o \in Orders : records'[o].intent = records[o].intent
  BY DEF SameIntents, Records
<1>2. \A o \in Orders : \A signal : ExitRecord(o, signal)' <=> ExitRecord(o, signal)
  BY <1>1 DEF ExitRecord
<1>3. FirstExits'
  BY <1>1, <1>2 DEF OneExitInv, FirstExits
<1>4. ActiveIsExit'
  BY <1>1 DEF OneExitInv, ActiveIsExit, ExitRecord, SameExit, Records
<1>5. \A o \in Orders : LiveExit(o)' => LiveExit(o)
  BY <1>1 DEF LiveExit, ExitRecord, NoneRevived, SameExit
<1>6. \A o \in Orders : ExitRecord(o, exit.signal) => ExitRecord(o, exit.signal)'
  BY <1>1 DEF ExitRecord, SameExit
<1>7. ExitAlone'
  BY <1>5, <1>6 DEF OneExitInv, ExitAlone, SameExit
<1>8. OneExitOrder'
  BY <1>1 DEF OneExitInv, OneExitOrder, NoneRevived
<1> QED BY <1>3, <1>4, <1>7, <1>8 DEF OneExitInv

\* A message put at the end that is true keeps the others so.
LEMMA CancelsAppended ==
  ASSUME AccountInv, OneExitInv, NoneRevived, NEW m \in Message,
         reports' = Append(reports, m),
         m.kind = "Order" /\ m.type = "Canceled" => counter'[m.id].status = "Canceled"
  PROVE  CancelsAreTrue'
<1>1. reports \in Seq(Message)
  BY DEF AccountInv, SessionTypes
<1>2. /\ Len(reports') = Len(reports) + 1
      /\ \A i \in 1 .. Len(reports) : reports'[i] = reports[i]
      /\ reports'[Len(reports) + 1] = m
  BY <1>1
<1>3. \A i \in 1 .. Len(reports) : reports[i] \in Message
  BY <1>1
<1>4. ASSUME NEW i \in 1 .. Len(reports')
      PROVE  reports'[i].kind = "Order" /\ reports'[i].type = "Canceled"
               => counter'[reports'[i].id].status = "Canceled"
  <2>1. CASE i \in 1 .. Len(reports)
    BY <1>2, <1>3, <2>1 DEF OneExitInv, CancelsAreTrue, NoneRevived, Message
  <2>2. CASE i = Len(reports) + 1
    BY <1>2, <2>2
  <2>3. Len(reports) \in Nat
    BY <1>1
  <2> QED BY <1>2, <2>1, <2>2, <2>3
<1> QED BY <1>4 DEF CancelsAreTrue

\* The counter sends one message at a time, and cancels before it says so.
LEMMA CounterSays ==
  ASSUME AccountInv, NEW o \in Orders, CounterStep(o)
  PROVE  \E m \in Message :
           /\ reports' = Append(reports, m) /\ m.id = o
           /\ m.kind = "Order" /\ m.type = "Canceled"
                => counter'[o].status = "Canceled"
<1>1. /\ counter \in [Orders -> CounterOrder] /\ records[o].intent \in Intent
      /\ counter[o].filled \in Nat
  BY DEF AccountInv, SessionTypes, CounterOrder, Record
<1>2. ASSUME NEW kind \in {"Order", "CancelResponse"}, NEW type \in ReportTypes,
             NEW cum \in Nat
      PROVE  /\ Report(o, kind, type, cum) \in Message
             /\ Report(o, kind, type, cum).id = o
             /\ Report(o, kind, type, cum).type = type
  BY DEF Report, Message
<1>3. {"Accepted", "Rejected", "Canceled", "Filled", "PartiallyFilled",
       "CancelRejected"} \subseteq ReportTypes
  BY DEF ReportTypes
<1>4. CASE CounterCancel(o)
  <2>1. counter' = [counter EXCEPT ![o].status = "Canceled", ![o].asked = FALSE]
    BY <1>4 DEF CounterCancel
  <2>2. counter'[o].status = "Canceled"
    BY <1>1, <2>1 DEF CounterOrder
  <2>3. reports' = Append(reports, Report(o, "Order", "Canceled", counter[o].filled))
    BY <1>4 DEF CounterCancel, Send
  <2> QED BY <1>1, <1>2, <1>3, <2>2, <2>3
<1>5. CASE ~CounterCancel(o)
  <2>1. \E kind \in {"Order", "CancelResponse"} : \E type \in ReportTypes \ {"Canceled"} :
          \E cum \in Nat : reports' = Append(reports, Report(o, kind, type, cum))
    <3>1. CASE CounterFill(o)
      <4>1. PICK cum \in (counter[o].filled + 1) .. Quantity(o) :
              reports' = Append(reports, Report(o, "Order",
                IF cum = Quantity(o) THEN "Filled" ELSE "PartiallyFilled", cum))
        BY <3>1 DEF CounterFill, Send
      <4>2. cum \in Nat
        BY <1>1 DEF Quantity, Intent
      <4>3. PICK type \in ReportTypes \ {"Canceled"} :
              type = IF cum = Quantity(o) THEN "Filled" ELSE "PartiallyFilled"
        BY <1>3
      <4> QED BY <4>1, <4>2, <4>3
    <3>2. CASE CounterAccept(o)
      BY <1>1, <1>3, <3>2 DEF CounterAccept, Send
    <3>3. CASE CounterReject(o)
      BY <1>3, <3>3 DEF CounterReject, Send
    <3>4. CASE CounterRefuse(o)
      BY <1>1, <1>3, <3>4 DEF CounterRefuse, Send
    <3> QED BY <1>5, <3>1, <3>2, <3>3, <3>4 DEF CounterStep
  <2> QED BY <1>2, <2>1
<1> QED BY <1>4, <1>5

\* The records an order is added to, with the exit as it was or sent
LEMMA ExitRecordsAdded ==
  ASSUME AccountInv, NEW id \in Orders, NEW intent \in Intent, NEW code,
         AddsOrder(id, intent, code)
  PROVE  /\ \A o \in Orders : \A signal :
              ExitRecord(o, signal)' <=>
                \/ ExitRecord(o, signal)
                \/ o = id /\ intent.purpose = "Exit" /\ intent.signal = signal
         /\ \A o \in Orders : ExitRecord(o, exit.signal)  => o # id
         /\ \A o \in Orders \ {id} : /\ records'[o] = records[o]
                                     /\ counter'[o] = counter[o]
         /\ Live(id)' => Live(id) \/ code = "Submitted"
<1>1. counter \in [Orders -> CounterOrder]
  BY DEF AccountInv, SessionTypes
<1> QED BY <1>1 DEF AddsOrder, ExitRecord, Records, Live

\* submit for an entry
LEMMA OneExitEntered ==
  ASSUME AccountInv, OrdersInv, OneExitInv, EntersOrder PROVE OneExitInv'
<1>1. PICK intent \in plan.entries : \E code \in SubmitCodes(intent) :
        SubmitOrder(intent, code)
  BY DEF EntersOrder
<1>2. PICK code \in SubmitCodes(intent) : SubmitOrder(intent, code)
  BY <1>1
<1>3. intent \in Intent /\ intent.purpose = "Entry"
  BY IntentsOfCalls
<1>4. reports' = reports /\ UNCHANGED <<exit, frozen>> /\ reports \in Seq(Message)
      /\ counter \in [Orders -> CounterOrder]
  BY <1>2 DEF EntersOrder, SubmitOrder, AccountInv, SessionTypes
<1>5. CASE UNCHANGED <<book, records, counter>>
  BY <1>4, <1>5, OneExitStays
  DEF SameExit, SameIntents, NoneRevived, Live, OneExitInv, CancelsAreTrue
<1>6. ASSUME NEW id \in Orders, AddsOrder(id, intent, code) PROVE OneExitInv'
  <2>1. /\ \A o \in Orders : \A signal : ExitRecord(o, signal)' <=> ExitRecord(o, signal)
        /\ \A o \in Orders \ {id} : /\ records'[o] = records[o]
                                    /\ counter'[o] = counter[o]
    BY <1>3, <1>6, ExitRecordsAdded
  <2>2. /\ id \notin Records /\ counter[id].status = "None"
        /\ records'[id].intent.purpose = "Entry"
    BY <1>3, <1>6 DEF AddsOrder, OrdersInv, OnlyRecords
  <2>3. CancelsAreTrue'
    <3> SUFFICES ASSUME NEW i \in 1 .. Len(reports), reports[i].kind = "Order",
                        reports[i].type = "Canceled"
                 PROVE  counter'[reports[i].id].status = "Canceled"
      BY <1>4 DEF CancelsAreTrue
    <3>1. reports[i] \in Message
      BY <1>4
    <3>2. reports[i].id \in Orders /\ counter[reports[i].id].status = "Canceled"
      BY <3>1 DEF Message, OneExitInv, CancelsAreTrue
    <3> QED BY <2>1, <2>2, <3>2
  <2>4. FirstExits'
    <3>1. ASSUME NEW o \in Orders, NEW signal \in Nat, ExitRecord(o, signal)'
          PROVE  \E p \in Orders : ExitRecord(p, signal)' /\ records'[p].intent.attempt = 0
      <4>1. PICK p \in Orders : ExitRecord(p, signal) /\ records[p].intent.attempt = 0
        BY <2>1, <3>1 DEF OneExitInv, FirstExits
      <4>2. p # id
        BY <2>2, <4>1 DEF ExitRecord
      <4> QED BY <2>1, <4>1, <4>2
    <3> QED BY <3>1 DEF FirstExits
  <2>5. ActiveIsExit'
    <3>1. exit.active => exit.id \in Orders
      BY DEF AccountInv, SessionTypes
    <3>2. exit.active => ExitRecord(exit.id, exit.signal) /\ exit.id \in Orders \ {id}
      BY <2>2, <3>1 DEF OneExitInv, ActiveIsExit, ExitRecord
    <3>3. \A o \in Orders \ {id} : o \in Records' <=> o \in Records
      BY <2>1 DEF Records
    <3> QED BY <1>4, <2>1, <3>2, <3>3 DEF ActiveIsExit, ExitRecord
  <2>6. \A o \in Orders : LiveExit(o)' => LiveExit(o)
    <3> SUFFICES ASSUME NEW o \in Orders, LiveExit(o)' PROVE LiveExit(o)
      OBVIOUS
    <3>1. ExitRecord(o, exit.signal)
      <4>1. ExitRecord(o, exit.signal)'
        BY DEF LiveExit
      <4>2. ExitRecord(o, exit.signal)' <=> ExitRecord(o, exit.signal)
        BY <1>4, <2>1 DEF ExitRecord
      <4> QED BY <4>1, <4>2
    <3>2. o # id
      BY <2>2, <3>1 DEF ExitRecord
    <3> QED BY <2>1, <3>1, <3>2 DEF LiveExit, Live
  <2>7. ExitAlone'
    <3>1. \A o \in Orders : ExitRecord(o, exit.signal) => ExitRecord(o, exit.signal)'
      BY <1>4, <2>1 DEF ExitRecord
    <3> QED BY <1>4, <2>6, <3>1 DEF OneExitInv, ExitAlone
  <2>8. OneExitOrder'
    <3>1. \A o \in Orders : Live(o)' /\ records'[o].intent.purpose = "Exit"
                              => o # id
      BY <2>2
    <3> QED BY <2>1, <3>1 DEF OneExitInv, OneExitOrder, Live
  <2> QED BY <2>3, <2>4, <2>5, <2>7, <2>8 DEF OneExitInv
<1> QED BY <1>2, <1>3, <1>5, <1>6, SubmitAdds

\* on_market sends an exit order where none of the signal is live: a forgotten
\* one has the key of the first attempt, which makes that a duplicate.
LEMMA OneExitSubmitted ==
  ASSUME AccountInv, Thawed, OrdersInv, OneExitInv, SubmitExit PROVE OneExitInv'
<1>1. PICK code \in SubmitCodes(ExitIntent) :
        /\ SubmitOrder(ExitIntent, code)
        /\ exit' = IF code = "Submitted" THEN ExitSubmitted ELSE exit
        /\ code # "Submitted" => frozen'
  <2>1. PICK code \in SubmitCodes(ExitIntent) :
          /\ SubmitOrder(ExitIntent, code)
          /\ exit' = IF code = "Submitted" THEN ExitSubmitted ELSE exit
          /\ \E reason : SetFaults(If(code # "Submitted", reason))
    BY DEF SubmitExit
  <2>2. code # "Submitted" => frozen'
    BY <2>1, SessionFaults DEF If
  <2> QED BY <2>1, <2>2
<1>2. /\ ExitIntent \in Intent /\ ExitIntent.purpose = "Exit"
      /\ ExitIntent.signal = exit.signal /\ ExitIntent.attempt = exit.attempt
      /\ exit \in Exit /\ exit.signal \in Nat /\ exit.attempt \in Nat
  BY IntentsOfCalls DEF AccountInv, SessionTypes, Exit
<1>3. reports' = reports /\ reports \in Seq(Message)
      /\ counter \in [Orders -> CounterOrder]
  BY <1>1 DEF SubmitOrder, AccountInv, SessionTypes
<1>4. ~frozen /\ exit.pending /\ ~exit.active
  BY DEF SubmitExit, ExitDue
<1>5. ASSUME UNCHANGED <<book, records, counter>>, code # "Submitted"
      PROVE  OneExitInv'
  BY <1>1, <1>3, <1>4, <1>5, OneExitStays
  DEF SameExit, SameIntents, NoneRevived, Live, OneExitInv, CancelsAreTrue
<1>6. ASSUME NEW id \in Orders, AddsOrder(id, ExitIntent, code) PROVE OneExitInv'
  <2>1. /\ \A o \in Orders : \A signal :
             ExitRecord(o, signal)' <=>
               ExitRecord(o, signal) \/ (o = id /\ exit.signal = signal)
        /\ \A o \in Orders \ {id} : /\ records'[o] = records[o]
                                    /\ counter'[o] = counter[o]
        /\ Live(id)' => Live(id) \/ code = "Submitted"
    BY <1>2, <1>6, ExitRecordsAdded
  <2>2. /\ id \notin Records /\ counter[id].status = "None"
        /\ records'[id].intent = ExitIntent /\ SameSignal(ExitIntent) = {}
    BY <1>6 DEF AddsOrder, OrdersInv, OnlyRecords
  <2>3. CancelsAreTrue'
    <3> SUFFICES ASSUME NEW i \in 1 .. Len(reports), reports[i].kind = "Order",
                        reports[i].type = "Canceled"
                 PROVE  counter'[reports[i].id].status = "Canceled"
      BY <1>3 DEF CancelsAreTrue
    <3>1. reports[i] \in Message
      BY <1>3
    <3>2. reports[i].id \in Orders /\ counter[reports[i].id].status = "Canceled"
      BY <3>1 DEF Message, OneExitInv, CancelsAreTrue
    <3> QED BY <2>1, <2>2, <3>2
  <2>4. \A o \in Orders : ExitRecord(o, exit.signal)
                            => records[o].intent.attempt # exit.attempt
    BY <1>2, <2>2 DEF SameSignal, ExitRecord
  <2>5. exit.attempt = 0 => \A o \in Orders : ~ExitRecord(o, exit.signal)
    BY <1>2, <2>4 DEF OneExitInv, FirstExits
  <2>6. \A o \in Orders : ~LiveExit(o)
    BY <1>2, <1>4, <2>5 DEF OneExitInv, ExitAlone, LiveExit
  <2>7. FirstExits'
    <3>1. ASSUME NEW o \in Orders, NEW signal \in Nat, ExitRecord(o, signal)
          PROVE  \E p \in Orders : ExitRecord(p, signal)' /\ records'[p].intent.attempt = 0
      <4>1. PICK p \in Orders : ExitRecord(p, signal) /\ records[p].intent.attempt = 0
        BY <3>1 DEF OneExitInv, FirstExits
      <4>2. p # id
        BY <2>2, <4>1 DEF ExitRecord
      <4> QED BY <2>1, <4>1, <4>2
    <3>4. PICK mine \in Nat : mine = exit.signal
      BY <1>2
    <3>2. \E p \in Orders : ExitRecord(p, mine)' /\ records'[p].intent.attempt = 0
      <4>1. ExitRecord(id, mine)'
        BY <2>1, <3>4
      <4>2. CASE exit.attempt = 0
        BY <1>2, <2>2, <4>1, <4>2
      <4>3. CASE exit.attempt > 0
        <5>1. PICK o \in Orders : ExitRecord(o, mine)
          BY <1>4, <3>4, <4>3 DEF OneExitInv, ExitAlone
        <5> QED BY <3>1, <5>1
      <4> QED BY <1>2, <4>2, <4>3
    <3>3. ASSUME NEW o \in Orders, NEW signal \in Nat, ExitRecord(o, signal)'
          PROVE  \E p \in Orders : ExitRecord(p, signal)' /\ records'[p].intent.attempt = 0
      <4>1. CASE ExitRecord(o, signal)
        BY <3>1, <4>1
      <4>2. CASE signal = mine
        BY <3>2, <4>2
      <4> QED BY <2>1, <3>3, <3>4, <4>1, <4>2
    <3> QED BY <3>3 DEF FirstExits
  <2>8. OneExitOrder'
    <3> SUFFICES ASSUME NEW o \in Orders, NEW p \in Orders,
                        Live(o)', records'[o].intent.purpose = "Exit",
                        Live(p)', records'[p].intent.purpose = "Exit",
                        records'[o].intent.signal = records'[p].intent.signal
                 PROVE  o = p
      BY DEF OneExitOrder
    <3>1. \A q \in Orders \ {id} :
            Live(q)' /\ records'[q].intent.purpose = "Exit"
              => /\ Live(q) /\ records[q].intent.purpose = "Exit"
                 /\ records[q].intent.signal = records'[q].intent.signal
                 /\ q \in Records
      BY <2>1 DEF Live, OrdersInv, OnlyRecords
    <3>2. \A q \in Orders \ {id} :
            Live(q)' /\ records'[q].intent.purpose = "Exit"
              => records'[q].intent.signal # exit.signal
      BY <2>6, <3>1 DEF LiveExit, ExitRecord
    <3>3. records'[id].intent.signal = exit.signal
      BY <1>2, <2>2
    <3> QED BY <3>1, <3>2, <3>3 DEF OneExitInv, OneExitOrder
  <2>9. CASE code = "Submitted"
    <3>1. /\ ~exit'.pending /\ exit'.active /\ exit'.id = id
          /\ exit'.signal = exit.signal /\ exit'.attempt = exit.attempt
      BY <1>1, <1>2, <1>6, <2>9, ExitSent DEF AddsOrder
    <3>2. \A o \in Orders : LiveExit(o)' => o = id
      <4> SUFFICES ASSUME NEW o \in Orders, LiveExit(o)', o # id PROVE FALSE
        OBVIOUS
      <4>1. ExitRecord(o, exit.signal) /\ Live(o)
        BY <2>1, <3>1 DEF LiveExit, ExitRecord, Live, Records
      <4> QED BY <2>6, <4>1 DEF LiveExit
    <3>3. ExitRecord(id, exit.signal)'
      BY <1>2, <1>6, <2>2, <3>1 DEF ExitRecord, AddsOrder, Records
    <3>4. ActiveIsExit' /\ ExitAlone'
      BY <3>1, <3>2, <3>3 DEF ActiveIsExit, ExitAlone, ExitRecord
    <3> QED BY <2>3, <2>7, <2>8, <3>4 DEF OneExitInv
  <2>10. CASE code # "Submitted"
    <3>1. exit' = exit /\ frozen'
      BY <1>1, <2>10
    <3>2. ActiveIsExit' /\ ExitAlone'
      BY <1>4, <3>1 DEF ActiveIsExit, ExitAlone
    <3> QED BY <2>3, <2>7, <2>8, <3>2 DEF OneExitInv
  <2> QED BY <2>9, <2>10
<1> QED BY <1>1, <1>2, <1>5, <1>6, SubmitAdds

\* A canceled exit order is no longer live when the exit is due again.
LEMMA OneExitReported ==
  ASSUME AccountInv, Thawed, ExitInv, OneExitInv, ReceiveReport, frozen => frozen'
  PROVE  OneExitInv'
<1> DEFINE m == Head(reports)
<1>1. /\ exit' = exit \/ ExitReported(m)
      /\ SameLots(book, book') /\ SameIntents /\ m \in Message
      /\ reports \in Seq(Message) /\ reports # <<>> /\ reports' = Tail(reports)
      /\ counter' = counter /\ exit \in Exit
  BY ReportKinds DEF AccountInv, SessionTypes
<1>2. CancelsAreTrue' /\ m = reports[1] /\ 1 \in 1 .. Len(reports)
  <2>1. /\ Len(reports) \in Nat /\ Len(reports) > 0 /\ Len(reports') = Len(reports) - 1
        /\ \A i \in 1 .. Len(reports') : reports'[i] = reports[i + 1]
        /\ m = reports[1]
    BY <1>1
  <2>2. \A i \in 1 .. Len(reports') : i + 1 \in 1 .. Len(reports)
    BY <2>1
  <2> QED BY <1>1, <2>1, <2>2 DEF OneExitInv, CancelsAreTrue
<1>3. NoneRevived
  BY <1>1 DEF NoneRevived, Live
<1>4. CASE exit' = exit
  BY <1>1, <1>2, <1>3, <1>4, OneExitStays DEF SameExit
<1>5. CASE ExitReported(m)
  <2>1. /\ exit'.id = 0 /\ ~exit'.active /\ exit'.signal = exit.signal
        /\ exit.id = m.id /\ m.id \in Orders
        /\ counter[m.id].status = "Canceled"
    BY <1>1, <1>2, <1>5 DEF ExitReported, Message, OneExitInv, CancelsAreTrue
  <2>2. exit.active
    BY <2>1, SessionAssumption DEF ExitInv, ExitIdle
  <2>3. Records' = Records /\ \A o \in Orders : records'[o].intent = records[o].intent
    BY <1>1 DEF SameIntents, Records
  <2>4. \A o \in Orders : \A signal : ExitRecord(o, signal)' <=> ExitRecord(o, signal)
    BY <2>3 DEF ExitRecord
  <2>5. FirstExits' /\ ActiveIsExit'
    BY <2>1, <2>3, <2>4 DEF OneExitInv, FirstExits, ActiveIsExit
  <2>6. OneExitOrder'
    BY <1>1, <2>3 DEF OneExitInv, OneExitOrder, Live
  <2>7. ExitAlone'
    <3> SUFFICES ASSUME ~frozen' PROVE ExitAlone'
      BY DEF ExitAlone
    <3>1. \A o \in Orders : LiveExit(o) => o = exit.id
      BY <2>2 DEF OneExitInv, ExitAlone
    <3>2. \A o \in Orders : ~LiveExit(o)
      BY <2>1, <3>1 DEF LiveExit, Live
    <3>3. \A o \in Orders : ~LiveExit(o)'
      BY <1>1, <2>1, <2>3, <3>2 DEF LiveExit, ExitRecord, Live
    <3>4. \E o \in Orders : ExitRecord(o, exit.signal)'
      <4>1. PICK o \in Orders : ExitRecord(o, exit.signal)
        BY <2>2 DEF OneExitInv, ExitAlone
      <4> QED BY <2>1, <2>3, <4>1 DEF ExitRecord
    <3>5. exit'.pending
      <4>1. Closable' = Closable
        BY <1>1, <1>5 DEF Closable, Held, SameLots, ExitReported
      <4>2. Closable > 0
        BY <2>2 DEF ExitInv, LotsHaveAnExit
      <4> QED BY <1>5, <4>1, <4>2 DEF ExitReported
    <3> QED BY <2>1, <3>3, <3>4, <3>5 DEF ExitAlone
  <2> QED BY <1>2, <2>5, <2>6, <2>7 DEF OneExitInv
<1> QED BY <1>1, <1>4, <1>5

\* A trade begins an exit, at its first attempt, or ends it.
LEMMA OneExitTraded ==
  ASSUME AccountInv, Thawed, OrdersInv, ExitInv, OneExitInv, ReceiveTrade,
         frozen => frozen'
  PROVE  OneExitInv'
<1>1. /\ SameIntents /\ exit \in Exit /\ UNCHANGED <<reports, counter>>
      /\ Records' = Records /\ \A o \in Orders : records'[o].intent = records[o].intent
  BY TradeKinds DEF AccountInv, SessionTypes, ReceiveTrade, SameIntents, Records
<1>2. CancelsAreTrue' /\ NoneRevived
  BY <1>1 DEF OneExitInv, CancelsAreTrue, NoneRevived, Live
<1>3. CASE exit' = exit
  BY <1>1, <1>2, <1>3, OneExitStays DEF SameExit
<1>4. \A o \in Orders : \A signal : ExitRecord(o, signal)' <=> ExitRecord(o, signal)
  BY <1>1 DEF ExitRecord
<1>5. FirstExits'
  BY <1>1, <1>4 DEF OneExitInv, FirstExits
<1>6. OneExitOrder'
  BY <1>1 DEF OneExitInv, OneExitOrder, Live
<1>7. CASE exit' = NoExit
  <2>1. ActiveIsExit' /\ ExitAlone'
    BY <1>7 DEF ActiveIsExit, ExitAlone, NoExit
  <2> QED BY <1>2, <1>5, <1>6, <2>1 DEF OneExitInv
<1>8. ASSUME NEW o \in Orders, NEW t, ~Incompatible(o), exit' = ExitAfterOpen(o, t)
      PROVE  OneExitInv'
  <2>1. /\ exit'.pending /\ exit'.active = exit.active /\ exit'.id = exit.id
        /\ exit'.signal = records[o].intent.signal /\ exit'.attempt = exit.attempt
    BY <1>1, <1>8, ExitOpened
  <2>2. exit.pending \/ exit.active => exit'.signal = exit.signal
    BY <1>8, <2>1 DEF Incompatible
  <2>3. ActiveIsExit'
    <3>1. exit.active => ExitRecord(exit.id, exit.signal) /\ exit.id \in Orders
      BY DEF OneExitInv, ActiveIsExit, ExitRecord, Records
    <3>2. exit.active => ExitRecord(exit.id, exit.signal)'
      BY <1>1, <2>1, <2>2, <3>1 DEF ExitRecord
    <3> QED BY <2>1, <3>2 DEF ActiveIsExit
  <2>4. ExitAlone'
    <3>1. CASE exit.pending \/ exit.active
      <4>1. \A p \in Orders : /\ ExitRecord(p, exit.signal) => ExitRecord(p, exit.signal)'
                              /\ LiveExit(p)' => LiveExit(p)
        BY <1>1, <2>2, <3>1 DEF ExitRecord, LiveExit, Live
      <4> QED BY <2>1, <3>1, <4>1 DEF OneExitInv, ExitAlone
    <3>2. CASE ~exit.pending /\ ~exit.active
      <4>1. ~frozen' => exit.attempt = 0
        BY <3>2 DEF OneExitInv, ExitAlone
      <4> QED BY <2>1, <3>2, <4>1 DEF ExitAlone
    <3> QED BY <3>1, <3>2
  <2> QED BY <1>2, <1>5, <1>6, <2>3, <2>4 DEF OneExitInv
<1>9. \/ exit' = exit \/ exit' = NoExit
      \/ \E o \in Orders, t \in Trade : ~Incompatible(o) /\ exit' = ExitAfterOpen(o, t)
  <2>1. ASSUME NEW o \in Records, NEW t \in Trade, TakesTrade(o, t)
        PROVE  \/ exit' = exit \/ exit' = NoExit
               \/ ~Incompatible(o) /\ exit' = ExitAfterOpen(o, t)
    BY <2>1 DEF TakesTrade
  <2> QED BY <2>1, TradeKinds DEF Records
<1> QED BY <1>3, <1>7, <1>8, <1>9

\* Every step keeps one exit order of a signal.
LEMMA OneExitStep ==
  ASSUME AccountInv, Thawed, OrdersInv, ExitInv, OneExitInv, [Next]_vars
  PROVE  OneExitInv'
<1>1. frozen => frozen'
  BY StepKinds
<1>2. CASE EntersOrder
  BY <1>2, OneExitEntered
<1>3. CASE DropsExit \/ SubmitExit
  BY <1>3, NoneDropped, OneExitSubmitted
<1>4. CASE CancelsOrder
  <2>1. NoneRevived
    BY <1>4, StatusStays DEF CancelsOrder, NoneRevived, Live
  <2>2. reports' = reports /\ reports \in Seq(Message)
    BY <1>4 DEF CancelsOrder, CancelOrder, AccountInv, SessionTypes
  <2>3. \A i \in 1 .. Len(reports) : reports[i].id \in Orders
    <3>1. \A i \in 1 .. Len(reports) : reports[i] \in Message
      BY <2>2
    <3> QED BY <3>1 DEF Message
  <2>4. CancelsAreTrue'
    BY <2>1, <2>2, <2>3 DEF OneExitInv, CancelsAreTrue, NoneRevived
  <2> QED BY <1>1, <1>4, <2>1, <2>4, OneExitStays DEF CancelsOrder
<1>5. CASE Waits
  BY <1>1, <1>5, OneExitStays
  DEF Waits, OneExitInv, CancelsAreTrue, NoneRevived, Live
<1>6. CASE ReceiveReport
  BY <1>1, <1>6, OneExitReported
<1>7. CASE ReceiveTrade
  BY <1>1, <1>7, OneExitTraded
<1>8. ASSUME NEW o \in Orders, CounterStep(o) PROVE OneExitInv'
  <2>1. UNCHANGED <<records, exit, frozen>>
    BY <1>8 DEF CounterStep, CounterAccept, CounterReject, CounterFill,
                CounterCancel, CounterRefuse, account
  <2>2. NoneRevived
    BY <1>8, StatusStays DEF NoneRevived, Live
  <2>3. CancelsAreTrue'
    BY <1>8, <2>2, CounterSays, CancelsAppended
  <2> QED BY <1>1, <2>1, <2>2, <2>3, OneExitStays DEF SameExit, SameIntents
<1> QED BY <1>2, <1>3, <1>4, <1>5, <1>6, <1>7, <1>8, StepKinds

\* At first there is none.
LEMMA OneExitInit == Init => OneExitInv
<1> SUFFICES ASSUME Init PROVE OneExitInv
  OBVIOUS
<1>1. /\ exit = NoExit /\ reports = <<>>
      /\ \A o \in Orders : ~Live(o) /\ o \notin Records
  BY DEF Init, NothingYet, NoCounterOrder, Live, NoRecord, Records
<1> QED BY <1>1 DEF OneExitInv, CancelsAreTrue, FirstExits, ActiveIsExit, ExitAlone,
                    OneExitOrder, ExitRecord, NoExit

\* For any entries, quantities and limits: no signal has two exit orders at the
\* counter, whatever is canceled, repriced, forgotten and opened again
\* (on_market, drain_callbacks, apply_trade_effect).
THEOREM OneExitOrderAtATime == Spec => []OneExitOrder
<1>1. AccountInv /\ Thawed /\ OrdersInv /\ ExitInv /\ OneExitInv /\ [Next]_vars
        => OneExitInv'
  BY OneExitStep
<1>2. OneExitInv => OneExitOrder
  BY DEF OneExitInv
<1> QED BY <1>1, <1>2, OneExitInit, AlwaysExitInv, PTL DEF Spec

-----------------------------------------------------------------------------
(* What is held, and what the counter has *)

Accounted(o) == book.orders[o].accounted

\* The lots of a direction that the orders have opened, and closed again, as
\* the book knows it
Term(intent, direction, n) ==
  CASE intent.offset = "Open" /\ intent.direction = direction -> n
    [] intent.offset = "Close" /\ intent.direction # direction -> -n
    [] OTHER -> 0
Lots(direction) ==
  [o \in Records |-> Term(records[o].intent, direction, Accounted(o))]

HeldIsSum ==
  /\ Held.long = SumFunctionOnSet(Lots("Buy"), Records)
  /\ Held.short = SumFunctionOnSet(Lots("Sell"), Records)

\* The trades s on their way continue what is known of each order, and the
\* counter has filled all of it.
Begins(t) == t.key[2] - t.quantity
Follow(s, known, filled) ==
  /\ \A o \in Orders : known[o] <= filled[o]
  /\ \A i \in 1 .. Len(s) : known[s[i].id] <= Begins(s[i]) /\ s[i].key[2] <= filled[s[i].id]
  /\ \A i, j \in 1 .. Len(s) : i < j /\ s[i].id = s[j].id => s[i].key[2] <= Begins(s[j])

Known == [o \in Orders |-> Accounted(o)]
Filled == [o \in Orders |-> counter[o].filled]
TradesFollow == Follow(trades, Known, Filled)

FillsInv == ~frozen => HeldIsSum /\ TradesFollow

\* A term is a number, and terms add up.
LEMMA TermValues ==
  ASSUME NEW intent, NEW direction, NEW n \in Int
  PROVE  Term(intent, direction, n) \in Int /\ (n = 0 => Term(intent, direction, n) = 0)
<1>1. -n \in Int /\ (n = 0 => -n = 0)
  OBVIOUS
<1>2. Term(intent, direction, n) \in {n, -n, 0}
  BY Zenon DEF Term
<1> QED BY <1>1, <1>2

\* The terms of the sums are numbers.
LEMMA LotsAreNumbers ==
  ASSUME AccountInv, NEW direction
  PROVE  /\ \A o \in Orders : Accounted(o) \in Nat
         /\ \A o \in Records : Lots(direction)[o] \in Int
         /\ IsFiniteSet(Records)
<1>1. SoundBook(book)
  BY DEF AccountInv, SessionTypes
<1>2. \A o \in Orders : Accounted(o) \in Nat
  BY <1>1 DEF SoundBook, Book, Order, Accounted
<1>3. ASSUME NEW o \in Records PROVE Lots(direction)[o] \in Int
  <2>1. Accounted(o) \in Int
    BY <1>2 DEF Records
  <2>2. Lots(direction)[o] = Term(records[o].intent, direction, Accounted(o))
    BY DEF Lots
  <2> QED BY <2>1, <2>2, TermValues
<1> QED BY <1>2, <1>3, RecordsCounted

LEMMA TradeFacts ==
  ASSUME NEW t \in Trade
  PROVE  /\ t.id \in Orders /\ t.key[2] \in Nat /\ t.quantity \in Nat
         /\ Begins(t) = t.key[2] - t.quantity
<1>1. t.key \in Orders \X Nat /\ t.id \in Orders /\ t.quantity \in Nat
  BY DEF Trade, TradeReport, TradeKeys
<1> QED BY <1>1 DEF Begins

\* What is on its way are trades.
LEMMA TradesOnTheirWay ==
  ASSUME NEW s \in Seq(Trade)
  PROVE  /\ Len(s) \in Nat
         /\ \A i \in 1 .. Len(s) :
              /\ s[i] \in Trade /\ s[i].id \in Orders /\ s[i].key[2] \in Nat
              /\ s[i].quantity \in Nat /\ Begins(s[i]) = s[i].key[2] - s[i].quantity
<1>1. \A i \in 1 .. Len(s) : s[i] \in Trade
  OBVIOUS
<1> QED BY <1>1, TradeFacts

\* A trade taken from their head: the others follow what is known then.
LEMMA FollowTail ==
  ASSUME NEW s \in Seq(Trade), s # <<>>, NEW filled, NEW known, NEW later,
         Follow(s, known, filled),
         \A o \in Orders : known[o] \in Nat /\ filled[o] \in Nat,
         \A o \in Orders :
           \/ later[o] = known[o]
           \/ o = Head(s).id /\ later[o] = known[o] + Head(s).quantity
  PROVE  Follow(Tail(s), later, filled)
<1>1. /\ Len(s) \in Nat /\ Len(s) >= 1 /\ 1 \in 1 .. Len(s)
      /\ \A i \in 1 .. Len(s) :
           /\ s[i].id \in Orders /\ s[i].key[2] \in Nat
           /\ s[i].quantity \in Nat /\ Begins(s[i]) = s[i].key[2] - s[i].quantity
  BY TradesOnTheirWay
<1>2. /\ Len(Tail(s)) = Len(s) - 1 /\ Head(s) = s[1]
      /\ \A i \in 1 .. Len(s) - 1 :
           /\ Tail(s)[i] = s[i + 1] /\ i + 1 \in 1 .. Len(s) /\ 1 < i + 1
  BY <1>1
<1>3. \A o \in Orders :
        \/ later[o] = known[o]
        \/ o = s[1].id /\ later[o] <= s[1].key[2] /\ later[o] \in Nat
  <2>1. known[s[1].id] <= Begins(s[1])
    BY <1>1 DEF Follow
  <2> QED BY <1>1, <1>2, <2>1
<1>4. \A o \in Orders : later[o] <= filled[o] /\ later[o] \in Nat
  <2>1. s[1].key[2] <= filled[s[1].id]
    BY <1>1 DEF Follow
  <2> QED BY <1>1, <1>3, <2>1 DEF Follow
<1>5. ASSUME NEW i \in 1 .. Len(s), 1 < i
      PROVE  later[s[i].id] <= Begins(s[i]) /\ s[i].key[2] <= filled[s[i].id]
  <2>1. /\ known[s[i].id] <= Begins(s[i]) /\ s[i].key[2] <= filled[s[i].id]
        /\ s[1].id = s[i].id => s[1].key[2] <= Begins(s[i])
    BY <1>1, <1>5 DEF Follow
  <2>2. CASE later[s[i].id] = known[s[i].id]
    BY <2>1, <2>2
  <2>3. CASE s[i].id = s[1].id /\ later[s[i].id] <= s[1].key[2]
    <3>1. /\ later[s[i].id] \in Int /\ s[1].key[2] \in Int /\ Begins(s[i]) \in Int
          /\ s[1].key[2] <= Begins(s[i])
      BY <1>1, <1>4, <2>1, <2>3
    <3>2. later[s[i].id] <= Begins(s[i])
      BY <2>3, <3>1
    <3> QED BY <2>1, <3>2
  <2> QED BY <1>1, <1>3, <2>2, <2>3
<1>6. \A i, j \in 1 .. Len(s) : i < j /\ s[i].id = s[j].id => s[i].key[2] <= Begins(s[j])
  BY DEF Follow
<1>7. \A i \in 1 .. Len(Tail(s)) :
        /\ later[Tail(s)[i].id] <= Begins(Tail(s)[i])
        /\ Tail(s)[i].key[2] <= filled[Tail(s)[i].id]
  BY <1>2, <1>5
<1>8. ASSUME NEW i \in 1 .. Len(Tail(s)), NEW j \in 1 .. Len(Tail(s)),
             i < j, Tail(s)[i].id = Tail(s)[j].id
      PROVE  Tail(s)[i].key[2] <= Begins(Tail(s)[j])
  <2>1. i + 1 \in 1 .. Len(s) /\ j + 1 \in 1 .. Len(s) /\ i + 1 < j + 1
    BY <1>1, <1>2, <1>8
  <2> QED BY <1>2, <1>6, <1>8, <2>1
<1> QED BY <1>4, <1>7, <1>8 DEF Follow

\* The functions of one state, and of the next
LEMMA KnownTypes ==
  ASSUME AccountInv
  PROVE  \A o \in Orders : Known[o] \in Nat /\ Filled[o] \in Nat
BY LotsAreNumbers DEF Known, Filled, AccountInv, SessionTypes, CounterOrder

\* The sums stay where no lots move and no order is entered.
LEMMA SumsKept ==
  ASSUME HeldIsSum, SameIntents, Held' = Held,
         \A o \in Orders : Accounted(o)' = Accounted(o)
  PROVE  HeldIsSum'
<1>1. Records' = Records /\ \A o \in Orders : records'[o].intent = records[o].intent
  BY DEF SameIntents, Records
<1>2. ASSUME NEW direction PROVE Lots(direction)' = Lots(direction)
  <2>1. \A o \in Records : Lots(direction)'[o] = Lots(direction)[o]
    BY <1>1 DEF Lots, Records
  <2> QED BY <1>1, <2>1 DEF Lots
<1>3. Lots("Buy")' = Lots("Buy") /\ Lots("Sell")' = Lots("Sell")
  BY <1>2
<1> QED BY <1>1, <1>3 DEF HeldIsSum

\* A step that moves no lots, sends no trade and takes none, and enters no order
LEMMA FillsStay ==
  ASSUME AccountInv, FillsInv, SameIntents, frozen => frozen', trades' = trades,
         Held' = Held, \A o \in Orders : Accounted(o)' = Accounted(o),
         \A o \in Orders : counter'[o].filled = counter[o].filled
  PROVE  FillsInv'
<1>1. HeldIsSum => HeldIsSum'
  BY SumsKept
<1>2. Known' = Known /\ Filled' = Filled
  BY DEF Known, Filled
<1>3. TradesFollow => TradesFollow'
  BY <1>2 DEF TradesFollow, Follow
<1> QED BY <1>1, <1>3 DEF FillsInv

\* An order entered has no lots.
LEMMA FillsEntered ==
  ASSUME AccountInv, OrdersInv, FillsInv, frozen => frozen',
         NEW id \in Orders, NEW intent \in Intent, NEW code,
         AddsOrder(id, intent, code), trades' = trades
  PROVE  FillsInv'
<1>1. /\ Records' = Records \cup {id} /\ id \notin Records
      /\ \A o \in Records : o # id /\ records'[o] = records[o]
  BY DEF AddsOrder, Records
<1>2. Accounted(id) = 0 /\ \A o \in Orders : Accounted(o)' = Accounted(o)
  BY <1>1 DEF AddsOrder, Accounted, OrdersInv, BookNamesRecords, State
<1>3. \A o \in Orders : counter'[o].filled = counter[o].filled
  BY DEF AddsOrder, AccountInv, SessionTypes, CounterOrder
<1>4. Held' = Held
  BY DEF AddsOrder, Held
<1>5. TradesFollow => TradesFollow'
  <2>1. Known' = Known /\ Filled' = Filled
    BY <1>2, <1>3 DEF Known, Filled
  <2> QED BY <2>1 DEF TradesFollow, Follow
<1>6. ASSUME NEW direction
      PROVE  \E w : /\ w = Lots(direction)'
                    /\ SumFunctionOnSet(w, Records \cup {id})
                         = SumFunctionOnSet(Lots(direction), Records)
  <2>1. PICK w : w = Lots(direction)'
    OBVIOUS
  <2>2. PICK v : v = Lots(direction)
    OBVIOUS
  <2>0. \A o \in Records \cup {id} :
          w[o] = Term(records'[o].intent, direction, Accounted(o)')
    BY <1>1, <2>1 DEF Lots
  <2>3. w[id] = 0
    <3>1. Accounted(id)' = 0
      BY <1>2
    <3>2. w[id] = Term(records'[id].intent, direction, 0)
      BY <2>0, <3>1
    <3> QED BY <3>2, TermValues
  <2>4. \A o \in Records : w[o] = v[o] /\ v[o] \in Int
    <3>1. \A o \in Records : Accounted(o)' = Accounted(o)
      BY <1>2 DEF Records
    <3>2. \A o \in Records : v[o] = Term(records[o].intent, direction, Accounted(o))
      BY <2>2 DEF Lots
    <3>3. \A o \in Records : w[o] = v[o]
      BY <1>1, <2>0, <3>1, <3>2
    <3> QED BY <2>2, <3>3, LotsAreNumbers
  <2>5. /\ IsFiniteSet(Records) /\ IsFiniteSet(Records \cup {id})
        /\ (Records \cup {id}) \ {id} = Records
    BY <1>1, RecordsCounted, FS_AddElement
  <2>6. SumFunctionOnSet(w, Records \cup {id}) = w[id] + SumFunctionOnSet(w, Records)
    <3> DEFINE S == Records \cup {id}
    <3>1. \A y \in S : w[y] \in Int
      BY <2>3, <2>4
    <3>2. SumFunctionOnSet(w, S) = w[id] + SumFunctionOnSet(w, S \ {id})
      <4> HIDE DEF S
      <4>1. id \in S
        BY DEF S
      <4> QED BY <2>5, <3>1, <4>1, SumTerm DEF S
    <3> QED BY <2>5, <3>2
  <2>7. SumFunctionOnSet(w, Records) = SumFunctionOnSet(v, Records)
    BY <2>4, <2>5, SumEqual
  <2>8. SumFunctionOnSet(v, Records) \in Int
    BY <2>4, <2>5, SumTerm
  <2> QED BY <2>1, <2>2, <2>3, <2>6, <2>7, <2>8
<1>7. HeldIsSum => HeldIsSum'
  BY <1>1, <1>4, <1>6 DEF HeldIsSum
<1> QED BY <1>5, <1>7 DEF FillsInv

LEMMA TermAdds ==
  ASSUME NEW intent, NEW direction, NEW n \in Int, NEW m \in Int
  PROVE  Term(intent, direction, n + m)
           = Term(intent, direction, n) + Term(intent, direction, m)
<1> DEFINE opens == intent.offset = "Open" /\ intent.direction = direction
           closes == intent.offset = "Close" /\ intent.direction # direction
<1>1. CASE opens
  BY <1>1 DEF Term
<1>2. CASE closes
  <2>1. \A k \in Int : Term(intent, direction, k) = -k
    BY <1>2 DEF Term
  <2> QED BY <2>1
<1>3. CASE ~opens /\ ~closes
  <2>1. \A k \in Int : Term(intent, direction, k) = 0
    BY <1>3 DEF Term
  <2> QED BY <2>1
<1> QED BY <1>1, <1>2, <1>3

\* A trade that counts adds its lots to those of its order.
LEMMA AccountedByTrade ==
  ASSUME AccountInv, NEW o \in Orders, NEW t \in Trade, TakesTrade(o, t)
  PROVE  /\ Accounted(o)' = Accounted(o) + t.quantity
         /\ \A p \in Orders \ {o} : Accounted(p)' = Accounted(p)
<1>1. SoundBook(book) /\ book' = RecordTrade(book, t) /\ t.id = o
  BY DEF AccountInv, SessionTypes, TakesTrade
<1>2. book'.orders = [book.orders EXCEPT ![o] = OrderAfterTrade(book.orders[o], t)]
  BY <1>1 DEF RecordTrade, SoundBook, Book
<1>3. OrderAfterTrade(book.orders[o], t).accounted = Accounted(o) + t.quantity
  BY <1>1 DEF OrderAfterTrade, SoundBook, Book, Order, Accounted
<1> QED BY <1>1, <1>2, <1>3 DEF Accounted, SoundBook, Book

\* So what is held stays what the orders come to.
LEMMA SumsAfterTrade ==
  ASSUME AccountInv, HeldIsSum, SameIntents,
         NEW o \in Records, NEW t \in Trade, TakesTrade(o, t)
  PROVE  HeldIsSum'
<1> DEFINE intent == records[o].intent
<1>1. /\ Records' = Records /\ o \in Orders /\ t.quantity \in Nat
      /\ \A p \in Records : p \in Orders /\ records'[p].intent = records[p].intent
      /\ t.offset = intent.offset /\ t.direction = intent.direction
      /\ intent.offset \in {"Open", "Close"} /\ intent.direction \in {"Buy", "Sell"}
  BY DEF SameIntents, Records, TakesTrade, Trade, AccountInv, SessionTypes, Record,
         Intent, Offsets, Directions
<1>2. /\ Accounted(o)' = Accounted(o) + t.quantity /\ Accounted(o) \in Nat
      /\ \A p \in Records \ {o} : Accounted(p)' = Accounted(p)
  BY <1>1, AccountedByTrade, LotsAreNumbers DEF Records
<1>3. ASSUME NEW direction
      PROVE  \E w : /\ w = Lots(direction)'
                    /\ SumFunctionOnSet(w, Records)
                         = SumFunctionOnSet(Lots(direction), Records)
                           + Term(intent, direction, t.quantity)
                    /\ SumFunctionOnSet(Lots(direction), Records) \in Int
  <2>1. PICK w : w = Lots(direction)'
    OBVIOUS
  <2>2. PICK v : v = Lots(direction)
    OBVIOUS
  <2>3. \A p \in Records : w[p] = Term(records[p].intent, direction, Accounted(p)')
    BY <1>1, <2>1 DEF Lots
  <2>4. \A p \in Records : v[p] = Term(records[p].intent, direction, Accounted(p))
    BY <2>2 DEF Lots
  <2>5. \A p \in Records : v[p] \in Int
    BY <2>2, LotsAreNumbers
  <2>6. \A p \in Records \ {o} : w[p] = v[p]
    BY <1>2, <2>3, <2>4
  <2>7. w[o] = v[o] + Term(intent, direction, t.quantity)
    <3>1. w[o] = Term(intent, direction, Accounted(o) + t.quantity)
      BY <1>2, <2>3
    <3> QED BY <1>1, <1>2, <2>4, <3>1, TermAdds
  <2>8. v[o] \in Int /\ w[o] \in Int /\ Term(intent, direction, t.quantity) \in Int
    <3>1. Term(intent, direction, t.quantity) \in Int
      BY <1>1, TermValues
    <3> QED BY <2>5, <2>7, <3>1
  <2>9. \A p \in Records : v[p] \in Int /\ w[p] \in Int
    BY <2>5, <2>6, <2>8
  <2>10. SumFunctionOnSet(w, Records) = SumFunctionOnSet(v, Records) + w[o] - v[o]
    BY <2>6, <2>9, RecordsCounted, SumChange
  <2>11. SumFunctionOnSet(v, Records) \in Int
    BY <2>5, RecordsCounted, SumTerm
  <2> QED BY <2>1, <2>2, <2>7, <2>8, <2>10, <2>11
<1>4. /\ Held'.long = Held.long + Term(intent, "Buy", t.quantity)
      /\ Held'.short = Held.short + Term(intent, "Sell", t.quantity)
  <2>1. Held.long \in Nat /\ Held.short \in Nat
    BY <1>1, HeldAfterTrade DEF Position
  <2>2. Term(intent, "Buy", t.quantity)
          = CASE intent.offset = "Open" /\ intent.direction = "Buy" -> t.quantity
              [] intent.offset = "Close" /\ intent.direction = "Sell" -> -t.quantity
              [] OTHER -> 0
    BY <1>1 DEF Term
  <2>3. Term(intent, "Sell", t.quantity)
          = CASE intent.offset = "Open" /\ intent.direction = "Sell" -> t.quantity
              [] intent.offset = "Close" /\ intent.direction = "Buy" -> -t.quantity
              [] OTHER -> 0
    BY <1>1 DEF Term
  <2>4. LET signed == IF t.offset = "Open" THEN t.quantity ELSE -t.quantity
            long == t.offset = "Open" <=> t.direction = "Buy" IN
        /\ Held'.long = IF long THEN Held.long + signed ELSE Held.long
        /\ Held'.short = IF long THEN Held.short ELSE Held.short + signed
    BY <1>1, HeldAfterTrade
  <2> HIDE DEF intent
  <2> QED BY <1>1, <2>1, <2>2, <2>3, <2>4
<1> QED BY <1>1, <1>3, <1>4 DEF HeldIsSum

LEMMA TakenFollow ==
  ASSUME AccountInv, TradesFollow, trades # <<>>, trades' = Tail(trades),
         counter' = counter,
         \A o \in Orders :
           \/ Known'[o] = Known[o]
           \/ o = Head(trades).id /\ Known'[o] = Known[o] + Head(trades).quantity
  PROVE  TradesFollow'
<1>1. PICK later : later = Known'
  OBVIOUS
<1>2. Follow(Tail(trades), later, Filled)
  <2>1. trades \in Seq(Trade) /\ Follow(trades, Known, Filled)
    BY DEF AccountInv, SessionTypes, TradesFollow
  <2> QED BY <1>1, <2>1, KnownTypes, FollowTail
<1>3. Filled' = Filled
  BY DEF Filled
<1> QED BY <1>1, <1>2, <1>3 DEF TradesFollow, Follow

\* The account takes a trade.
LEMMA FillsTraded ==
  ASSUME AccountInv, Thawed, OrdersInv, FillsInv, ReceiveTrade, frozen => frozen'
  PROVE  FillsInv'
<1> SUFFICES ASSUME ~frozen' PROVE HeldIsSum' /\ TradesFollow'
  BY DEF FillsInv
<1>1. /\ \/ \E o \in Records : \E t \in Trade :
              t = Head(trades) /\ TakesTrade(o, t)
         \/ book' = book
      /\ SameIntents /\ trades # <<>> /\ trades' = Tail(trades)
      /\ HeldIsSum /\ TradesFollow /\ counter' = counter
  BY TradeKinds DEF FillsInv, ReceiveTrade
<1>2. ASSUME NEW o \in Records, NEW t \in Trade, t = Head(trades), TakesTrade(o, t)
      PROVE  HeldIsSum' /\ TradesFollow'
  <2>1. o \in Orders /\ t.id = o
    BY <1>2 DEF Records, TakesTrade
  <2>2. \A p \in Orders :
          \/ Known'[p] = Known[p]
          \/ p = t.id /\ Known'[p] = Known[p] + t.quantity
    BY <1>2, <2>1, AccountedByTrade DEF Known
  <2>3. TradesFollow'
    BY <1>1, <1>2, <2>2, TakenFollow
  <2>4. HeldIsSum'
    BY <1>1, <1>2, SumsAfterTrade
  <2> QED BY <2>3, <2>4
<1>3. CASE book' = book
  <2>1. \A o \in Orders : Accounted(o)' = Accounted(o)
    BY <1>3 DEF Accounted
  <2>2. TradesFollow'
    BY <1>1, <2>1, TakenFollow DEF Known
  <2>3. HeldIsSum'
    BY <1>1, <1>3, <2>1, SumsKept DEF Held
  <2> QED BY <2>2, <2>3
<1> QED BY <1>1, <1>2, <1>3

\* The counter fills an order: the trade begins where the ones before it end.
LEMMA FollowFill ==
  ASSUME NEW s \in Seq(Trade), NEW t \in Trade, NEW known, NEW filled, NEW more,
         Follow(s, known, filled),
         \A o \in Orders : known[o] \in Nat /\ filled[o] \in Nat /\ more[o] \in Nat,
         \A o \in Orders \ {t.id} : more[o] = filled[o],
         Begins(t) = filled[t.id], more[t.id] = t.key[2]
  PROVE  Follow(Append(s, t), known, more)
<1> DEFINE longer == Append(s, t)
<1>1. /\ Len(s) \in Nat /\ t.id \in Orders /\ t.key[2] \in Nat /\ t.quantity \in Nat
      /\ \A i \in 1 .. Len(s) : /\ s[i].id \in Orders /\ s[i].key[2] \in Nat
                                /\ Begins(s[i]) \in Int
      /\ Begins(t) = t.key[2] - t.quantity
  <2>1. t.id \in Orders /\ t.key[2] \in Nat /\ t.quantity \in Nat
        /\ Begins(t) = t.key[2] - t.quantity
    BY TradeFacts
  <2>2. /\ Len(s) \in Nat
        /\ \A i \in 1 .. Len(s) : /\ s[i].id \in Orders /\ s[i].key[2] \in Nat
                                  /\ Begins(s[i]) \in Int
    BY TradesOnTheirWay
  <2> QED BY <2>1, <2>2
<1>2. /\ Len(longer) = Len(s) + 1 /\ longer[Len(s) + 1] = t
      /\ \A i \in 1 .. Len(s) : longer[i] = s[i]
  BY <1>1
<1> HIDE DEF longer
<1>3. \A o \in Orders : filled[o] <= more[o]
  <2>1. filled[t.id] <= more[t.id]
    BY <1>1
  <2>2. \A o \in Orders \ {t.id} : filled[o] <= more[o]
    OBVIOUS
  <2> QED BY <2>1, <2>2
<1>4. \A o \in Orders : known[o] <= more[o]
  BY <1>3 DEF Follow
<1>5. ASSUME NEW i \in 1 .. Len(longer)
      PROVE  known[longer[i].id] <= Begins(longer[i]) /\ longer[i].key[2] <= more[longer[i].id]
  <2>1. CASE i \in 1 .. Len(s)
    <3>1. known[s[i].id] <= Begins(s[i]) /\ s[i].key[2] <= filled[s[i].id]
      BY <2>1 DEF Follow
    <3>2. /\ s[i].key[2] \in Int /\ filled[s[i].id] \in Int /\ more[s[i].id] \in Int
          /\ filled[s[i].id] <= more[s[i].id]
      BY <1>1, <1>3, <2>1
    <3>3. s[i].key[2] <= more[s[i].id]
      BY <3>1, <3>2
    <3> QED BY <1>2, <2>1, <3>1, <3>3
  <2>2. CASE i = Len(s) + 1
    <3>1. known[t.id] <= filled[t.id]
      BY <1>1 DEF Follow
    <3> QED BY <1>1, <1>2, <2>2, <3>1
  <2> QED BY <1>1, <1>2, <2>1, <2>2
<1>6. ASSUME NEW i \in 1 .. Len(longer), NEW j \in 1 .. Len(longer),
             i < j, longer[i].id = longer[j].id
      PROVE  longer[i].key[2] <= Begins(longer[j])
  <2>1. i \in 1 .. Len(s) /\ longer[i] = s[i]
    BY <1>1, <1>2, <1>6
  <2>2. CASE j \in 1 .. Len(s)
    BY <1>2, <1>6, <2>1, <2>2 DEF Follow
  <2>3. CASE j = Len(s) + 1
    <3>1. s[i].key[2] <= filled[s[i].id]
      BY <2>1 DEF Follow
    <3> QED BY <1>2, <1>6, <2>1, <2>3, <3>1
  <2> QED BY <1>1, <1>2, <2>2, <2>3
<1>7. Follow(longer, known, more)
  BY <1>4, <1>5, <1>6 DEF Follow
<1> QED BY <1>7 DEF longer

LEMMA FillsFilled ==
  ASSUME AccountInv, NEW o \in Orders, CounterFill(o)
  PROVE  /\ TradesFollow => TradesFollow'
         /\ FillsInv => FillsInv'
<1>1. PICK cum \in (counter[o].filled + 1) .. Quantity(o) :
        LET t == [key |-> <<o, cum>>, id |-> o, instrument |-> Instrument,
                  direction |-> records[o].intent.direction,
                  offset |-> records[o].intent.offset,
                  quantity |-> cum - counter[o].filled] IN
        /\ trades' = Append(trades, t)
        /\ \E status : counter' = [counter EXCEPT ![o].filled = cum, ![o].status = status]
  BY DEF CounterFill
<1> DEFINE t == [key |-> <<o, cum>>, id |-> o, instrument |-> Instrument,
                 direction |-> records[o].intent.direction,
                 offset |-> records[o].intent.offset,
                 quantity |-> cum - counter[o].filled]
<1>2. /\ counter[o].filled \in Nat /\ Quantity(o) \in Nat /\ cum \in Nat
      /\ counter \in [Orders -> CounterOrder] /\ records[o].intent \in Intent
      /\ trades \in Seq(Trade)
  BY <1>1 DEF AccountInv, SessionTypes, CounterOrder, Record, Intent, Quantity
<1>3. /\ counter'[o].filled = cum
      /\ \A p \in Orders \ {o} : counter'[p] = counter[p]
  BY <1>1, <1>2 DEF CounterOrder
<1>4. t \in Trade /\ Begins(t) = counter[o].filled /\ t.key[2] = cum /\ t.id = o
  <2>1. <<o, cum>> \in Orders \X Nat /\ cum - counter[o].filled \in Nat
    BY <1>1, <1>2
  <2>2. t \in Trade
    BY <1>2, <2>1, SessionAssumption DEF Trade, TradeReport, TradeKeys, Intent
  <2>3. t.key[2] = cum /\ t.id = o /\ t.quantity = cum - counter[o].filled
    OBVIOUS
  <2> HIDE DEF t
  <2>4. Begins(t) = counter[o].filled
    BY <1>2, <2>2, <2>3, TradeFacts
  <2> QED BY <2>2, <2>3, <2>4
<1>5. trades' = Append(trades, t)
  BY <1>1
<1> HIDE DEF t
<1>6. UNCHANGED <<book, records, frozen>>
  BY DEF CounterFill, account
<1>7. TradesFollow => TradesFollow'
  <2>1. PICK more : more = Filled'
    OBVIOUS
  <2>2. /\ \A p \in Orders : Known[p] \in Nat /\ Filled[p] \in Nat /\ more[p] \in Nat
        /\ more[o] = cum /\ Filled[o] = counter[o].filled
        /\ \A p \in Orders \ {o} : more[p] = Filled[p]
    BY <1>2, <1>3, <2>1, KnownTypes DEF Filled
  <2>3. Known' = Known
    BY <1>6 DEF Known, Accounted
  <2>4. ASSUME Follow(trades, Known, Filled) PROVE Follow(Append(trades, t), Known, more)
    BY <1>2, <1>4, <2>2, <2>4, FollowFill
  <2> QED BY <1>5, <2>1, <2>3, <2>4 DEF TradesFollow, Follow
<1>8. HeldIsSum => HeldIsSum'
  BY <1>6, SumsKept DEF Held, SameIntents, Accounted
<1> QED BY <1>6, <1>7, <1>8 DEF FillsInv

\* Nothing but a fill changes what the counter has filled.
LEMMA FilledByFill ==
  ASSUME AccountInv, NEW o \in Orders,
         \/ CounterAccept(o) \/ CounterReject(o) \/ CounterCancel(o) \/ CounterRefuse(o)
         \/ \E code : CancelOrder(o, code)
  PROVE  \A p \in Orders : counter'[p].filled = counter[p].filled
<1>1. counter \in [Orders -> CounterOrder]
  BY DEF AccountInv, SessionTypes
<1>2. \/ counter' = counter
      \/ \E status : counter' = [counter EXCEPT ![o].status = status]
      \/ counter' = [counter EXCEPT ![o].asked = FALSE]
      \/ \E status : counter' = [counter EXCEPT ![o].status = status, ![o].asked = FALSE]
      \/ counter' = [counter EXCEPT ![o].asked = TRUE, ![o].asks = @ + 1]
  BY Zenon DEF CounterAccept, CounterReject, CounterCancel, CounterRefuse, CancelOrder
<1>3. \A status, n :
        LET c == counter[o] IN
        /\ [c EXCEPT !.status = status].filled = c.filled
        /\ [c EXCEPT !.asked = FALSE].filled = c.filled
        /\ [c EXCEPT !.status = status, !.asked = FALSE].filled = c.filled
        /\ [c EXCEPT !.asked = TRUE, !.asks = n].filled = c.filled
  BY <1>1 DEF CounterOrder
<1>4. CASE counter' = counter
  BY <1>4
<1>5. CASE \E status : counter' = [counter EXCEPT ![o].status = status]
  BY <1>1, <1>3, <1>5
<1>6. CASE counter' = [counter EXCEPT ![o].asked = FALSE]
  BY <1>1, <1>3, <1>6
<1>7. CASE \E status : counter' = [counter EXCEPT ![o].status = status, ![o].asked = FALSE]
  <2>1. PICK status :
          counter' = [counter EXCEPT ![o].status = status, ![o].asked = FALSE]
    BY <1>7
  <2>2. counter' = [counter EXCEPT ![o] = [counter[o] EXCEPT !.status = status,
                                                             !.asked = FALSE]]
    BY <1>1, <2>1
  <2> QED BY <1>1, <1>3, <2>2
<1>8. CASE counter' = [counter EXCEPT ![o].asked = TRUE, ![o].asks = @ + 1]
  <2>1. counter' = [counter EXCEPT ![o] = [counter[o] EXCEPT !.asked = TRUE,
                                                             !.asks = @ + 1]]
    BY <1>1, <1>8
  <2>2. PICK n : counter' = [counter EXCEPT ![o] = [counter[o] EXCEPT !.asked = TRUE,
                                                                      !.asks = n]]
    BY <1>1, <2>1 DEF CounterOrder
  <2> QED BY <1>1, <1>3, <2>2
<1> QED BY <1>2, <1>4, <1>5, <1>6, <1>7, <1>8

\* Every step keeps the sums and the order of the trades on their way.
LEMMA FillsStep ==
  ASSUME AccountInv, Thawed, OrdersInv, FillsInv, [Next]_vars PROVE FillsInv'
<1>1. frozen => frozen'
  BY StepKinds
<1>2. ASSUME NEW intent \in Intent, NEW code \in SubmitCodes(intent),
             SubmitOrder(intent, code)
      PROVE  FillsInv'
  <2>1. trades' = trades
    BY <1>2 DEF SubmitOrder
  <2>2. CASE UNCHANGED <<book, records, counter>>
    BY <1>1, <2>1, <2>2, FillsStay DEF SameIntents, Held, Accounted
  <2>3. ASSUME NEW id \in Orders, AddsOrder(id, intent, code) PROVE FillsInv'
    BY <1>1, <2>1, <2>3, FillsEntered
  <2> QED BY <1>2, <2>2, <2>3, SubmitAdds
<1>3. CASE EntersOrder \/ SubmitExit
  BY <1>2, <1>3, IntentsOfCalls DEF EntersOrder, SubmitExit
<1>4. CASE CancelsOrder
  <2>1. PICK o \in Orders : \E code \in CancelCodes(o) : CancelOrder(o, code)
    BY <1>4 DEF CancelsOrder
  <2>2. SameLots(book, book') /\ trades' = trades
    BY <2>1, CancelSameLots DEF CancelOrder
  <2>3. \A p \in Orders : counter'[p].filled = counter[p].filled
    BY <2>1, FilledByFill
  <2> QED BY <1>1, <1>4, <2>2, <2>3, FillsStay
      DEF CancelsOrder, SameLots, Held, Accounted
<1>5. CASE DropsExit \/ Waits
  BY <1>1, <1>5, FillsStay
  DEF DropsExit, environment, SameIntents, Waits, Held, Accounted
<1>6. CASE ReceiveReport
  BY <1>1, <1>6, ReportKinds, FillsStay DEF SameLots, Held, Accounted
<1>7. CASE ReceiveTrade
  BY <1>1, <1>7, FillsTraded
<1>8. ASSUME NEW o \in Orders, CounterStep(o) PROVE FillsInv'
  <2>1. CASE CounterFill(o)
    BY <2>1, FillsFilled
  <2>2. CASE ~CounterFill(o)
    <3>1. /\ UNCHANGED <<book, records, frozen>> /\ trades' = trades
          /\ \/ CounterAccept(o) \/ CounterReject(o) \/ CounterCancel(o)
             \/ CounterRefuse(o)
      BY <1>8, <2>2 DEF CounterStep, CounterAccept, CounterReject, CounterCancel,
                        CounterRefuse, account
    <3>2. \A p \in Orders : counter'[p].filled = counter[p].filled
      BY <3>1, FilledByFill
    <3> QED BY <1>1, <3>1, <3>2, FillsStay DEF SameIntents, Held, Accounted
  <2> QED BY <2>1, <2>2
<1> QED BY <1>3, <1>4, <1>5, <1>6, <1>7, <1>8, StepKinds

LEMMA FillsInit == Init => FillsInv
<1> SUFFICES ASSUME Init PROVE HeldIsSum /\ TradesFollow
  BY DEF FillsInv
<1>1. /\ book = EmptyBook /\ trades = <<>>
      /\ \A o \in Orders : /\ counter[o].filled = 0 /\ ~records[o].occupied
                           /\ Accounted(o) = 0
  BY DEF Init, NothingYet, NoCounterOrder, NoRecord, Accounted, EmptyBook, NoOrder
<1>2. Records = {}
  BY <1>1 DEF Records
<1>3. Held.long = 0 /\ Held.short = 0
  BY <1>1, SessionAssumption DEF Held, EmptyBook, NoPosition
<1>4. \A w : SumFunctionOnSet(w, {}) = 0
  BY FS_EmptySet, SumZero
<1>5. Follow(<<>>, Known, Filled)
  BY <1>1 DEF Follow, Known, Filled
<1> QED BY <1>1, <1>2, <1>3, <1>4, <1>5 DEF HeldIsSum, TradesFollow

THEOREM AlwaysFillsInv ==
  Spec => [](AccountInv /\ Thawed /\ OrdersInv /\ OneExitInv /\ FillsInv)
<1>1. AccountInv /\ Thawed /\ OrdersInv /\ ExitInv /\ OneExitInv /\ [Next]_vars
        => OneExitInv'
  BY OneExitStep
<1>2. AccountInv /\ Thawed /\ OrdersInv /\ FillsInv /\ [Next]_vars => FillsInv'
  BY FillsStep
<1> QED BY <1>1, <1>2, OneExitInit, FillsInit, AlwaysExitInv, PTL DEF Spec

\* What is held in a direction is no more than the counter has open, and the
\* fills of exit orders whose trades are on their way.
LEMMA HeldIsCovered ==
  ASSUME AccountInv, OrdersInv, TradesFollow, NEW direction
  PROVE  LET covered == OpenLots(direction)
               + SumFunction([p \in Records |-> IF records[p].intent.purpose = "Exit"
                                                THEN Undelivered(p) ELSE 0])
         IN  covered \in Int /\ SumFunctionOnSet(Lots(direction), Records) <= covered
<1> DEFINE open == [o \in Records |-> Term(records[o].intent, direction, Filled[o])]
           late == [o \in Records |-> IF records[o].intent.purpose = "Exit"
                                      THEN Undelivered(o) ELSE 0]
           both == [o \in Records |-> open[o] + late[o]]
<1>1. OpenLots(direction) = SumFunctionOnSet(open, Records)
  <2>1. [o \in Records |->
           LET intent == records[o].intent IN
           CASE intent.offset = "Open" /\ intent.direction = direction -> counter[o].filled
             [] intent.offset = "Close" /\ intent.direction # direction -> -counter[o].filled
             [] OTHER -> 0] = open
    BY Zenon DEF Term, Filled, Records
  <2>2. DOMAIN open = Records
    OBVIOUS
  <2> HIDE DEF open
  <2> QED BY <2>1, <2>2 DEF OpenLots, SumFunction
<1>2. SumFunction(late) = SumFunctionOnSet(late, Records)
  BY DEF SumFunction
<1>3. ASSUME NEW o \in Records
      PROVE  /\ Filled[o] \in Int /\ Accounted(o) \in Int /\ Accounted(o) <= Filled[o]
             /\ Undelivered(o) = Filled[o] - Accounted(o)
  <2>1. o \in Orders
    BY DEF Records
  <2>2. Known[o] <= Filled[o] /\ Known[o] = Accounted(o)
    BY <2>1 DEF TradesFollow, Follow, Known
  <2> QED BY <2>1, <2>2, KnownTypes, LotsAreNumbers DEF Undelivered, Filled, Accounted
<1>4. ASSUME NEW o \in Records
      PROVE  /\ open[o] \in Int /\ late[o] \in Int
             /\ Lots(direction)[o] <= open[o] + late[o]
  <2> DEFINE intent == records[o].intent
  <2>1. /\ open[o] = Term(intent, direction, Filled[o])
        /\ Lots(direction)[o] = Term(intent, direction, Accounted(o))
        /\ late[o] = IF intent.purpose = "Exit" THEN Filled[o] - Accounted(o) ELSE 0
    BY <1>3 DEF Lots
  <2>2. /\ intent.purpose \in {"Entry", "Exit"}
        /\ intent.purpose = "Entry" <=> intent.offset = "Open"
    BY DEF OrdersInv, PurposeIsOffset, AccountInv, SessionTypes, Records, Record, Intent
  <2> HIDE DEF intent, open, late
  <2>3. CASE intent.offset = "Open"
    <3>1. intent.offset # "Close"
      BY <2>3
    <3>2. \A n \in Int : Term(intent, direction, n)
                           = IF intent.direction = direction THEN n ELSE 0
      BY <2>3, <3>1 DEF Term
    <3> QED BY <1>3, <2>1, <2>2, <2>3, <3>2
  <2>4. CASE intent.offset # "Open"
    <3>1. \/ \A n \in Int : Term(intent, direction, n) = -n
          \/ \A n \in Int : Term(intent, direction, n) = 0
      BY <2>4 DEF Term
    <3> QED BY <1>3, <2>1, <2>2, <2>4, <3>1
  <2> QED BY <2>3, <2>4
<1>5. \A o \in Records : both[o] = open[o] + late[o]
  OBVIOUS
<1>6. \A o \in Records : Lots(direction)[o] \in Int
  BY LotsAreNumbers
<1> HIDE DEF open, late, both
<1>7. SumFunctionOnSet(both, Records)
        = SumFunctionOnSet(open, Records) + SumFunctionOnSet(late, Records)
  BY <1>4, <1>5, RecordsCounted, SumOfSums
<1>8. SumFunctionOnSet(Lots(direction), Records) <= SumFunctionOnSet(both, Records)
  <2>1. PICK v : v = Lots(direction)
    OBVIOUS
  <2>2. \A o \in Records : v[o] \in Int /\ both[o] \in Int /\ v[o] <= both[o]
    BY <1>4, <1>5, <1>6, <2>1
  <2> QED BY <2>1, <2>2, RecordsCounted, SumMonotone
<1>9. /\ SumFunctionOnSet(Lots(direction), Records)
           <= OpenLots(direction) + SumFunction(late)
      /\ OpenLots(direction) + SumFunction(late) \in Int
  <2>1. SumFunctionOnSet(open, Records) \in Int /\ SumFunctionOnSet(late, Records) \in Int
    BY <1>4, RecordsCounted, SumTerm
  <2> QED BY <1>1, <1>2, <1>7, <1>8, <2>1
<1> QED BY <1>9 DEF late

\* What an exit order asks for, then, is covered.
LEMMA ExitIsCovered ==
  ASSUME AccountInv, OrdersInv, FillsInv, ~frozen
  PROVE  ExitIntent.quantity
           <= OpenLots(Opposite(ExitIntent.direction))
              + SumFunction([p \in Records |-> IF records[p].intent.purpose = "Exit"
                                               THEN Undelivered(p) ELSE 0])
<1> DEFINE late == [p \in Records |-> IF records[p].intent.purpose = "Exit"
                                      THEN Undelivered(p) ELSE 0]
           side == Opposite(exit.direction)
<1>1. /\ exit \in Exit /\ Held \in Position /\ HeldIsSum /\ TradesFollow
      /\ exit.direction \in {"Buy", "Sell"} /\ exit.quantity \in Nat
  BY SessionAssumption DEF AccountInv, SessionTypes, SoundBook, Book, Held, FillsInv,
                           Exit, Directions
<1>2. Closable = SumFunctionOnSet(Lots(side), Records) /\ Closable \in Nat
  BY <1>1 DEF Closable, HeldIsSum, Opposite, Position
<1>3. ExitIntent.quantity = (IF Closable < exit.quantity THEN Closable ELSE exit.quantity)
      /\ ExitIntent.direction = exit.direction
  BY DEF ExitIntent
<1>4. ExitIntent.quantity <= SumFunctionOnSet(Lots(side), Records)
  BY <1>1, <1>2, <1>3
<1>5. /\ SumFunctionOnSet(Lots(side), Records) <= OpenLots(side) + SumFunction(late)
      /\ OpenLots(side) + SumFunction(late) \in Int
  BY <1>1, HeldIsCovered
<1>6. ExitIntent.quantity \in Nat
  BY <1>1, <1>2, <1>3
<1>7. ExitIntent.quantity <= OpenLots(side) + SumFunction(late)
  <2> HIDE DEF late, side
  <2>1. \A a, b, c \in Int : a <= b /\ b <= c => a <= c
    OBVIOUS
  <2>2. SumFunctionOnSet(Lots(side), Records) \in Int
    BY <1>2
  <2> QED BY <1>4, <1>5, <1>6, <2>1, <2>2
<1> QED BY <1>3, <1>7

\* For any entries and quantities: an exit order asks for no more than is open at
\* the counter, but for the closes of earlier exits whose trades the account has
\* not seen (on_market, drain_callbacks, apply_trade).
THEOREM ExitsWithinPosition == Spec => ExitWithinPosition
<1> DEFINE WithinPosition ==
      \A o \in Orders :
        /\ counter[o].status = "None" /\ counter'[o].status = "Live"
        /\ records'[o].intent.purpose = "Exit"
        => records'[o].intent.quantity
             <= OpenLots(Opposite(records'[o].intent.direction))
                + SumFunction([p \in Records |-> IF records[p].intent.purpose = "Exit"
                                                 THEN Undelivered(p) ELSE 0])
<1>1. AccountInv /\ Thawed /\ OrdersInv /\ FillsInv /\ [Next]_vars => [WithinPosition]_vars
  <2> SUFFICES ASSUME AccountInv, Thawed, OrdersInv, FillsInv, [Next]_vars,
                      NEW o \in Orders,
                      counter[o].status = "None", counter'[o].status = "Live",
                      records'[o].intent.purpose = "Exit"
               PROVE  records'[o].intent.quantity
                        <= OpenLots(Opposite(records'[o].intent.direction))
                           + SumFunction([p \in Records |->
                                            IF records[p].intent.purpose = "Exit"
                                            THEN Undelivered(p) ELSE 0])
    OBVIOUS
  <2>1. ASSUME NEW intent \in Intent, NEW code \in SubmitCodes(intent),
               SubmitOrder(intent, code)
        PROVE  records'[o].intent = intent
    <3>1. counter' # counter
      OBVIOUS
    <3>2. PICK id \in Orders : AddsOrder(id, intent, code)
      BY <2>1, <3>1, SubmitAdds
    <3>3. counter \in [Orders -> CounterOrder]
      BY DEF AccountInv, SessionTypes
    <3>4. o = id
      BY <3>2, <3>3 DEF AddsOrder
    <3> QED BY <3>2, <3>4 DEF AddsOrder
  <2>2. ~EntersOrder
    BY <2>1, IntentsOfCalls DEF EntersOrder
  <2>3. ~CancelsOrder /\ \A p \in Orders : ~CounterStep(p)
    BY StatusStays DEF CancelsOrder
  <2>4. ~DropsExit /\ ~Waits /\ ~ReceiveReport /\ ~ReceiveTrade
    BY DEF DropsExit, environment, Waits, ReceiveReport, ReceiveTrade
  <2>5. SubmitExit
    BY <2>2, <2>3, <2>4, StepKinds
  <2>6. ~frozen /\ records'[o].intent = ExitIntent
    BY <2>1, <2>5, IntentsOfCalls DEF SubmitExit, ExitDue
  <2> QED BY <2>6, ExitIsCovered
<1> QED BY <1>1, AlwaysFillsInv, PTL DEF Spec, ExitWithinPosition

-----------------------------------------------------------------------------
(* What the book learns *)

\* What the book knows of an order beside its state, and of an order at all
SameCounts(p, q) ==
  /\ q.seed = p.seed /\ q.reported = p.reported /\ q.accounted = p.accounted
  /\ q.cancelAck = p.cancelAck
\* An order is the same when its state is, too.
SameOrder(p, q) == q.state = p.state /\ SameCounts(p, q)

\* A book that concerns no order but those in ids, and one that concerns none
SameBook(b, c, ids) ==
  /\ c.trades = b.trades /\ c.positions = b.positions
  /\ \A o \in Orders \ ids : SameOrder(b.orders[o], c.orders[o])

\* Flagging, refusing and ignoring teach the book nothing.
LEMMA RefusalTeachesNothing ==
  ASSUME NEW b, SoundBook(b)
  PROVE  /\ SameBook(b, b, {})
         /\ \A ids : /\ SameBook(b, Flag(b, ids), {})
                     /\ SameBook(b, Conflict(b, ids).book, {})
         /\ \A code, ids : SameBook(b, Refused(b, code, ids).book, {})
         /\ \A code : SameBook(b, Ignored(b, code).book, {})
<1>1. ASSUME NEW ids PROVE SameBook(b, Flag(b, ids), {})
  <2> DEFINE Flagged(o) == IF o \in ids
                           THEN [b.orders[o] EXCEPT !.reconcile = TRUE]
                           ELSE b.orders[o]
  <2>1. ASSUME NEW o \in Orders PROVE SameOrder(b.orders[o], Flagged(o))
    BY DEF SoundBook, Book, Order, SameOrder, SameCounts
  <2>2. /\ Flag(b, ids).positions = b.positions /\ Flag(b, ids).trades = b.trades
        /\ \A o \in Orders : Flag(b, ids).orders[o] = Flagged(o)
    BY DEF Flag, SoundBook, Book
  <2> HIDE DEF Flagged
  <2> QED BY <2>1, <2>2 DEF SameBook
<1>2. SameBook(b, b, {})
  BY DEF SameBook, SameOrder, SameCounts
<1> QED BY <1>1, <1>2 DEF Conflict, Refused, Ignored, Result

\* Two lessons, the second of which concerns no order
LEMMA SameBookThen ==
  ASSUME NEW b, NEW c, NEW d, NEW ids, SameBook(b, c, ids), SameBook(c, d, {})
  PROVE  SameBook(b, d, ids) /\ \A o \in Orders : SameOrder(c.orders[o], d.orders[o])
BY DEF SameBook, SameOrder, SameCounts

\* What a report that the book takes makes of its order
Merges(o, p, r) ==
  /\ p.state = StateAfterReport(o, r) /\ p.reported = r.cum
  /\ p.cancelAck <=> o.cancelAck \/ (r.type = "Canceled" /\ o.state # "Filled")
  /\ p.seed = o.seed /\ p.accounted = o.accounted

\* The book takes a report in: one that is neither malformed, contradictory nor old.
Merged(o, p, r) ==
  /\ o.state # "Absent" /\ ~Malformed(o, r) /\ ~Contradicts(o, r)
  /\ r.cum >= o.reported /\ Merges(o, p, r)

\* A report either leaves its order as it is, when it is stale or refused, or is
\* merged into it.
LEMMA ReportTaken ==
  ASSUME NEW b, SoundBook(b), NEW r \in OrderReport
  PROVE  LET result == ApplyOrderReport(b, r)
             o == b.orders[r.id]
             p == result.book.orders[r.id] IN
         /\ SameBook(b, result.book, {r.id})
         /\ SameOrder(o, p) \/ Merged(o, p, r)
         /\ ~result.reconcile =>
              \/ SameOrder(o, p) /\ r.cum < o.reported
              \/ Merged(o, p, r) /\ ~(r.type = "Filled" /\ o.state = "Rejected")
<1> DEFINE o == b.orders[r.id]
           after == OrderAfterReport(o, r)
           merged == [b EXCEPT !.orders[r.id] = after]
           result == ApplyOrderReport(b, r)
           p == result.book.orders[r.id]
           Taken == /\ o.state # "Absent" /\ ~Malformed(o, r) /\ r.cum >= o.reported
                    /\ ~Contradicts(o, r)
<1>1. o \in Order /\ SoundOrder(o) /\ r.id \in Orders /\ r.cum \in Int /\ o.reported \in Nat
  BY DEF SoundBook, Book, OrderReport, Order
<1>2. Merges(o, after, r)
  BY <1>1 DEF OrderAfterReport, Order, Merges
<1>3. SameBook(b, merged, {r.id}) /\ merged.orders[r.id] = after
  BY <1>1 DEF SoundBook, Book, SameBook, SameOrder, SameCounts
<1>4. CASE o.state = "Absent" \/ Malformed(o, r)
  <2>1. (\E code, ids : result = Refused(b, code, ids)) /\ result.reconcile
    BY <1>4 DEF ApplyOrderReport, Conflict, Refused, Result
  <2> HIDE DEF result
  <2>2. SameBook(b, result.book, {})
    BY <2>1, RefusalTeachesNothing
  <2> QED BY <1>1, <2>1, <2>2 DEF SameBook, p, result
<1>5. CASE o.state # "Absent" /\ ~Malformed(o, r) /\ r.cum < o.reported
  <2>1. result = Ignored(b, "Stale")
    BY <1>5 DEF ApplyOrderReport
  <2> HIDE DEF result
  <2>2. SameBook(b, result.book, {})
    BY <2>1, RefusalTeachesNothing
  <2> QED BY <1>1, <1>5, <2>2 DEF SameBook, p, result
<1>6. CASE /\ o.state # "Absent" /\ ~Malformed(o, r) /\ r.cum >= o.reported
           /\ Contradicts(o, r)
  <2>1. result = Conflict(b, {r.id}) /\ result.reconcile
    BY <1>1, <1>6 DEF ApplyOrderReport, Conflict, Refused, Result
  <2> HIDE DEF result
  <2>2. SameBook(b, result.book, {})
    BY <2>1, RefusalTeachesNothing
  <2> QED BY <1>1, <2>1, <2>2 DEF SameBook, p, result
<1>7. CASE Taken
  <2>1. SoundBook(merged)
    <3>1. after \in Order /\ SoundOrder(after)
      BY <1>1, <1>7, OrderAfterReportSound
    <3> HIDE DEF after
    <3> QED BY <1>1, <3>1, OrderUpdateSound
  <2>2. \/ /\ r.type = "Filled" /\ o.state = "Rejected"
           /\ result = Conflict(merged, {r.id}) /\ result.reconcile
        \/ /\ ~(r.type = "Filled" /\ o.state = "Rejected")
           /\ result.book = merged
    BY <1>1, <1>7 DEF ApplyOrderReport, Result, Ignored, Conflict, Refused
  <2> HIDE DEF result, merged, after
  <2>3. SameBook(merged, result.book, {})
    BY <2>1, <2>2, RefusalTeachesNothing
  <2>4. SameBook(b, result.book, {r.id}) /\ SameOrder(after, p)
    BY <1>1, <1>3, <2>3, SameBookThen
  <2>5. Merged(o, p, r)
    BY <1>2, <1>7, <2>4 DEF Merged, Merges, SameOrder, SameCounts
  <2> QED BY <2>2, <2>4, <2>5 DEF result
<1> HIDE DEF result
<1> QED BY <1>1, <1>4, <1>5, <1>6, <1>7 DEF result

\* What a trade that is recorded makes of its order
Fills(o, p, t) ==
  /\ o.state # "Absent" /\ ~Mismatched(o, t) /\ t.quantity > 0
  /\ p.seed = o.seed /\ p.reported = o.reported /\ p.cancelAck = o.cancelAck
  /\ p.accounted = o.accounted + t.quantity
  /\ p.state = IF p.accounted = o.seed.quantity THEN "Filled" ELSE "PartiallyFilled"

\* A trade either leaves the orders and the trades as they are or is recorded;
\* unless the book demands reconciliation it is then among the trades.
LEMMA TradeTaken ==
  ASSUME NEW b, SoundBook(b), NEW t \in TradeReport
  PROVE  LET result == ApplyTrade(b, t)
             c == result.book
             o == b.orders[t.id] IN
         /\ \A p \in Orders \ {t.id} : SameOrder(b.orders[p], c.orders[p])
         /\ \/ SameBook(b, c, {}) /\ (~result.reconcile => t \in b.trades)
            \/ /\ SameKey(b, t) = {} /\ Fills(o, c.orders[t.id], t)
               /\ c.trades = b.trades \cup {t}
               /\ ~result.reconcile =>
                    /\ o.state \notin {"RiskRejected", "SubmitRejectedLocally",
                                       "Rejected"}
                    /\ ~Overcloses(b.positions[t.instrument], t)
                    /\ c = RecordTrade(b, t)
<1> DEFINE o == b.orders[t.id]
           recorded == RecordTrade(b, t)
           after == OrderAfterTrade(o, t)
           result == ApplyTrade(b, t)
           c == result.book
<1>1. /\ o \in Order /\ t.id \in Orders /\ t.quantity \in Int
      /\ t.instrument \in Instruments
  BY DEF SoundBook, Book, TradeReport
<1>2. /\ after.seed = o.seed /\ after.reported = o.reported
      /\ after.cancelAck = o.cancelAck /\ after.accounted = o.accounted + t.quantity
      /\ after.state = IF after.accounted = o.seed.quantity THEN "Filled"
                       ELSE "PartiallyFilled"
  BY <1>1 DEF OrderAfterTrade, Order
<1>3. /\ recorded.trades = b.trades \cup {t} /\ recorded.orders[t.id] = after
      /\ \A p \in Orders \ {t.id} : recorded.orders[p] = b.orders[p]
  BY <1>1 DEF RecordTrade, SoundBook, Book
<1>4. \/ (\E code, ids : result = Refused(b, code, ids)) /\ result.reconcile
      \/ result = Ignored(b, "Duplicate") /\ t \in b.trades
      \/ /\ SameKey(b, t) = {} /\ o.state # "Absent" /\ ~Mismatched(o, t)
         /\ t.quantity > 0
         /\ \/ result.book = Flag(recorded, {t.id}) /\ result.reconcile
            \/ /\ result.book = recorded
               /\ ~Overcloses(b.positions[t.instrument], t)
               /\ o.state \notin {"RiskRejected", "SubmitRejectedLocally", "Rejected"}
  <2>1. t.quantity <= 0 \/ t.quantity > 0
    BY <1>1
  <2> QED BY <2>1 DEF ApplyTrade, Result, Ignored, Conflict, Refused, SameKey
<1>5. CASE \/ (\E code, ids : result = Refused(b, code, ids)) /\ result.reconcile
           \/ result = Ignored(b, "Duplicate") /\ t \in b.trades
  <2> HIDE DEF result
  <2>1. SameBook(b, c, {})
    BY <1>5, RefusalTeachesNothing
  <2>2. \A p \in Orders \ {t.id} : SameOrder(b.orders[p], c.orders[p])
    BY <2>1 DEF SameBook
  <2>3. ~result.reconcile => t \in b.trades
    BY <1>5
  <2> QED BY <2>1, <2>2, <2>3 DEF result
<1>6. CASE /\ SameKey(b, t) = {} /\ o.state # "Absent" /\ ~Mismatched(o, t)
           /\ t.quantity > 0
           /\ \/ result.book = Flag(recorded, {t.id}) /\ result.reconcile
              \/ /\ result.book = recorded
                 /\ ~Overcloses(b.positions[t.instrument], t)
                 /\ o.state \notin {"RiskRejected", "SubmitRejectedLocally", "Rejected"}
  <2>1. SoundBook(recorded)
    BY <1>1, <1>6, RecordTradeSound
  <2> HIDE DEF result, recorded, after
  <2>2. SameBook(recorded, c, {})
    BY <1>6, <2>1, RefusalTeachesNothing
  <2>3. c.trades = b.trades \cup {t} /\ SameOrder(after, c.orders[t.id])
    BY <1>1, <1>3, <2>2 DEF SameBook
  <2>4. Fills(o, c.orders[t.id], t)
    BY <1>2, <1>6, <2>3 DEF Fills, SameOrder, SameCounts
  <2>5. \A p \in Orders \ {t.id} : SameOrder(b.orders[p], c.orders[p])
    BY <1>3, <2>2 DEF SameBook
  <2> QED BY <1>6, <2>3, <2>4, <2>5 DEF result, recorded
<1> QED BY <1>4, <1>5, <1>6

-----------------------------------------------------------------------------
(* What submit and cancel tell the book *)

\* The states of an order that was not sent, as the book knows it
Unsent == {"Absent", "RiskRejected", "SubmitRejectedLocally"}
\* Those of one that was sent and has not ended
Working == {"Submitted", "Accepted", "PartiallyFilled", "CancelRequested"}

\* apply_local_event changes the state of its order only.
LEMMA LocalEventTaken ==
  ASSUME NEW b, SoundBook(b), NEW id \in Orders, NEW event \in LocalEvents
  PROVE  LET c == ApplyLocalEvent(b, id, event).book IN
         /\ SameBook(b, c, {id}) /\ SameCounts(b.orders[id], c.orders[id])
<1> DEFINE o == b.orders[id]
           result == ApplyLocalEvent(b, id, event)
           new == [o EXCEPT !.state = LocalTarget(event)]
           moved == [b EXCEPT !.orders[id] = new]
<1>1. o \in Order /\ SoundOrder(o)
  BY DEF SoundBook, Book
<1>2. SameCounts(o, new) /\ SameCounts(o, o)
  BY <1>1 DEF Order, SameCounts
<1>3. o.state \in LocalSource(event) => new \in Order /\ SoundOrder(new)
  BY <1>1 DEF Order, SoundOrder, LocalSource, LocalEvents, LocalTarget, OrderStates
<1> HIDE DEF new
<1>4. o.state \in LocalSource(event) => SoundBook(moved)
  BY <1>3, OrderUpdateSound
<1>5. SameBook(b, moved, {id}) /\ moved.orders[id] = new
  BY DEF SoundBook, Book, SameBook, SameOrder, SameCounts
<1>6. \/ \E code, ids : result = Refused(b, code, ids) \/ result = Ignored(b, code)
      \/ /\ o.state \in LocalSource(event)
         /\ result.book = moved \/ result.book = Flag(moved, {id})
  BY DEF ApplyLocalEvent, Result, new, Conflict
<1> HIDE DEF moved, result
<1>7. CASE \E code, ids : result = Refused(b, code, ids) \/ result = Ignored(b, code)
  <2>1. SameBook(b, result.book, {})
    BY <1>7, RefusalTeachesNothing
  <2> QED BY <2>1 DEF SameBook, SameOrder, result
<1>8. CASE /\ o.state \in LocalSource(event)
           /\ result.book = moved \/ result.book = Flag(moved, {id})
  <2>1. SameBook(moved, result.book, {})
    BY <1>4, <1>8, RefusalTeachesNothing
  <2>2. SameBook(b, result.book, {id}) /\ SameOrder(new, result.book.orders[id])
    BY <1>5, <2>1, SameBookThen
  <2> QED BY <1>2, <2>2 DEF SameOrder, SameCounts, result
<1> QED BY <1>6, <1>7, <1>8

\* A local event that the state of the order allows
LEMMA LocalEventMoves ==
  ASSUME NEW b, SoundBook(b), NEW id \in Orders, NEW event \in LocalEvents,
         b.orders[id].state \in LocalSource(event)
  PROVE  LET c == ApplyLocalEvent(b, id, event).book IN
         /\ SoundBook(c) /\ SameBook(b, c, {id})
         /\ SameCounts(b.orders[id], c.orders[id])
         /\ c.orders[id].state = LocalTarget(event)
<1>1. SoundBook(ApplyLocalEvent(b, id, event).book)
  BY LocalEventSound
<1>2. ApplyLocalEvent(b, id, event).book.orders[id].state = LocalTarget(event)
  BY LocalEventConcerns
<1> QED BY <1>1, <1>2, LocalEventTaken

\* The states the events of submit start from and lead to
LEMMA LocalMoves ==
  /\ {"RiskAccepted", "RiskRejected", "SubmitRejected", "Submitted",
      "CancelRequested"} \subseteq LocalEvents
  /\ LocalSource("RiskAccepted") = {"Created"}
  /\ LocalSource("RiskRejected") = {"Created"}
  /\ LocalSource("SubmitRejected") = {"RiskAccepted"}
  /\ LocalSource("Submitted") = {"RiskAccepted"}
  /\ LocalSource("CancelRequested") = {"Submitted", "Accepted", "PartiallyFilled"}
  /\ LocalTarget("RiskAccepted") = "RiskAccepted"
  /\ LocalTarget("RiskRejected") = "RiskRejected"
  /\ LocalTarget("SubmitRejected") = "SubmitRejectedLocally"
  /\ LocalTarget("Submitted") = "Submitted"
  /\ LocalTarget("CancelRequested") = "CancelRequested"
BY DEF LocalSource, LocalTarget, LocalEvents

\* Two local events of one order
LEMMA SameBookTwice ==
  ASSUME NEW b, NEW c, NEW d, NEW id, SameBook(b, c, {id}), SameBook(c, d, {id}),
         SameCounts(b.orders[id], c.orders[id]), SameCounts(c.orders[id], d.orders[id])
  PROVE  SameBook(b, d, {id}) /\ SameCounts(b.orders[id], d.orders[id])
BY DEF SameBook, SameOrder, SameCounts

\* What create_order leaves: the order as it is made, or nothing new.
LEMMA CreateOrderTaken ==
  ASSUME NEW b, SoundBook(b), NEW id \in Orders, NEW seed \in Seed
  PROVE  LET result == CreateOrder(b, id, seed)
             p == result.book.orders[id] IN
         /\ SameBook(b, result.book, {id})
         /\ \/ /\ result.code = "Applied" /\ p.state = "Created"
               /\ p.reported = 0 /\ p.cancelAck = FALSE
            \/ result.code # "Applied" /\ SameOrder(b.orders[id], p)
<1> DEFINE new == [NoOrder EXCEPT !.state = "Created", !.seed = seed]
           added == [b EXCEPT !.orders[id] = new]
           result == CreateOrder(b, id, seed)
<1>1. new.state = "Created" /\ new.reported = 0 /\ new.cancelAck = FALSE
  BY DEF NoOrder
<1>2. SameBook(b, added, {id}) /\ added.orders[id] = new
  BY DEF SoundBook, Book, SameBook, SameOrder, SameCounts
<1> HIDE DEF new
<1>3. \/ /\ \E code, ids : result = Refused(b, code, ids) \/ result = Ignored(b, code)
         /\ result.code # "Applied"
      \/ result.book = added /\ result.code = "Applied"
  BY DEF CreateOrder, Conflict, Refused, Ignored, Result, new
<1> HIDE DEF added, result
<1>4. CASE /\ \E code, ids : result = Refused(b, code, ids) \/ result = Ignored(b, code)
           /\ result.code # "Applied"
  <2>1. SameBook(b, result.book, {})
    BY <1>4, RefusalTeachesNothing
  <2> QED BY <1>4, <2>1 DEF SameBook, result
<1>5. CASE result.book = added /\ result.code = "Applied"
  BY <1>1, <1>2, <1>5 DEF result
<1> QED BY <1>3, <1>4, <1>5

\* What the counter says of an order.
Status(o) == counter[o].status

\* Of a step: the order is as it was, to the account and the counter, but for
\* the states of its work and for the cancel requests it has had
KeptOrder(o) ==
  /\ records'[o].occupied = records[o].occupied
  /\ records'[o].intent = records[o].intent
  /\ records'[o].activeOpen = records[o].activeOpen
  /\ SameCounts(book.orders[o], book'.orders[o])
  /\ State(o)' = State(o) \/ {State(o), State(o)'} \subseteq Working
  /\ Status(o)' = Status(o) /\ counter'[o].filled = counter[o].filled

\* Or it is entered, and sent or not
EnteredOrder(o) ==
  /\ o \notin Records /\ o \in Records' /\ Status(o) = "None"
  /\ counter'[o].filled = counter[o].filled
  /\ Accounted(o) = 0 /\ Accounted(o)' = 0
  /\ \/ SameOrder(book.orders[o], book'.orders[o])
     \/ book'.orders[o].reported = 0 /\ book'.orders[o].cancelAck = FALSE
  /\ records'[o].activeOpen =>
       records'[o].occupied /\ records'[o].intent.offset = "Open"
  /\ \/ /\ State(o)' = "Submitted" /\ Status(o)' = "Live"
        /\ records'[o].intent.offset = "Open" => records'[o].activeOpen
     \/ /\ State(o)' \in Unsent /\ Status(o)' = "None"
        /\ ~records'[o].activeOpen

\* submit enters one order, and sends it or not.
LEMMA SubmitTells ==
  ASSUME AccountInv, OrdersInv, NEW intent \in Intent,
         NEW code \in SubmitCodes(intent), SubmitOrder(intent, code)
  PROVE  /\ book'.trades = book.trades /\ book'.positions = book.positions
         /\ \A o \in Orders : KeptOrder(o) \/ EnteredOrder(o)
<1> DEFINE seed == SeedOf(intent)
           record == [NoRecord EXCEPT !.occupied = TRUE, !.intent = intent,
                        !.activeOpen = code = "Submitted" /\ intent.offset = "Open"]
<1>1. /\ SoundBook(book) /\ records \in [Orders -> Record] /\ seed \in Seed
      /\ counter \in [Orders -> CounterOrder]
  BY SeedOfIntent DEF AccountInv, SessionTypes
<1>2. CASE code \in {"Duplicate", "CapacityExceeded"}
  BY <1>2 DEF SubmitOrder, SubmitBook, KeptOrder, SameCounts, State, Status
<1>3. CASE code \notin {"Duplicate", "CapacityExceeded"}
  <2>1. Cardinality(Records) < RecordCapacity
    BY <1>3, RecordsCounted, SessionAssumption DEF SubmitCodes
  <2>2. PICK id \in Orders : id = NextId /\ id \notin Records
    BY <2>1, NextIsFree DEF AccountInv
  <2>3. /\ records' = [records EXCEPT ![id] = record]
        /\ counter' = IF code = "Submitted"
                      THEN [counter EXCEPT ![id].status = "Live"] ELSE counter
        /\ book' = SubmitBook(intent, code)
    BY <1>3, <2>2 DEF SubmitOrder
  <2>4. /\ record.occupied = TRUE /\ record.intent = intent
        /\ record.activeOpen <=> code = "Submitted" /\ intent.offset = "Open"
    BY DEF NoRecord
  <2> HIDE DEF record
  <2>5. /\ records'[id] = record
        /\ \A o \in Orders \ {id} : records'[o] = records[o]
        /\ \A o \in Orders \ {id} : counter'[o] = counter[o]
        /\ counter'[id].status = IF code = "Submitted" THEN "Live" ELSE Status(id)
        /\ counter'[id].filled = counter[id].filled
    BY <1>1, <2>3 DEF CounterOrder, Status
  <2> DEFINE create == CreateOrder(book, id, seed)
             created == create.book
             accepted == ApplyLocalEvent(created, id, "RiskAccepted").book
             rejected == ApplyLocalEvent(created, id, "RiskRejected").book
             refused == ApplyLocalEvent(accepted, id, "SubmitRejected").book
             sent == ApplyLocalEvent(accepted, id, "Submitted").book
  <2>6. {"RiskAccepted", "RiskRejected", "SubmitRejected", "Submitted"}
          \subseteq LocalEvents
    BY DEF LocalEvents
  <2>7. /\ State(id) = "Absent" /\ Accounted(id) = 0 /\ Status(id) = "None"
    BY <2>2 DEF OrdersInv, BookNamesRecords, State, OnlyRecords, Status, Accounted
  <2>8. /\ SoundBook(created) /\ SameBook(book, created, {id})
        /\ \/ /\ create.code = "Applied" /\ created.orders[id].state = "Created"
              /\ created.orders[id].reported = 0
              /\ created.orders[id].cancelAck = FALSE
              /\ created.orders[id].accounted = 0
           \/ create.code # "Applied" /\ SameOrder(book.orders[id], created.orders[id])
    BY <1>1, CreateOrderSound, CreateOrderTaken, CreateOrderAdds
  <2>9. code \in {"TableFull", "RiskRejected", "NotBuilt", "Refused", "Submitted"}
        /\ (code = "TableFull" <=> create.code # "Applied")
    BY <1>3, <2>2 DEF SubmitCodes, SendOutcomes
  <2>10. book' = CASE code = "TableFull" -> created
                   [] code = "RiskRejected" -> rejected
                   [] code \in {"NotBuilt", "Refused"} -> refused
                   [] code = "Submitted" -> sent
    BY <2>2, <2>3, <2>9 DEF SubmitBook
  <2> HIDE DEF create, created
  <2>11. CASE code = "TableFull"
    <3>1. SameBook(book, book', {id}) /\ SameOrder(book.orders[id], book'.orders[id])
      BY <2>8, <2>9, <2>10, <2>11 DEF created
    <3>2. EnteredOrder(id)
      BY <2>2, <2>4, <2>5, <2>7, <2>11, <3>1
      DEF EnteredOrder, Unsent, State, Status, SameOrder, SameCounts, Records, Accounted
    <3>3. \A o \in Orders \ {id} : KeptOrder(o)
      BY <2>5, <3>1 DEF KeptOrder, SameBook, SameOrder, State, Status
    <3> QED BY <3>1, <3>2, <3>3 DEF SameBook
  <2>12. CASE code # "TableFull"
    <3>0. create.code = "Applied" /\ created.orders[id].state = "Created"
      BY <2>8, <2>9, <2>12
    <3>1. /\ SoundBook(accepted) /\ SameBook(created, accepted, {id})
          /\ SameCounts(created.orders[id], accepted.orders[id])
          /\ accepted.orders[id].state = "RiskAccepted"
      BY <2>8, <3>0, LocalEventMoves, LocalMoves
    <3>2. /\ SameBook(created, rejected, {id})
          /\ SameCounts(created.orders[id], rejected.orders[id])
          /\ rejected.orders[id].state = "RiskRejected"
      BY <2>8, <3>0, LocalEventMoves, LocalMoves
    <3> HIDE DEF accepted
    <3>3. /\ SameBook(accepted, refused, {id})
          /\ SameCounts(accepted.orders[id], refused.orders[id])
          /\ refused.orders[id].state = "SubmitRejectedLocally"
      BY <3>1, LocalEventMoves, LocalMoves
    <3>4. /\ SameBook(accepted, sent, {id})
          /\ SameCounts(accepted.orders[id], sent.orders[id])
          /\ sent.orders[id].state = "Submitted"
      <4>1. /\ "Submitted" \in LocalEvents /\ LocalTarget("Submitted") = "Submitted"
            /\ accepted.orders[id].state \in LocalSource("Submitted")
        BY <3>1, LocalMoves
      <4> QED BY <3>1, <4>1, LocalEventMoves
    <3> HIDE DEF rejected, refused, sent
    <3>5. /\ SameBook(created, book', {id})
          /\ SameCounts(created.orders[id], book'.orders[id])
          /\ State(id)' = IF code = "Submitted" THEN "Submitted"
                          ELSE IF code = "RiskRejected" THEN "RiskRejected"
                          ELSE "SubmitRejectedLocally"
      BY <2>9, <2>10, <2>12, <3>1, <3>2, <3>3, <3>4, SameBookTwice DEF State
    <3>6. SameBook(book, book', {id})
      BY <2>8, <3>5 DEF SameBook, SameOrder, SameCounts
    <3>7. /\ book'.orders[id].reported = 0 /\ book'.orders[id].cancelAck = FALSE
          /\ book'.orders[id].accounted = 0
      BY <2>8, <2>9, <2>12, <3>5 DEF SameCounts
    <3>8. EnteredOrder(id)
      BY <2>2, <2>4, <2>5, <2>7, <3>5, <3>7
      DEF EnteredOrder, Unsent, Status, Records, Accounted
    <3>9. \A o \in Orders \ {id} : KeptOrder(o)
      BY <2>5, <3>6 DEF KeptOrder, SameBook, SameOrder, State, Status
    <3> QED BY <3>6, <3>8, <3>9 DEF SameBook
  <2> QED BY <2>11, <2>12
<1> QED BY <1>2, <1>3

\* cancel tells the book no more than that it asks, and takes that back.
LEMMA CancelTells ==
  ASSUME AccountInv, NEW o \in Orders, NEW code, CancelOrder(o, code)
  PROVE  /\ book'.trades = book.trades /\ book'.positions = book.positions
         /\ \A p \in Orders :
              /\ SameCounts(book.orders[p], book'.orders[p])
              /\ State(p)' = State(p) \/ {State(p), State(p)'} \subseteq Working
              /\ Status(p)' = Status(p) /\ counter'[p].filled = counter[p].filled
<1> DEFINE requested == ApplyLocalEvent(book, o, "CancelRequested").book
           undone == ApplyOrderReport(requested, CancelReport(o)).book
           was == book.orders[o]
<1>1. /\ SoundBook(book) /\ "CancelRequested" \in LocalEvents
      /\ CancelReport(o) \in OrderReport /\ CancelReport(o).id = o
      /\ CancelReport(o).type = "CancelRejected" /\ CancelReport(o).cum = 0
      /\ counter \in [Orders -> CounterOrder]
  BY CancelReportType DEF AccountInv, SessionTypes, LocalEvents, CancelReport
<1>2. /\ SoundBook(requested) /\ SameBook(book, requested, {o})
      /\ SameCounts(was, requested.orders[o])
      /\ \/ requested.orders[o].state = was.state
         \/ was.state \in Working /\ requested.orders[o].state = "CancelRequested"
  <2>1. SoundBook(requested)
    BY <1>1, LocalEventSound
  <2>2. SameBook(book, requested, {o}) /\ SameCounts(was, requested.orders[o])
    BY <1>1, LocalEventTaken
  <2>3. /\ was.state \in LocalSource("CancelRequested") =>
             requested.orders[o].state = LocalTarget("CancelRequested")
        /\ was.state \notin LocalSource("CancelRequested") =>
             requested.orders[o].state = was.state
    BY <1>1, LocalEventConcerns
  <2> HIDE DEF requested
  <2> QED BY <2>1, <2>2, <2>3, LocalMoves DEF Working
<1> HIDE DEF requested
<1>3. /\ SameBook(requested, undone, {o})
      /\ SameCounts(requested.orders[o], undone.orders[o])
      /\ \/ undone.orders[o].state = requested.orders[o].state
         \/ /\ requested.orders[o].state = "CancelRequested"
            /\ undone.orders[o].state = "Accepted"
  <2>1. requested.orders[o].reported \in Nat /\ requested.orders[o].cancelAck \in BOOLEAN
        /\ undone.orders[o].cancelAck \in BOOLEAN
    BY <1>1, <1>2, OrderReportSound DEF SoundBook, Book, Order
  <2>2. /\ SameBook(requested, undone, {o})
        /\ \/ SameOrder(requested.orders[o], undone.orders[o])
           \/ Merged(requested.orders[o], undone.orders[o], CancelReport(o))
    BY <1>1, <1>2, ReportTaken
  <2>3. ASSUME Merged(requested.orders[o], undone.orders[o], CancelReport(o))
        PROVE  /\ SameCounts(requested.orders[o], undone.orders[o])
               /\ \/ undone.orders[o].state = requested.orders[o].state
                  \/ /\ requested.orders[o].state = "CancelRequested"
                     /\ undone.orders[o].state = "Accepted"
    <3>1. undone.orders[o].reported = 0 /\ requested.orders[o].reported = 0
      BY <1>1, <2>1, <2>3 DEF Merged, Merges
    <3>2. undone.orders[o].cancelAck = requested.orders[o].cancelAck
      BY <1>1, <2>1, <2>3 DEF Merged, Merges
    <3>3. \/ undone.orders[o].state = requested.orders[o].state
          \/ /\ requested.orders[o].state = "CancelRequested"
             /\ undone.orders[o].state = "Accepted"
      BY <1>1, <2>3 DEF Merged, Merges, StateAfterReport, ReportSource, ReportTarget
    <3> QED BY <2>3, <3>1, <3>2, <3>3 DEF Merged, Merges, SameCounts
  <2> QED BY <2>2, <2>3 DEF SameOrder
<1> HIDE DEF undone
<1>4. book' \in {book, requested, undone}
  BY DEF CancelOrder, requested, undone
<1>5. /\ SameBook(book, book', {o}) /\ SameCounts(was, book'.orders[o])
      /\ book'.orders[o].state = was.state
         \/ {was.state, book'.orders[o].state} \subseteq Working
  <2>1. SameBook(book, book, {o}) /\ SameCounts(was, was)
    BY DEF SameBook, SameOrder, SameCounts
  <2>2. SameBook(book, undone, {o}) /\ SameCounts(was, undone.orders[o])
    BY <1>2, <1>3, SameBookTwice
  <2>3. "Accepted" \in Working /\ "CancelRequested" \in Working
    BY DEF Working
  <2> QED BY <1>2, <1>3, <1>4, <2>1, <2>2, <2>3
<1>6. counter' = counter
        \/ counter' = [counter EXCEPT ![o].asked = TRUE, ![o].asks = @ + 1]
  BY DEF CancelOrder
<1>7. \A p \in Orders : counter'[p].status = counter[p].status
                        /\ counter'[p].filled = counter[p].filled
  BY <1>1, <1>6 DEF CounterOrder
<1> QED BY <1>5, <1>7 DEF SameBook, SameOrder, State, Status

\* Marking and aging records releases no slot.
LEMMA MarksNoSlot ==
  ASSUME records \in [Orders -> Record], NEW o \in Orders, NEW code, NEW last,
         records' \in {CancelRecord(records, o, code),
                       CancelRecord(Aged(last), o, code), Aged(last), records}
  PROVE  \A p \in Orders : records'[p].activeOpen = records[p].activeOpen
BY AgedKeeps, CancelRecordKeeps

\* cancel and on_market, unless it sends an exit order, release none.
LEMMA CallKeepsSlots ==
  ASSUME AccountInv, Cancel \/ ExitImpossible \/ AwaitExit \/ AwaitEntries
  PROVE  \A p \in Orders : records'[p].activeOpen = records[p].activeOpen
<1>1. /\ records \in [Orders -> Record]
      /\ exit.active => exit.id \in Orders
  BY DEF AccountInv, SessionTypes
<1>2. CASE records' = records
  BY <1>2
<1>3. CASE Cancel
  <2>1. \E o \in Orders : \E code : records' = CancelRecord(records, o, code)
    BY <1>3 DEF Cancel
  <2> QED BY <1>1, <2>1, MarksNoSlot
<1>4. CASE AwaitExit
  <2>1. exit.id \in Orders
    BY <1>1, <1>4 DEF AwaitExit
  <2>2. records' = records \/ \E code : records' = CancelRecord(records, exit.id, code)
    BY <1>4 DEF AwaitExit
  <2> QED BY <1>1, <2>1, <2>2, MarksNoSlot
<1>5. CASE AwaitEntries
  <2>1. TimedOut # {} => FirstTimedOut \in Orders
    <3>1. TimedOut \subseteq Orders
      BY DEF TimedOut, Aging, Records
    <3>2. TimedOut # {} => \E o \in TimedOut : \A p \in TimedOut : o <= p
      BY <3>1, FirstOfOrders
    <3> QED BY <3>1, <3>2 DEF FirstTimedOut
  <2>2. CASE records' = Aged(RecordCapacity)
    BY <1>1, <2>2, AgedKeeps
  <2>3. CASE /\ TimedOut # {}
             /\ \E code : records' = CancelRecord(Aged(FirstTimedOut),
                                                  FirstTimedOut, code)
    BY <1>1, <2>1, <2>3, MarksNoSlot
  <2> QED BY <1>5, <2>2, <2>3 DEF AwaitEntries
<1> QED BY <1>2, <1>3, <1>4, <1>5 DEF ExitImpossible

-----------------------------------------------------------------------------
(* The slots and the orders at the counter *)

\* The statuses and the reports an order ends with
EndTypes == {"Rejected", "Canceled", "Filled"}
\* The counter has ended the order.
Ended(o) == Status(o) \in EndTypes

\* The counter reports no end before it,
EndsAreTrue ==
  \A i \in 1 .. Len(reports) : reports[i].type \in EndTypes => Ended(reports[i].id)

\* the book knows of no end before it either, and while the order is at work
\* something of it is left to fill and its slot is held.
SlotTrue(o) ==
  /\ State(o) \in Terminal => ~Live(o)
  /\ Status(o) = "None" => counter[o].filled = 0
  /\ Live(o) => /\ o \in Records /\ counter[o].filled < Quantity(o)
                /\ records[o].intent.offset = "Open" => records[o].activeOpen

SlotInv == TradesFollow /\ EndsAreTrue /\ \A o \in Orders : SlotTrue(o)

\* A slot held at work is never given back: the other half of OpenSlots
LEMMA SlotsSuffice == SessionInv /\ SlotInv => OpenSlotsMatchOrders
<1> SUFFICES ASSUME SessionInv, SlotInv PROVE OpenSlotsMatchOrders
  OBVIOUS
<1> DEFINE held == {o \in Records : records[o].activeOpen}
           entries == {o \in Records : records[o].intent.offset = "Open"}
<1>1. \A o \in Orders : HoldsSlot(o)
  BY DEF SessionInv, OpenSlots
<1>2. held = {o \in Orders : records[o].activeOpen}
  BY <1>1 DEF HoldsSlot, Records
<1>3. openOrders = Cardinality(held)
  BY <1>2 DEF SessionInv, OpenSlots, CountOpen
<1>4. {o \in entries : Live(o)} \subseteq held
  BY DEF SlotInv, SlotTrue, Records
<1>5. held \subseteq {o \in entries : State(o) \notin Terminal}
  BY <1>1 DEF HoldsSlot, Records
<1> QED BY <1>3, <1>4, <1>5 DEF OpenSlotsMatchOrders

\* A call: every order is as it was, or it is entered.
LEMMA SlotsCalled ==
  ASSUME AccountInv, AccountInv', OrdersInv', SlotInv,
         UNCHANGED <<reports, trades>>,
         \A o \in Orders : KeptOrder(o) \/ EnteredOrder(o)
  PROVE  SlotInv'
<1>1. TradesFollow'
  <2>1. \A o \in Orders : Accounted(o)' = Accounted(o)
                          /\ counter'[o].filled = counter[o].filled
    BY DEF KeptOrder, EnteredOrder, SameCounts, Accounted
  <2>2. Known' = Known /\ Filled' = Filled
    BY <2>1 DEF Known, Filled
  <2> QED BY <2>2 DEF SlotInv, TradesFollow, Follow
<1>2. EndsAreTrue'
  <2>1. \A o \in Orders : Ended(o) => Ended(o)'
    BY DEF KeptOrder, EnteredOrder, Ended, EndTypes
  <2>2. \A i \in 1 .. Len(reports) : reports[i].id \in Orders
    <3>1. \A i \in 1 .. Len(reports) : reports[i] \in Message
      BY DEF AccountInv, SessionTypes
    <3> QED BY <3>1 DEF Message
  <2> QED BY <2>1, <2>2 DEF SlotInv, EndsAreTrue
<1>3. ASSUME NEW o \in Orders PROVE SlotTrue(o)'
  <2>1. SlotTrue(o)
    BY DEF SlotInv
  <2>2. CASE KeptOrder(o)
    <3>1. State(o)' \in Terminal => State(o) \in Terminal
      BY <2>2 DEF KeptOrder, Working, Terminal
    <3>2. (Live(o)' <=> Live(o)) /\ Quantity(o)' = Quantity(o)
          /\ (o \in Records' <=> o \in Records)
      BY <2>2 DEF KeptOrder, Live, Status, Quantity, Records
    <3> QED BY <2>1, <2>2, <3>1, <3>2 DEF SlotTrue, KeptOrder
  <2>3. CASE EnteredOrder(o)
    <3>1. /\ o \in Records' /\ counter'[o].filled = 0
          /\ Live(o)' => State(o)' = "Submitted"
                         /\ (records'[o].intent.offset = "Open" => records'[o].activeOpen)
          /\ State(o)' \in Terminal => ~Live(o)'
      BY <2>1, <2>3 DEF EnteredOrder, SlotTrue, Live, Status, Unsent, Terminal
    <3>2. Live(o)' => Quantity(o)' > 0
      <4> SUFFICES ASSUME Live(o)' PROVE Quantity(o)' > 0
        OBVIOUS
      <4>1. State(o)' = "Submitted" /\ book'.orders[o].seed.quantity > 0
        BY <3>1 DEF AccountInv, SessionTypes, SoundBook, SoundOrder, State
      <4>2. book'.orders[o].seed = SeedOf(records'[o].intent)
        BY <4>1 DEF OrdersInv, BookNamesRecords
      <4> QED BY <4>1, <4>2 DEF SeedOf, Quantity
    <3> QED BY <3>1, <3>2 DEF SlotTrue
  <2> QED BY <2>2, <2>3
<1> QED BY <1>1, <1>2, <1>3 DEF SlotInv

\* What release_terminal_open does to the record of an order
LEMMA ReleaseTells ==
  ASSUME NEW rs \in [Orders -> Record], NEW b, NEW o \in Orders
  PROVE  \A p \in Orders :
           LET r == Release(rs, b, o)[p] IN
           /\ \/ r.activeOpen = rs[p].activeOpen
              \/ p = o /\ b.orders[o].state \in Terminal
           /\ r.cancelRequested = rs[p].cancelRequested
           /\ r.occupied = rs[p].occupied
BY DEF Release, Record

\* A callback: an order ends in the book only when it has ended, and gives its
\* slot back only then.
LEMMA SlotsReceived ==
  ASSUME AccountInv, SlotInv, SameIntents, counter' = counter,
         TradesFollow', EndsAreTrue', NEW o \in Orders,
         \A p \in Orders \ {o} : /\ State(p)' = State(p)
                                 /\ records'[p].activeOpen = records[p].activeOpen,
         State(o)' \in Terminal => State(o) \in Terminal \/ ~Live(o),
         records'[o].activeOpen = records[o].activeOpen \/ State(o)' \in Terminal
  PROVE  SlotInv'
<1>1. ASSUME NEW p \in Orders PROVE SlotTrue(p)'
  <2>1. SlotTrue(p)
    BY DEF SlotInv
  <2>2. /\ (Live(p)' <=> Live(p)) /\ Quantity(p)' = Quantity(p) /\ Status(p)' = Status(p)
        /\ (p \in Records' <=> p \in Records)
        /\ records'[p].intent = records[p].intent
    BY DEF SameIntents, Live, Status, Quantity, Records
  <2>3. CASE p = o
    BY <2>1, <2>2, <2>3 DEF SlotTrue
  <2>4. CASE p # o
    BY <2>1, <2>2, <2>4 DEF SlotTrue
  <2> QED BY <2>3, <2>4
<1> QED BY <1>1 DEF SlotInv

LEMMA SlotsReported ==
  ASSUME AccountInv, Thawed, SlotInv, ReceiveReport PROVE SlotInv'
<1>0. PICK m \in Message : m = Head(reports)
  <2>1. reports \in Seq(Message) /\ reports # <<>>
    BY DEF AccountInv, SessionTypes, ReceiveReport
  <2> QED BY <2>1
<1> DEFINE r == [id |-> m.id, type |-> m.type, cum |-> m.cum]
           cleared == IF m.kind = "CancelResponse"
                      THEN [records EXCEPT ![m.id].cancelRequested = FALSE]
                      ELSE records
<1>1. /\ SameIntents /\ m \in Message /\ reports # <<>> /\ reports' = Tail(reports)
      /\ reports \in Seq(Message)
      /\ UNCHANGED <<counter, trades>> /\ SoundBook(book)
      /\ records \in [Orders -> Record]
      /\ book' = ApplyOrderReport(book, r).book
      /\ records' = Release(cleared, book', m.id)
  BY <1>0, ReportKinds DEF AccountInv, SessionTypes, ReceiveReport, ReportResult
<1>2. /\ m.id \in Orders /\ r \in OrderReport /\ r.id = m.id /\ r.type = m.type
      /\ m.type \in ReportTypes
  BY <1>1 DEF Message, OrderReport
<1>3. cleared \in [Orders -> Record]
      /\ \A p \in Orders : cleared[p].activeOpen = records[p].activeOpen
  BY <1>1, <1>2 DEF Record
<1> HIDE DEF cleared
<1>4. \A p \in Orders : \/ records'[p].activeOpen = records[p].activeOpen
                        \/ p = m.id /\ State(p)' \in Terminal
  <2>1. \A p \in Orders :
          \/ Release(cleared, book', m.id)[p].activeOpen = cleared[p].activeOpen
          \/ p = m.id /\ book'.orders[m.id].state \in Terminal
    BY <1>2, <1>3, ReleaseTells
  <2> QED BY <1>1, <1>3, <2>1 DEF State
<1>5. /\ SameBook(book, book', {m.id})
      /\ \/ SameOrder(book.orders[m.id], book'.orders[m.id])
         \/ Merged(book.orders[m.id], book'.orders[m.id], r)
  BY <1>1, <1>2, ReportTaken
<1>6. TradesFollow'
  <2>1. \A p \in Orders : Accounted(p)' = Accounted(p)
    BY <1>5 DEF SameBook, SameOrder, SameCounts, Merged, Merges, Accounted
  <2>2. Known' = Known /\ Filled' = Filled
    BY <1>1, <2>1 DEF Known, Filled
  <2> QED BY <1>1, <2>2 DEF SlotInv, TradesFollow, Follow
<1>7. EndsAreTrue' /\ (m.type \in EndTypes => Ended(m.id))
  <2>1. /\ Len(reports) \in Nat /\ Len(reports) > 0 /\ Len(reports') = Len(reports) - 1
        /\ \A i \in 1 .. Len(reports') : reports'[i] = reports[i + 1]
        /\ m = reports[1]
    BY <1>0, <1>1
  <2>2. 1 \in 1 .. Len(reports) /\ \A i \in 1 .. Len(reports') : i + 1 \in 1 .. Len(reports)
    BY <2>1
  <2> QED BY <1>1, <2>1, <2>2 DEF SlotInv, EndsAreTrue, Ended, Status
<1>8. State(m.id)' \in Terminal => State(m.id) \in Terminal \/ ~Live(m.id)
  <2>1. CASE SameOrder(book.orders[m.id], book'.orders[m.id])
    BY <2>1 DEF SameOrder, State
  <2>2. CASE Merged(book.orders[m.id], book'.orders[m.id], r)
    <3>1. State(m.id)' = State(m.id) \/ State(m.id)' = ReportTarget(r)
      BY <2>2 DEF Merged, Merges, StateAfterReport, State
    <3>2. ReportTarget(r) \in Terminal => m.type \in EndTypes
      BY <1>2 DEF ReportTarget, ReportTypes, Terminal, EndTypes
    <3>3. Ended(m.id) => ~Live(m.id)
      BY DEF Ended, EndTypes, Live, Status
    <3> QED BY <1>7, <3>1, <3>2, <3>3
  <2> QED BY <1>5, <2>1, <2>2
<1>9. \A p \in Orders \ {m.id} : State(p)' = State(p)
  BY <1>5 DEF SameBook, SameOrder, State
<1> HIDE DEF r
<1> QED BY <1>1, <1>2, <1>4, <1>6, <1>7, <1>8, <1>9, SlotsReceived

LEMMA SlotsTraded ==
  ASSUME AccountInv, Thawed, OrdersInv, SlotInv, ReceiveTrade PROVE SlotInv'
<1>0. PICK t \in Trade : t = Head(trades)
  <2>1. trades \in Seq(Trade) /\ trades # <<>>
    BY DEF AccountInv, SessionTypes, ReceiveTrade
  <2> QED BY <2>1
<1>1. /\ SameIntents /\ trades # <<>> /\ trades' = Tail(trades) /\ trades \in Seq(Trade)
      /\ UNCHANGED <<counter, reports>> /\ SoundBook(book)
      /\ records \in [Orders -> Record]
      /\ book' = ApplyTrade(book, t).book
      /\ records' = Release(records, book', t.id)
  BY <1>0, TradeKinds DEF AccountInv, SessionTypes, ReceiveTrade
<1>2. t \in Trade /\ t \in TradeReport /\ t.id \in Orders /\ t.quantity \in Nat
  BY DEF Trade, TradeReport
<1>3. \A p \in Orders : \/ records'[p].activeOpen = records[p].activeOpen
                        \/ p = t.id /\ State(p)' \in Terminal
  BY <1>1, <1>2, ReleaseTells DEF State
<1>4. /\ \A p \in Orders \ {t.id} : SameOrder(book.orders[p], book'.orders[p])
      /\ \/ SameOrder(book.orders[t.id], book'.orders[t.id])
         \/ Fills(book.orders[t.id], book'.orders[t.id], t)
  BY <1>1, <1>2, TradeTaken DEF SameBook
<1>5. TradesFollow'
  <2>1. \A p \in Orders :
          \/ Known'[p] = Known[p]
          \/ p = t.id /\ Known'[p] = Known[p] + t.quantity
    BY <1>4 DEF SameOrder, SameCounts, Fills, Known, Accounted
  <2> QED BY <1>0, <1>1, <2>1, TakenFollow DEF SlotInv
<1>6. EndsAreTrue'
  BY <1>1 DEF SlotInv, EndsAreTrue, Ended, Status
<1>7. State(t.id)' \in Terminal => State(t.id) \in Terminal \/ ~Live(t.id)
  <2>1. CASE SameOrder(book.orders[t.id], book'.orders[t.id])
    BY <2>1 DEF SameOrder, State
  <2>2. CASE Fills(book.orders[t.id], book'.orders[t.id], t) /\ Live(t.id)
    <3>1. Accounted(t.id)' <= counter[t.id].filled
      BY <1>1, <1>2, <1>5 DEF TradesFollow, Follow, Known, Filled
    <3>2. counter[t.id].filled < Quantity(t.id)
      BY <1>2, <2>2 DEF SlotInv, SlotTrue
    <3>3. book.orders[t.id].seed.quantity = Quantity(t.id)
      <4>1. State(t.id) # "Absent"
        BY <2>2 DEF Fills, State
      <4>2. book.orders[t.id].seed = SeedOf(records[t.id].intent)
        BY <1>2, <4>1 DEF OrdersInv, BookNamesRecords
      <4> QED BY <4>2 DEF SeedOf, Quantity
    <3>4. Accounted(t.id)' \in Nat /\ counter[t.id].filled \in Nat /\ Quantity(t.id) \in Nat
      <4>1. Accounted(t.id) \in Nat
        BY <1>1, <1>2 DEF SoundBook, Book, Order, Accounted
      <4>2. Accounted(t.id)' \in Nat
        BY <1>2, <2>2, <4>1 DEF Fills, Accounted
      <4> QED BY <1>1, <1>2, <4>2
          DEF AccountInv, SessionTypes, CounterOrder, Record, Intent, Quantity
    <3>5. Accounted(t.id)' # book.orders[t.id].seed.quantity
      BY <3>1, <3>2, <3>3, <3>4
    <3> QED BY <2>2, <3>5 DEF Fills, Accounted, State, Terminal
  <2> QED BY <1>4, <2>1, <2>2
<1>8. \A p \in Orders \ {t.id} : State(p)' = State(p)
  BY <1>4 DEF SameOrder, State
<1> QED BY <1>1, <1>2, <1>3, <1>5, <1>6, <1>7, <1>8, SlotsReceived

\* What the counter does to an order, and the report it sends of it
LEMMA CounterAnswers ==
  ASSUME AccountInv, NEW o \in Orders, CounterStep(o)
  PROVE  /\ \A p \in Orders \ {o} : counter'[p] = counter[p]
         /\ UNCHANGED account
         /\ Live(o)' => Live(o)
         /\ Ended(o) => Ended(o)'
         /\ Status(o)' = "None" => Status(o) = "None"
         /\ \/ counter'[o].filled = counter[o].filled
            \/ /\ Status(o)' # "None"
               /\ Live(o)' => counter'[o].filled < Quantity(o)
         /\ counter'[o].asked => counter[o].asked
         /\ \E m : /\ reports' = Append(reports, m) /\ m.id = o
                   /\ m.type \in EndTypes => Ended(o)'
                   /\ m.type = "CancelRejected" => counter[o].asked /\ ~counter'[o].asked
                   /\ m.kind = "CancelResponse" => m.type = "CancelRejected"
<1>1. /\ counter \in [Orders -> CounterOrder] /\ counter[o].filled \in Nat
      /\ Quantity(o) \in Nat
  BY DEF AccountInv, SessionTypes, CounterOrder, Record, Intent, Quantity
<1>2. CASE CounterAccept(o)
  <2>0. PICK m : m = Report(o, "Order", "Accepted", counter[o].filled)
    OBVIOUS
  <2>1. /\ reports' = Append(reports, m) /\ UNCHANGED account
        /\ counter' = [counter EXCEPT ![o].status = "Accepted"]
        /\ counter[o].status = "Live"
    BY <1>2, <2>0 DEF CounterAccept, Send
  <2>2. /\ \A p \in Orders \ {o} : counter'[p] = counter[p]
        /\ counter'[o].status = "Accepted" /\ counter'[o].filled = counter[o].filled
        /\ counter'[o].asked = counter[o].asked
    BY <1>1, <2>1 DEF CounterOrder
  <2>3. m.id = o /\ m.kind = "Order" /\ m.type = "Accepted"
    BY <2>0 DEF Report
  <2> QED BY <2>1, <2>2, <2>3 DEF Live, Ended, Status, EndTypes
<1>3. CASE CounterReject(o) \/ CounterCancel(o)
  <2>1. PICK type \in {"Rejected", "Canceled"} : \E cum :
          /\ reports' = Append(reports, Report(o, "Order", type, cum))
          /\ UNCHANGED account /\ Live(o)
          /\ counter' = [counter EXCEPT ![o].status = type, ![o].asked = FALSE]
    BY <1>3 DEF CounterReject, CounterCancel, Send
  <2>2. /\ \A p \in Orders \ {o} : counter'[p] = counter[p]
        /\ counter'[o].status = type /\ counter'[o].filled = counter[o].filled
        /\ ~counter'[o].asked
    BY <1>1, <2>1 DEF CounterOrder
  <2>3. PICK m : /\ reports' = Append(reports, m)
                 /\ m.id = o /\ m.kind = "Order" /\ m.type = type
    BY <2>1 DEF Report
  <2> QED BY <2>1, <2>2, <2>3 DEF Live, Ended, Status, EndTypes
<1>4. CASE CounterRefuse(o)
  <2>1. PICK m \in {Report(o, "CancelResponse", "CancelRejected", 0),
                    Report(o, "Order", "CancelRejected", counter[o].filled)} :
          reports' = Append(reports, m)
    BY <1>4 DEF CounterRefuse, Send
  <2>2. /\ UNCHANGED account /\ counter[o].asked
        /\ counter' = [counter EXCEPT ![o].asked = FALSE]
    BY <1>4 DEF CounterRefuse
  <2>3. /\ \A p \in Orders \ {o} : counter'[p] = counter[p]
        /\ counter'[o].status = counter[o].status
        /\ counter'[o].filled = counter[o].filled /\ ~counter'[o].asked
    BY <1>1, <2>2 DEF CounterOrder
  <2>4. m.id = o /\ m.type = "CancelRejected"
    BY <2>1 DEF Report
  <2> QED BY <2>1, <2>2, <2>3, <2>4 DEF Live, Ended, Status, EndTypes
<1>5. CASE CounterFill(o)
  <2>1. PICK cum \in (counter[o].filled + 1) .. Quantity(o) :
          /\ reports' = Append(reports,
               Report(o, "Order",
                      IF cum = Quantity(o) THEN "Filled" ELSE "PartiallyFilled", cum))
          /\ UNCHANGED account /\ Live(o)
          /\ counter' = [counter EXCEPT
                           ![o].filled = cum,
                           ![o].status = IF cum = Quantity(o) THEN "Filled"
                                         ELSE "Accepted"]
    BY <1>5 DEF CounterFill, Send
  <2>2. PICK status : status = IF cum = Quantity(o) THEN "Filled" ELSE "Accepted"
    OBVIOUS
  <2>3. /\ \A p \in Orders \ {o} : counter'[p] = counter[p]
        /\ counter'[o].status = status /\ counter'[o].filled = cum
        /\ counter'[o].asked = counter[o].asked
    BY <1>1, <2>1, <2>2 DEF CounterOrder
  <2>4. PICK m : /\ reports' = Append(reports, m) /\ m.id = o /\ m.kind = "Order"
                 /\ m.type = IF cum = Quantity(o) THEN "Filled" ELSE "PartiallyFilled"
    BY <2>1 DEF Report
  <2>5. /\ \/ Status(o)' = "Filled" /\ cum = Quantity(o)
           \/ Status(o)' = "Accepted" /\ cum # Quantity(o)
        /\ cum # Quantity(o) => cum < Quantity(o)
    BY <1>1, <2>2, <2>3 DEF Status
  <2>6. ~Ended(o) /\ (m.type \in EndTypes => Ended(o)')
    BY <2>1, <2>2, <2>3, <2>4 DEF Live, Ended, Status, EndTypes
  <2> QED BY <2>1, <2>2, <2>3, <2>4, <2>5, <2>6 DEF Live, Status
<1> QED BY <1>2, <1>3, <1>4, <1>5 DEF CounterStep

\* The counter ends an order and reports the end in one step, and fills one it
\* leaves at work in part only.
LEMMA SlotsCountered ==
  ASSUME AccountInv, AccountInv', SlotInv, NEW o \in Orders, CounterStep(o)
  PROVE  SlotInv'
<1>1. UNCHANGED <<book, records>>
  BY CounterAnswers DEF account
<1>2. TradesFollow'
  <2>1. CASE CounterFill(o)
    BY <2>1, FillsFilled DEF SlotInv
  <2>2. CASE ~CounterFill(o)
    <3>1. /\ trades' = trades
          /\ \A p \in Orders : counter'[p].filled = counter[p].filled
      BY <2>2, FilledByFill
      DEF CounterStep, CounterAccept, CounterReject, CounterCancel, CounterRefuse
    <3>2. Known' = Known /\ Filled' = Filled
      BY <1>1, <3>1 DEF Known, Accounted, Filled
    <3> QED BY <3>1, <3>2 DEF SlotInv, TradesFollow, Follow
  <2> QED BY <2>1, <2>2
<1>3. EndsAreTrue'
  <2>1. PICK m : /\ reports' = Append(reports, m) /\ m.id = o
                 /\ m.type \in EndTypes => Ended(o)'
    BY CounterAnswers
  <2>2. \A p \in Orders : Ended(p) => Ended(p)'
    BY CounterAnswers DEF Ended, Status
  <2>3. reports \in Seq(Message) /\ \A i \in 1 .. Len(reports) : reports[i].id \in Orders
    <3>1. reports \in Seq(Message)
      BY DEF AccountInv, SessionTypes
    <3>2. \A i \in 1 .. Len(reports) : reports[i] \in Message
      BY <3>1
    <3> QED BY <3>1, <3>2 DEF Message
  <2>4. \A i \in 1 .. Len(reports') :
          \/ i \in 1 .. Len(reports) /\ reports'[i] = reports[i]
          \/ reports'[i] = m
    BY <2>1, <2>3
  <2>5. ASSUME NEW i \in 1 .. Len(reports'), reports'[i].type \in EndTypes
        PROVE  counter'[reports'[i].id].status \in EndTypes
    <3>1. CASE i \in 1 .. Len(reports) /\ reports'[i] = reports[i]
      <4>1. PICK p \in Orders : p = reports[i].id
        BY <2>3, <3>1
      <4>2. Ended(p)'
        BY <2>2, <2>5, <3>1, <4>1 DEF SlotInv, EndsAreTrue
      <4> QED BY <3>1, <4>1, <4>2 DEF Ended, Status
    <3>2. CASE reports'[i] = m
      BY <2>1, <2>5, <3>2 DEF Ended, Status
    <3> QED BY <2>4, <3>1, <3>2
  <2> QED BY <2>5 DEF EndsAreTrue, Ended, Status
<1>4. ASSUME NEW p \in Orders PROVE SlotTrue(p)'
  <2>1. SlotTrue(p)
    BY DEF SlotInv
  <2>2. CASE p # o
    BY <1>1, <2>1, <2>2, CounterAnswers DEF SlotTrue, State, Status, Live, Records, Quantity
  <2>3. CASE p = o
    BY <1>1, <2>1, <2>3, CounterAnswers DEF SlotTrue, State, Records, Quantity
  <2> QED BY <2>2, <2>3
<1> QED BY <1>2, <1>3, <1>4 DEF SlotInv

\* Of what StepKinds tells apart, nothing else gives a slot back or takes one.
LEMMA SlotMoves ==
  ASSUME AccountInv, [Next]_vars
  PROVE  \/ EntersOrder \/ SubmitExit \/ ReceiveReport \/ ReceiveTrade
         \/ \E o \in Orders : CounterStep(o)
         \/ \A o \in Orders : records'[o].activeOpen = records[o].activeOpen
<1>1. CASE OnMarket
  BY <1>1, DueExitKinds, CallKeepsSlots DEF OnMarket, DropsExit
<1>2. CASE Submit
  BY <1>2 DEF Submit, EntersOrder
<1>3. CASE Cancel
  BY <1>3, CallKeepsSlots
<1>4. CASE ReceiveUnknown \/ UNCHANGED vars
  BY <1>4 DEF ReceiveUnknown, vars
<1> QED BY <1>1, <1>2, <1>3, <1>4 DEF Next

LEMMA SlotStep ==
  ASSUME AccountInv, AccountInv', Thawed, OrdersInv, OrdersInv', SlotInv, [Next]_vars
  PROVE  SlotInv'
<1>1. CASE EntersOrder \/ SubmitExit
  <2>1. PICK intent \in Intent : \E code \in SubmitCodes(intent) :
          SubmitOrder(intent, code)
    BY <1>1, IntentsOfCalls DEF EntersOrder, SubmitExit
  <2>2. UNCHANGED <<reports, trades>>
    BY <2>1 DEF SubmitOrder
  <2>3. \A o \in Orders : KeptOrder(o) \/ EnteredOrder(o)
    BY <2>1, SubmitTells
  <2> QED BY <2>2, <2>3, SlotsCalled
<1>2. ASSUME CancelsOrder \/ Waits \/ DropsExit,
             \A o \in Orders : records'[o].activeOpen = records[o].activeOpen
      PROVE  SlotInv'
  <2>1. SameIntents /\ UNCHANGED <<reports, trades>>
    BY <1>2 DEF CancelsOrder, Waits, DropsExit, SameIntents, CancelOrder, environment
  <2>2. \A o \in Orders :
          /\ SameCounts(book.orders[o], book'.orders[o])
          /\ State(o)' = State(o) \/ {State(o), State(o)'} \subseteq Working
          /\ Status(o)' = Status(o) /\ counter'[o].filled = counter[o].filled
    <3>1. CASE CancelsOrder
      BY <3>1, CancelTells DEF CancelsOrder
    <3>2. CASE Waits \/ DropsExit
      BY <3>2 DEF Waits, DropsExit, environment, SameCounts, State, Status
    <3> QED BY <1>2, <3>1, <3>2
  <2>3. \A o \in Orders : KeptOrder(o)
    BY <1>2, <2>1, <2>2 DEF SameIntents, KeptOrder
  <2> QED BY <2>1, <2>3, SlotsCalled
<1>3. CASE ReceiveReport \/ ReceiveTrade
  BY <1>3, SlotsReported, SlotsTraded
<1>4. CASE \E o \in Orders : CounterStep(o)
  BY <1>4, SlotsCountered
<1> QED BY <1>1, <1>2, <1>3, <1>4, StepKinds, SlotMoves

LEMMA SlotInit == Init => SlotInv
<1> SUFFICES ASSUME Init PROVE SlotInv
  OBVIOUS
<1>1. TradesFollow
  <2>1. trades = <<>> /\ \A o \in Orders : /\ counter[o].filled = 0
                                           /\ Accounted(o) = 0
    BY DEF Init, NothingYet, NoCounterOrder, Accounted, EmptyBook, NoOrder
  <2> QED BY <2>1 DEF TradesFollow, Follow, Known, Filled
<1>2. EndsAreTrue
  BY DEF Init, NothingYet, EndsAreTrue
<1>3. \A o \in Orders : SlotTrue(o)
  BY DEF Init, NothingYet, NoCounterOrder, EmptyBook, NoOrder, SlotTrue, State, Status,
         Live, Terminal
<1> QED BY <1>1, <1>2, <1>3 DEF SlotInv

\* For any entries and limits: an entry at work at the counter holds a slot, and
\* a slot is held by an entry of which the book knows no end, however reports and
\* trades overtake each other (submit, release_terminal_open).
THEOREM SlotsMatchOrders == Spec => []OpenSlotsMatchOrders
<1>1. (AccountInv /\ AccountInv' /\ Thawed /\ OrdersInv /\ OrdersInv' /\ SlotInv)
        /\ [Next]_vars => SlotInv'
  BY SlotStep
<1>2. SessionInv /\ SlotInv => OpenSlotsMatchOrders
  BY SlotsSuffice
<1> QED BY <1>1, <1>2, SlotInit, AlwaysSessionInv, AlwaysOrdersInv, PTL DEF Spec

-----------------------------------------------------------------------------
(* One cancel request at a time *)

Asked(o) == counter[o].asked
Requested(o) == records[o].cancelRequested
Refusal(i, o) == reports[i].id = o /\ reports[i].type = "CancelRejected"

\* The account knows of a request until it has taken the refusal of it: the one
\* the counter has still to answer, or the one answer on its way.
AskedOnce(o) ==
  /\ Requested(o) => records[o].occupied
  /\ Asked(o) => Requested(o)
  /\ \A i \in 1 .. Len(reports) :
       Refusal(i, o) =>
         /\ Requested(o) /\ ~Asked(o)
         /\ \A j \in 1 .. Len(reports) : Refusal(j, o) => j = i

\* Only a response to a refusal clears the flag.
ResponsesRefuse ==
  \A i \in 1 .. Len(reports) :
    reports[i].kind = "CancelResponse" => reports[i].type = "CancelRejected"

AskInv == ResponsesRefuse /\ \A o \in Orders : AskedOnce(o)

\* A step that leaves the requests as they are, and one that sends one
SameRequest(o) ==
  /\ Asked(o)' = Asked(o) /\ Requested(o)' = Requested(o)
  /\ records[o].occupied => records'[o].occupied
NewRequest(o) ==
  /\ records[o].occupied /\ records'[o].occupied
  /\ ~Requested(o) /\ Requested(o)'

LEMMA RequestsStay ==
  ASSUME AskInv, reports' = reports,
         \A o \in Orders : SameRequest(o) \/ NewRequest(o)
  PROVE  AskInv'
<1>1. ASSUME NEW o \in Orders PROVE AskedOnce(o)'
  <2>1. AskedOnce(o)
    BY DEF AskInv
  <2>2. \A i : Refusal(i, o)' <=> Refusal(i, o)
    BY DEF Refusal
  <2> QED BY <2>1, <2>2 DEF AskedOnce, SameRequest, NewRequest
<1> QED BY <1>1 DEF AskInv, ResponsesRefuse

\* submit takes a record that nothing was asked of.
LEMMA SubmitAsksNothing ==
  ASSUME AccountInv, NEW intent \in Intent, NEW code \in SubmitCodes(intent),
         SubmitOrder(intent, code), \A o \in Orders : Requested(o) => records[o].occupied
  PROVE  /\ reports' = reports
         /\ \A o \in Orders : SameRequest(o) /\ counter'[o].asks = counter[o].asks
<1>1. /\ reports' = reports /\ counter \in [Orders -> CounterOrder]
      /\ records \in [Orders -> Record]
      /\ counter' = counter \/ counter' = [counter EXCEPT ![NextId].status = "Live"]
  BY DEF SubmitOrder, AccountInv, SessionTypes
<1>2. \A o \in Orders : counter'[o].asked = counter[o].asked
                        /\ counter'[o].asks = counter[o].asks
  BY <1>1 DEF CounterOrder
<1>3. CASE records' = records
  BY <1>1, <1>2, <1>3 DEF SameRequest, Asked, Requested
<1>4. CASE records' # records
  <2>1. PICK activeOpen : records' = [records EXCEPT ![NextId] =
          [NoRecord EXCEPT !.occupied = TRUE, !.intent = intent, !.activeOpen = activeOpen]]
    BY <1>4 DEF SubmitOrder
  <2>2. Cardinality(Records) < RecordCapacity
    BY <1>4, RecordsCounted, SessionAssumption DEF SubmitOrder, SubmitCodes
  <2>3. NextId \in Orders /\ ~records[NextId].occupied
    BY <2>2, NextIsFree DEF AccountInv, Records
  <2>4. records'[NextId].occupied /\ ~records'[NextId].cancelRequested
        /\ \A o \in Orders \ {NextId} : records'[o] = records[o]
    BY <1>1, <2>1, <2>3 DEF NoRecord
  <2>5. records[NextId].cancelRequested = FALSE /\ records'[NextId].cancelRequested = FALSE
    BY <1>1, <2>1, <2>3 DEF Record, NoRecord, Requested
  <2> QED BY <1>1, <1>2, <2>3, <2>4, <2>5 DEF SameRequest, Asked, Requested
<1> QED BY <1>3, <1>4

\* A cancel sends a request of an order nothing was asked of, and marks its record,
\* or sends none.
LEMMA CancelAsks ==
  ASSUME AccountInv, NEW o \in Orders, NEW code \in CancelCodes(o), CancelOrder(o, code)
  PROVE  /\ reports' = reports
         /\ \A p \in Orders \ {o} : counter'[p] = counter[p]
         /\ IF code = "Requested" THEN records[o].occupied /\ ~Requested(o)
            ELSE counter' = counter
<1>1. counter \in [Orders -> CounterOrder]
  BY DEF AccountInv, SessionTypes
<1> QED BY <1>1 DEF CancelOrder, CancelCodes, Requested

LEMMA CancelMarks ==
  ASSUME AccountInv, NEW o \in Orders, NEW code \in CancelCodes(o), CancelOrder(o, code),
         NEW last, records' \in {CancelRecord(records, o, code),
                                 CancelRecord(Aged(last), o, code)}
  PROVE  reports' = reports /\ \A p \in Orders : SameRequest(p) \/ NewRequest(p)
<1>1. records \in [Orders -> Record]
  BY DEF AccountInv, SessionTypes
<1>2. PICK rs \in [Orders -> Record] :
        /\ records' = CancelRecord(rs, o, code)
        /\ \A p \in Orders : /\ rs[p].occupied = records[p].occupied
                             /\ rs[p].cancelRequested = records[p].cancelRequested
  <2>1. /\ Aged(last) \in [Orders -> Record]
        /\ \A p \in Orders :
             /\ Aged(last)[p].occupied = records[p].occupied
             /\ Aged(last)[p].cancelRequested = records[p].cancelRequested
    BY <1>1, AgedKeeps DEF Aged, Record
  <2> QED BY <1>1, <2>1
<1>3. \A p \in Orders :
        /\ records'[p].occupied = records[p].occupied
        /\ records'[p].cancelRequested =
             IF p = o /\ code = "Requested" THEN TRUE ELSE records[p].cancelRequested
  BY <1>2 DEF CancelRecord, Record
<1> QED BY <1>3, CancelAsks DEF SameRequest, NewRequest, Asked, Requested

LEMMA CallAsks ==
  ASSUME AccountInv, Cancel \/ ExitImpossible \/ AwaitExit \/ AwaitEntries
  PROVE  reports' = reports /\ \A p \in Orders : SameRequest(p) \/ NewRequest(p)
<1>1. /\ records \in [Orders -> Record]
      /\ exit.active => exit.id \in Orders
  BY DEF AccountInv, SessionTypes
<1>2. CASE UNCHANGED <<reports, records, counter>>
  BY <1>2 DEF SameRequest, Asked, Requested
<1>3. CASE Cancel
  BY <1>3, CancelMarks DEF Cancel
<1>4. CASE AwaitExit
  BY <1>1, <1>2, <1>4, CancelMarks DEF AwaitExit, environment
<1>5. CASE AwaitEntries
  <2>1. TimedOut # {} => FirstTimedOut \in Orders
    <3>1. TimedOut \subseteq Orders
      BY DEF TimedOut, Aging, Records
    <3>2. TimedOut # {} => \E o \in TimedOut : \A p \in TimedOut : o <= p
      BY <3>1, FirstOfOrders
    <3> QED BY <3>1, <3>2 DEF FirstTimedOut
  <2>2. CASE TimedOut = {}
    <3>1. records' = Aged(RecordCapacity) /\ UNCHANGED <<reports, counter>>
      BY <1>5, <2>2 DEF AwaitEntries, environment
    <3> QED BY <1>1, <3>1 DEF Aged, Record, SameRequest, Asked, Requested
  <2>3. CASE TimedOut # {}
    BY <1>5, <2>1, <2>3, CancelMarks DEF AwaitEntries
  <2> QED BY <2>2, <2>3
<1> QED BY <1>2, <1>3, <1>4, <1>5 DEF ExitImpossible, environment

\* The response to a refusal is the only answer, so the flag it clears stands for
\* nothing any more; other reports and trades leave the flags alone.
LEMMA ReportAsks ==
  ASSUME AccountInv, Thawed, AskInv, ReceiveReport PROVE AskInv'
<1>0. PICK m \in Message : m = Head(reports)
  <2>1. reports \in Seq(Message) /\ reports # <<>>
    BY DEF AccountInv, SessionTypes, ReceiveReport
  <2> QED BY <2>1
<1> DEFINE cleared == IF m.kind = "CancelResponse"
                      THEN [records EXCEPT ![m.id].cancelRequested = FALSE]
                      ELSE records
<1>1. /\ reports' = Tail(reports) /\ reports # <<>> /\ reports \in Seq(Message)
      /\ counter' = counter /\ records \in [Orders -> Record] /\ m.id \in Orders
      /\ records' = Release(cleared, book', m.id)
  BY <1>0 DEF AccountInv, SessionTypes, ReceiveReport, Message
<1>2. /\ cleared \in [Orders -> Record]
      /\ \A p \in Orders :
           /\ cleared[p].occupied = records[p].occupied
           /\ cleared[p].cancelRequested =
                IF m.kind = "CancelResponse" /\ p = m.id THEN FALSE
                ELSE records[p].cancelRequested
  BY <1>1 DEF Record
<1> HIDE DEF cleared
<1>3. \A p \in Orders :
        /\ Release(cleared, book', m.id)[p].occupied = cleared[p].occupied
        /\ Release(cleared, book', m.id)[p].cancelRequested = cleared[p].cancelRequested
  BY <1>1, <1>2, ReleaseTells
<1>4. \A p \in Orders :
        /\ records'[p].occupied = records[p].occupied
        /\ Requested(p)' = IF m.kind = "CancelResponse" /\ p = m.id THEN FALSE
                           ELSE Requested(p)
  BY <1>1, <1>2, <1>3 DEF Requested
<1>5. /\ Len(reports) \in Nat /\ Len(reports') = Len(reports) - 1
      /\ 1 \in 1 .. Len(reports) /\ m = reports[1]
      /\ \A i \in 1 .. Len(reports') : /\ i + 1 \in 1 .. Len(reports)
                                       /\ reports'[i] = reports[i + 1]
  BY <1>0, <1>1
<1>6. ResponsesRefuse'
  BY <1>5 DEF AskInv, ResponsesRefuse
<1>7. ASSUME NEW o \in Orders PROVE AskedOnce(o)'
  <2>1. AskedOnce(o) /\ Asked(o)' = Asked(o)
    BY <1>1 DEF AskInv, Asked
  <2>2. \A i \in 1 .. Len(reports') : Refusal(i, o)' <=> Refusal(i + 1, o)
    BY <1>5 DEF Refusal
  <2>3. CASE m.kind = "CancelResponse" /\ o = m.id
    <3>1. Refusal(1, o)
      BY <1>5, <2>3 DEF AskInv, ResponsesRefuse, Refusal
    <3>2. ~Asked(o) /\ \A j \in 1 .. Len(reports) : Refusal(j, o) => j = 1
      BY <1>5, <2>1, <3>1 DEF AskedOnce
    <3>3. \A i \in 1 .. Len(reports') : ~Refusal(i, o)'
      BY <1>5, <2>2, <3>2
    <3> QED BY <1>4, <2>1, <2>3, <3>2, <3>3 DEF AskedOnce
  <2>4. CASE ~(m.kind = "CancelResponse" /\ o = m.id)
    <3>1. Requested(o)' = Requested(o) /\ records'[o].occupied = records[o].occupied
      BY <1>4, <2>4
    <3>2. ASSUME NEW i \in 1 .. Len(reports'), Refusal(i, o)'
          PROVE  /\ Requested(o) /\ ~Asked(o)
                 /\ \A j \in 1 .. Len(reports') : Refusal(j, o)' => j = i
      <4>1. Refusal(i + 1, o) /\ i + 1 \in 1 .. Len(reports)
        BY <1>5, <2>2, <3>2
      <4>2. /\ Requested(o) /\ ~Asked(o)
            /\ \A j \in 1 .. Len(reports) : Refusal(j, o) => j = i + 1
        BY <2>1, <4>1 DEF AskedOnce
      <4>3. ASSUME NEW j \in 1 .. Len(reports'), Refusal(j, o)' PROVE j = i
        <5>1. j + 1 = i + 1
          BY <1>5, <2>2, <4>2, <4>3
        <5> QED BY <1>5, <5>1
      <4> QED BY <4>2, <4>3
    <3> QED BY <2>1, <3>1, <3>2 DEF AskedOnce
  <2> QED BY <2>3, <2>4
<1> QED BY <1>6, <1>7 DEF AskInv

LEMMA TradeAsks ==
  ASSUME AccountInv, Thawed, AskInv, ReceiveTrade PROVE AskInv'
<1>0. PICK t \in Trade : t = Head(trades)
  <2>1. trades \in Seq(Trade) /\ trades # <<>>
    BY DEF AccountInv, SessionTypes, ReceiveTrade
  <2> QED BY <2>1
<1>1. /\ UNCHANGED <<reports, counter>> /\ records \in [Orders -> Record]
      /\ t.id \in Orders /\ records' = Release(records, book', t.id)
  BY <1>0 DEF AccountInv, SessionTypes, ReceiveTrade, Trade, TradeReport
<1>2. \A p \in Orders :
        /\ Release(records, book', t.id)[p].occupied = records[p].occupied
        /\ Release(records, book', t.id)[p].cancelRequested = records[p].cancelRequested
  BY <1>1, ReleaseTells
<1>3. \A p \in Orders : SameRequest(p)
  BY <1>1, <1>2 DEF SameRequest, Asked, Requested
<1> QED BY <1>1, <1>3, RequestsStay

\* The counter refuses only a request it has not answered.
LEMMA CounterRefuses ==
  ASSUME AccountInv, AskInv, NEW o \in Orders, CounterStep(o) PROVE AskInv'
<1>0. PICK n : n = Len(reports) + 1
  OBVIOUS
<1>1. PICK m : /\ reports' = Append(reports, m) /\ m.id = o
               /\ m.type = "CancelRejected" => counter[o].asked /\ ~counter'[o].asked
               /\ m.kind = "CancelResponse" => m.type = "CancelRejected"
  BY CounterAnswers
<1>2. /\ records' = records /\ (Asked(o)' => Asked(o))
      /\ \A p \in Orders \ {o} : Asked(p)' = Asked(p)
  BY CounterAnswers DEF account, Asked
<1>3. /\ Len(reports) \in Nat /\ Len(reports') = n
      /\ reports'[n] = m
      /\ \A i \in 1 .. Len(reports) : reports'[i] = reports[i]
  <2>1. reports \in Seq(Message)
    BY DEF AccountInv, SessionTypes
  <2> QED BY <1>0, <1>1, <2>1
<1>4. \A i \in 1 .. Len(reports') : i \in 1 .. Len(reports) \/ i = n
  BY <1>0, <1>3
<1>5. ResponsesRefuse'
  BY <1>1, <1>3, <1>4 DEF AskInv, ResponsesRefuse
<1>6. ASSUME NEW p \in Orders PROVE AskedOnce(p)'
  <2>1. AskedOnce(p) /\ Requested(p)' = Requested(p)
        /\ records'[p].occupied = records[p].occupied /\ (Asked(p)' => Asked(p))
    BY <1>2 DEF AskInv, Requested
  <2>2. /\ \A i \in 1 .. Len(reports) : Refusal(i, p)' <=> Refusal(i, p)
        /\ Refusal(n, p)' <=> p = o /\ m.type = "CancelRejected"
    BY <1>1, <1>3 DEF Refusal
  <2>3. CASE p = o /\ m.type = "CancelRejected"
    <3>1. Asked(p) /\ ~Asked(p)'
      BY <1>1, <2>3 DEF Asked
    <3>2. Requested(p) /\ \A i \in 1 .. Len(reports) : ~Refusal(i, p)
      BY <2>1, <3>1 DEF AskedOnce
    <3>3. \A i \in 1 .. Len(reports') : Refusal(i, p)' => i = n
      BY <1>4, <2>2, <3>2
    <3> QED BY <2>1, <3>1, <3>2, <3>3 DEF AskedOnce
  <2>4. CASE ~(p = o /\ m.type = "CancelRejected")
    <3>1. \A i \in 1 .. Len(reports') :
            Refusal(i, p)' => i \in 1 .. Len(reports) /\ Refusal(i, p)
      BY <1>4, <2>2, <2>4
    <3> QED BY <2>1, <3>1 DEF AskedOnce
  <2> QED BY <2>3, <2>4
<1> QED BY <1>5, <1>6 DEF AskInv

LEMMA AskStep ==
  ASSUME AccountInv, Thawed, AskInv, [Next]_vars PROVE AskInv'
<1>1. CASE Submit \/ SubmitExit
  <2>1. PICK intent \in Intent : \E code \in SubmitCodes(intent) :
          SubmitOrder(intent, code)
    BY <1>1, IntentsOfCalls DEF Submit, SubmitExit
  <2>2. \A o \in Orders : Requested(o) => records[o].occupied
    BY DEF AskInv, AskedOnce
  <2> QED BY <2>1, <2>2, SubmitAsksNothing, RequestsStay
<1>2. CASE Cancel \/ ExitImpossible \/ AwaitExit \/ AwaitEntries
  BY <1>2, CallAsks, RequestsStay
<1>3. CASE DropsExit \/ ReceiveUnknown \/ UNCHANGED vars
  BY <1>3, RequestsStay
  DEF DropsExit, ReceiveUnknown, vars, environment, SameRequest, Asked, Requested
<1>4. CASE ReceiveReport \/ ReceiveTrade
  BY <1>4, ReportAsks, TradeAsks
<1>5. CASE \E o \in Orders : CounterStep(o)
  BY <1>5, CounterRefuses
<1> QED BY <1>1, <1>2, <1>3, <1>4, <1>5, DueExitKinds DEF Next, OnMarket

LEMMA AskInit == Init => AskInv
BY DEF Init, NothingYet, NoRecord, NoCounterOrder, AskInv, ResponsesRefuse, AskedOnce,
       Asked, Requested

\* A step that asks for an order again: nothing is on its way of what was asked.
LEMMA AsksOnce ==
  ASSUME AccountInv, Thawed, AskInv, [Next]_vars, NEW o \in Orders,
         counter'[o].asks > counter[o].asks
  PROVE  /\ ~counter[o].asked
         /\ \A m \in Range(reports) : m.id = o => m.type # "CancelRejected"
<1>1. ~Requested(o)
  <2>1. counter[o].asks \in Nat
    BY DEF AccountInv, SessionTypes, CounterOrder
  <2>2. CASE EntersOrder \/ SubmitExit
    <3>1. PICK intent \in Intent : \E code \in SubmitCodes(intent) :
            SubmitOrder(intent, code)
      BY <2>2, IntentsOfCalls DEF EntersOrder, SubmitExit
    <3>2. \A p \in Orders : Requested(p) => records[p].occupied
      BY DEF AskInv, AskedOnce
    <3> QED BY <2>1, <3>1, <3>2, SubmitAsksNothing
  <2>3. CASE CancelsOrder
    <3>1. PICK p \in Orders : \E code \in CancelCodes(p) : CancelOrder(p, code)
      BY <2>3 DEF CancelsOrder
    <3>2. PICK code \in CancelCodes(p) : CancelOrder(p, code)
      BY <3>1
    <3> QED BY <2>1, <3>2, CancelAsks
  <2>4. CASE DropsExit \/ Waits \/ ReceiveReport \/ ReceiveTrade
    BY <2>1, <2>4 DEF DropsExit, environment, Waits, ReceiveReport, ReceiveTrade
  <2>5. CASE \E p \in Orders : CounterStep(p)
    BY <2>1, <2>5, CounterAsksNothing
  <2> QED BY <2>2, <2>3, <2>4, <2>5, StepKinds
<1>2. AskedOnce(o) /\ reports \in Seq(Message)
  BY DEF AskInv, AccountInv, SessionTypes
<1>3. ~Asked(o) /\ \A i \in 1 .. Len(reports) : ~Refusal(i, o)
  BY <1>1, <1>2 DEF AskedOnce
<1>4. \A m \in Range(reports) : \E i \in 1 .. Len(reports) : m = reports[i]
  BY <1>2 DEF Range
<1> QED BY <1>3, <1>4 DEF Asked, Refusal

\* For any entries and limits: a cancel request is sent for an order only when
\* the one before is answered and the account has been told, whoever asks
\* (cancel, on_market, drain_callbacks).
THEOREM RequestsOneAtATime == Spec => OneRequestAtATime
<1> DEFINE Once ==
      \A o \in Orders :
        counter'[o].asks > counter[o].asks =>
          /\ ~counter[o].asked
          /\ \A m \in Range(reports) : m.id = o => m.type # "CancelRejected"
<1>1. AccountInv /\ Thawed /\ AskInv /\ [Next]_vars => AskInv'
  BY AskStep
<1>2. AccountInv /\ Thawed /\ AskInv /\ [Next]_vars => [Once]_vars
  BY AsksOnce
<1> QED BY <1>1, <1>2, AskInit, AlwaysOrdersInv, PTL DEF Spec, OneRequestAtATime

-----------------------------------------------------------------------------
(* Sums over all orders *)

\* Zeros add nothing to a sum.
LEMMA SumExtends ==
  ASSUME NEW T, IsFiniteSet(T), NEW S \in SUBSET T, NEW v,
         \A y \in T : v[y] \in Int, \A y \in T \ S : v[y] = 0
  PROVE  SumFunctionOnSet(v, T) = SumFunctionOnSet(v, S)
<1> DEFINE G == {s \in SUBSET T : SumFunctionOnSet(v, s) = SumFunctionOnSet(v, s \cap S)}
<1>1. ASSUME NEW s \in SUBSET T, \A x \in s : s \ {x} \in G
      PROVE  s \in G
  <2>1. IsFiniteSet(s) /\ \A x \in s : v[x] \in Int
    BY FS_Subset
  <2>2. CASE s \subseteq S
    <3>1. s \cap S = s
      BY <2>2
    <3> QED BY <3>1
  <2>3. CASE ~(s \subseteq S)
    <3>1. PICK x \in s : x \notin S
      BY <2>3
    <3>2. /\ SumFunctionOnSet(v, s) = v[x] + SumFunctionOnSet(v, s \ {x})
          /\ SumFunctionOnSet(v, s \ {x}) \in Int
      BY <2>1, SumTerm
    <3>3. SumFunctionOnSet(v, s \ {x}) = SumFunctionOnSet(v, (s \ {x}) \cap S)
      BY <1>1
    <3>4. (s \ {x}) \cap S = s \cap S /\ v[x] = 0
      BY <3>1
    <3>5. SumFunctionOnSet(v, s) = SumFunctionOnSet(v, s \ {x})
      BY <3>2, <3>4
    <3> QED BY <3>3, <3>4, <3>5
  <2> QED BY <2>2, <2>3
<1>2. T \in G
  <2> HIDE DEF G
  <2>1. \A s \in SUBSET T : s \in G
    BY <1>1, AllSubsets
  <2> QED BY <2>1
<1>3. T \cap S = S
  OBVIOUS
<1> QED BY <1>2, <1>3

\* A sum of which all terms but one are at most zero is at most that one, and
\* at most that one and any other.
LEMMA SumBound ==
  ASSUME NEW S, IsFiniteSet(S), NEW w, \A y \in S : w[y] \in Int, NEW x \in S,
         \A y \in S \ {x} : w[y] <= 0
  PROVE  /\ SumFunctionOnSet(w, S) \in Int /\ SumFunctionOnSet(w, S) <= w[x]
         /\ \A y \in S \ {x} : SumFunctionOnSet(w, S) <= w[x] + w[y]
<1> DEFINE zero == [y \in S |-> 0]
<1>1. ASSUME NEW T \in SUBSET (S \ {x})
      PROVE  /\ IsFiniteSet(T) /\ SumFunctionOnSet(w, T) \in Int
             /\ SumFunctionOnSet(w, T) <= 0
  <2>1. IsFiniteSet(T)
    BY FS_Subset
  <2>2. \A y \in T : w[y] \in Int /\ zero[y] \in Int /\ w[y] <= zero[y] /\ zero[y] = 0
    OBVIOUS
  <2> HIDE DEF zero
  <2>3. SumFunctionOnSet(w, T) <= SumFunctionOnSet(zero, T)
    BY <2>1, <2>2, SumMonotone
  <2>4. SumFunctionOnSet(zero, T) = 0
    BY <2>1, <2>2, SumZero
  <2>5. SumFunctionOnSet(w, T) \in Int
    BY <2>1, <2>2, SumTerm
  <2> QED BY <2>1, <2>3, <2>4, <2>5
<1>2. /\ SumFunctionOnSet(w, S) \in Int
      /\ SumFunctionOnSet(w, S) = w[x] + SumFunctionOnSet(w, S \ {x})
  BY SumTerm
<1>3. IsFiniteSet(S \ {x}) /\ \A y \in S \ {x} : w[y] \in Int
  BY <1>1
<1>4. ASSUME NEW y \in S \ {x}
      PROVE  SumFunctionOnSet(w, S) <= w[x] + w[y]
  <2>1. SumFunctionOnSet(w, S \ {x}) = w[y] + SumFunctionOnSet(w, (S \ {x}) \ {y})
    BY <1>3, SumTerm
  <2>2. (S \ {x}) \ {y} \in SUBSET (S \ {x})
    OBVIOUS
  <2>3. /\ SumFunctionOnSet(w, (S \ {x}) \ {y}) \in Int
        /\ SumFunctionOnSet(w, (S \ {x}) \ {y}) <= 0
    BY <1>1, <2>2
  <2> QED BY <1>2, <2>1, <2>3
<1>5. SumFunctionOnSet(w, S \ {x}) <= 0 /\ SumFunctionOnSet(w, S \ {x}) \in Int
  BY <1>1
<1>6. w[x] \in Int
  OBVIOUS
<1>7. SumFunctionOnSet(w, S) <= w[x]
  BY ONLY <1>2, <1>5, <1>6
<1> QED BY <1>2, <1>4, <1>7

=============================================================================
