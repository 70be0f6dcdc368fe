------------------------------- MODULE Restart -------------------------------
(***************************************************************************)
(* One account over several runs of the engine: the journal of a run       *)
(* (src/telemetry.cpp), the restart image the next run builds from it      *)
(* (load_latest_restart in src/engine.cpp), and what the session makes of  *)
(* image and counter (restore_restart_image, activate, import_owned_order  *)
(* in src/trading.cpp), with allow_orders set. A run stops cleanly or      *)
(* crashes; then its journal is cut between two lines or within one.       *)
(*                                                                         *)
(* The recovery is reduced to the login and the order query; the modules   *)
(* Recovery and Session have the rest, among it which exit is due when.    *)
(* A client order id names a record as its order reference does, so the    *)
(* reference stands for both. Orders that reach no API call use a record   *)
(* in the code and none here. The counter is external to src/: it keeps    *)
(* the orders of its trading day, and a session does not outlive that day. *)
(***************************************************************************)
EXTENDS Integers, FiniteSets, Sequences, SequencesExt, FiniteSetsExt, Functions

CONSTANTS
  MaxRef,          \* kLargestCtpOrderRef
  Signals,         \* signal ids of the strategy, which start again in each run
  RecordCapacity,  \* signal_capacity
  MaxSignals, MaxOrders, MaxCancels, MaxActiveOpen,  \* RiskLimits
  MaxDay, MaxRuns, MaxCrashes,   \* bounds of the model
  Lossy            \* the journal may lose a critical event

Refs == 1 .. MaxRef
Offsets == {"Open", "Close"}

ASSUME RestartAssumption ==
  /\ Signals \subseteq Nat \ {0}
  /\ Lossy \in BOOLEAN
  /\ {MaxRef, RecordCapacity, MaxSignals, MaxOrders, MaxCancels, MaxActiveOpen,
      MaxRuns, MaxCrashes} \subseteq Nat
  /\ MaxDay \in Nat \ {0}

VARIABLES
  day, orders, cancels,  \* the counter: its day, the orders and cancel requests
  journal,     \* the latest journal of the account
  phase,       \* Off, Blocked, or how far the account's run has come; Frozen
               \* also for an account that a fault freezes in its phase Ready
  records,     \* signals, by order reference
  exit,        \* exit.active: the reference of the exit order, or 0
  daily,       \* daily_signals, daily_orders, daily_cancels
  restored,    \* restored_trading_day and counts, if pending
  tradingDay,  \* trading_day, 0 when there was no login
  nextRef,     \* next_order_ref
  runs, crashes

counterVars == <<day, orders, cancels>>
session == <<records, exit, daily, restored, tradingDay, nextRef>>
bounds == <<runs, crashes>>
vars == <<counterVars, journal, phase, session, bounds>>

-----------------------------------------------------------------------------
(* Types *)

Live == {"Submitted", "Accepted"}
States == Live \cup {"None", "Done"}

CounterOrder == [status : States, offset : Offsets, traded : BOOLEAN]
NoOrder == [status |-> "None", offset |-> "Open", traded |-> FALSE]
AtCounter == {r \in Refs : orders[r].status # "None"}
OpenAtCounter == {r \in Refs : orders[r].status \in Live}

\* origin: where the record comes from; seen: seen_during_recovery
Record == [state : States, signal : Nat, offset : Offsets,
           origin : {"Run", "Image", "Counter"}, seen : BOOLEAN]
NoRecord == [state |-> "None", signal |-> 0, offset |-> "Open",
             origin |-> "Run", seen |-> FALSE]

Daily == [signals : 0 .. MaxSignals, orders : 0 .. MaxOrders,
          cancels : 0 .. MaxCancels]
NoneToday == [signals |-> 0, orders |-> 0, cancels |-> 0]

Known == {r \in Refs : records[r].state # "None"}
OpenEntries == {r \in Refs : records[r].state \in Live /\ records[r].offset = "Open"}
Later(a, b) == IF a > b THEN a ELSE b

-----------------------------------------------------------------------------
(* The journal *)

\* What an event tells the next run: an order is sent (OrderSubmitted), has a
\* report that ends it (or OrderRejected) or does not, or RestartCheckpoint.
Event(kind, ref) ==
  [kind |-> kind, ref |-> ref, signal |-> 0, offset |-> "Open",
   day |-> 0, daily |-> NoneToday]
SubmittedEvent(ref, record) ==
  [Event("Submitted", ref) EXCEPT !.signal = record.signal,
                                  !.offset = record.offset]
ReportEvent(ref, state) == Event(IF state = "Done" THEN "Ended" ELSE "Reported", ref)
Checkpoint == [Event("Checkpoint", 0) EXCEPT !.day = tradingDay, !.daily = daily]

\* status: no file, being written, ended with CleanStop, or cut off by a crash
\* between two lines or within one; dropped: critical_dropped_count
NoJournal == [status |-> "None", events |-> <<>>, dropped |-> FALSE]
NewJournal == [NoJournal EXCEPT !.status = "Open"]

\* try_record, for a batch of events. A journal that has lost one is no image
\* any more, whatever else it holds.
Recorded(events) ==
  IF events = <<>> \/ journal.dropped THEN {journal}
  ELSE {[journal EXCEPT !.events = @ \o events]}
         \cup IF Lossy THEN {[journal EXCEPT !.events = <<>>, !.dropped = TRUE]}
              ELSE {}

\* read_trace_journal: a line that does not parse makes it worthless, and so
\* does a CleanStop that counts lost events.
JournalValid(j) == j.status # "Torn" /\ ~(j.status = "Clean" /\ j.dropped)

\* Variant: any report takes the order out of the image
TakeEventAny(acc, e) ==
  CASE e.kind = "Submitted" -> [acc EXCEPT !.uncertain = @ \cup {e}]
    [] e.kind \in {"Reported", "Ended"} ->
         [acc EXCEPT !.uncertain = {s \in @ : s.ref # e.ref}]
    [] OTHER -> acc

\* build_restart_image, one event: a reference or signal that is already in the
\* image makes it worthless.
TakeEvent(acc, e) ==
  CASE e.kind = "Submitted" ->
         IF \E s \in acc.uncertain : s.ref = e.ref \/ s.signal = e.signal
         THEN [acc EXCEPT !.valid = FALSE]
         ELSE [acc EXCEPT !.uncertain = @ \cup {e}]
    [] e.kind = "Ended" -> [acc EXCEPT !.uncertain = {s \in @ : s.ref # e.ref}]
    [] OTHER -> acc

NoImage == [valid |-> FALSE, uncertain |-> {}, day |-> 0, daily |-> NoneToday,
            nextRef |-> 1]

\* build_restart_image
Image(j) ==
  IF ~(/\ JournalValid(j) /\ j.status = "Clean"
       /\ j.events # <<>> /\ Last(j.events).kind = "Checkpoint")
  THEN NoImage
  ELSE LET taken == FoldLeft(TakeEvent, [valid |-> TRUE, uncertain |-> {}],
                             j.events)
           refs == {e.ref : e \in Range(j.events)}
       IN IF ~taken.valid THEN NoImage
          ELSE [valid |-> TRUE, uncertain |-> taken.uncertain,
                day |-> Last(j.events).day, daily |-> Last(j.events).daily,
                nextRef |-> Max(refs) + 1]

-----------------------------------------------------------------------------
(* Runs of the engine *)

RestoredRecord(e) ==
  [state |-> "Submitted", signal |-> e.signal, offset |-> e.offset,
   origin |-> "Image", seen |-> FALSE]

\* restore_restart_image, on the fresh session of the worker
Restore(image) ==
  /\ records' = [r \in Refs |->
                   IF \E e \in image.uncertain : e.ref = r
                   THEN RestoredRecord(CHOOSE e \in image.uncertain : e.ref = r)
                   ELSE NoRecord]
  /\ restored' = IF image.valid
                 THEN [pending |-> TRUE, day |-> image.day, daily |-> image.daily]
                 ELSE [pending |-> FALSE, day |-> 0, daily |-> NoneToday]
  /\ nextRef' = image.nextRef
  /\ exit' = 0
  /\ daily' = NoneToday
  /\ tradingDay' = 0

\* load_latest_restart: journal is the one of the latest run that had one
RestartLoad == [journalValid |-> JournalValid(journal), image |-> Image(journal)]

\* A worker whose latest journal is worthless is blocked and opens no new one.
Launch ==
  /\ phase = "Off" /\ runs < MaxRuns
  /\ runs' = runs + 1
  /\ IF RestartLoad.image.valid \/ RestartLoad.journalValid
     THEN /\ phase' = "Connecting"
          /\ journal' = NewJournal
          /\ Restore(RestartLoad.image)
     ELSE phase' = "Blocked" /\ UNCHANGED <<journal, session>>
  /\ UNCHANGED <<counterVars, crashes>>

\* The session and what it knows are gone.
Forget ==
  /\ phase' = "Off"
  /\ Restore(NoImage)
  /\ UNCHANGED counterVars

\* AsyncTraceJournal::stop: everything is written, CleanStop with the number of
\* lost events at the end.
Stopped(j) == [j EXCEPT !.status = "Clean"]

\* checkpoint_restart_state, then stop of the journal
Stop ==
  /\ phase # "Off"
  /\ IF phase = "Blocked" THEN UNCHANGED journal
     ELSE \E j \in Recorded(IF tradingDay = 0 THEN <<>> ELSE <<Checkpoint>>) :
            journal' = Stopped(j)
  /\ Forget
  /\ UNCHANGED bounds

\* What the writer had not written is lost, and perhaps half a line with it;
\* the rest only tells that there was no CleanStop.
Crash ==
  /\ phase \notin {"Off", "Blocked"}
  /\ crashes < MaxCrashes
  /\ crashes' = crashes + 1
  /\ \E status \in {"Cut", "Torn"} : journal' = [NoJournal EXCEPT !.status = status]
  /\ Forget
  /\ UNCHANGED runs

-----------------------------------------------------------------------------
(* Login and order query *)

\* The counts of the day the login names
DailyOfLogin ==
  IF restored.pending
  THEN IF restored.day = day THEN restored.daily ELSE NoneToday
  ELSE IF tradingDay \notin {0, day} THEN NoneToday ELSE daily

\* activate, and begin_query_reconciliation. The counter may name the largest
\* reference it has seen, or none.
Login ==
  /\ phase = "Connecting"
  /\ phase' = "Querying"
  /\ \E largest \in {0} \cup AtCounter :
       nextRef' = Later(nextRef, largest + 1)
  /\ daily' = DailyOfLogin
  /\ restored' = [restored EXCEPT !.pending = FALSE]
  /\ tradingDay' = day
  /\ records' = [r \in Refs |-> [records[r] EXCEPT !.seen = FALSE]]
  /\ UNCHANGED <<counterVars, journal, exit, bounds>>

Capped(n, limit) == IF n < limit THEN n + 1 ELSE n

\* Variant: orders of an earlier run not counted
CountImportNever(d, offset) == d

\* import_owned_order counts the order into the day.
CountImport(d, offset) ==
  [d EXCEPT !.orders = Capped(@, MaxOrders),
            !.signals = IF offset = "Open" THEN Capped(@, MaxSignals) ELSE @]

\* Variant: a reference taken for the next one whatever the counter holds
RefAfterImportKept(next, ref) == next

RefAfterImport(next, ref) == Later(next, ref + 1)

\* An order the account does not know, under its reference as signal id
ImportedRecord(ref) ==
  [state |-> "Submitted", signal |-> ref, offset |-> orders[ref].offset,
   origin |-> "Counter", seen |-> TRUE]

\* One row of the answer: the account takes the order in if it does not know
\* it, and its state. It follows one imported exit order at most.
TakeRow(acc, ref) ==
  LET order == orders[ref]
      known == acc.records[ref].state # "None"
      full == Cardinality({r \in Refs : acc.records[r].state # "None"})
                >= RecordCapacity
      record == IF known THEN acc.records[ref] ELSE ImportedRecord(ref)
      follows == /\ record.origin = "Counter" /\ order.offset = "Close"
                 /\ order.status \in Live
  IN IF acc.failed THEN acc
     ELSE IF ~known /\ full THEN [acc EXCEPT !.failed = TRUE]
     ELSE [records |-> [acc.records EXCEPT
                          ![ref] = [record EXCEPT !.state = order.status,
                                                  !.seen = TRUE]],
           daily |-> IF known THEN acc.daily
                     ELSE CountImport(acc.daily, order.offset),
           nextRef |-> IF known THEN acc.nextRef
                       ELSE RefAfterImport(acc.nextRef, ref),
           exit |-> IF follows /\ acc.exit = 0 THEN ref ELSE acc.exit,
           events |-> IF record.state = order.status THEN acc.events
                      ELSE Append(acc.events, ReportEvent(ref, order.status)),
           failed |-> follows /\ acc.exit \notin {0, ref}]

\* Variant: orders the counter did not name not looked for
MissingNever(rs) == FALSE

\* An order without an end that the counter did not name
Missing(rs) == \E r \in Refs : rs[r].state \in Live /\ ~rs[r].seen

\* Variant: an answer that broke off taken for the whole
ConvergedEarly(rows, taken) == ~taken.failed /\ ~Missing(taken.records)

\* The whole answer came, and the account can live with it.
Converged(rows, taken) ==
  Len(rows) = Cardinality(AtCounter) /\ ~taken.failed /\ ~Missing(taken.records)

\* The answer to the order query: orders of the counter, in the order it likes.
\* It may break off (an error, a row that cannot be accepted). Ready stands for
\* the rest of the recovery.
QueryOrders ==
  /\ phase = "Querying"
  /\ \E rows \in SetToAllKPermutations(AtCounter) :
       LET taken == FoldLeft(TakeRow,
                             [records |-> records, daily |-> daily,
                              nextRef |-> nextRef, exit |-> exit,
                              events |-> <<>>, failed |-> FALSE],
                             rows)
       IN /\ records' = taken.records
          /\ daily' = taken.daily
          /\ nextRef' = taken.nextRef
          /\ exit' = taken.exit
          /\ journal' \in Recorded(taken.events)
          /\ phase' = IF Converged(rows, taken) THEN "Ready" ELSE "Frozen"
  /\ UNCHANGED <<counterVars, restored, tradingDay, bounds>>

Disconnect ==
  /\ phase \in {"Querying", "Ready", "Frozen"}
  /\ phase' = "Connecting"
  /\ UNCHANGED <<counterVars, journal, session, bounds>>

-----------------------------------------------------------------------------
(* Orders *)

\* The part of submit that all orders share. The API refuses the order, or
\* takes it and it reaches the counter, or it is lost on the way.
Send(signal, offset) ==
  /\ phase = "Ready"
  /\ Cardinality(Known) < RecordCapacity /\ nextRef \in Refs
  /\ daily.orders < MaxOrders
  /\ \E outcome \in {"Refused", "Sent", "Lost"} :
       LET record == [NoRecord EXCEPT
                        !.state = IF outcome = "Refused" THEN "Done" ELSE "Submitted",
                        !.signal = signal, !.offset = offset]
       IN /\ records' = [records EXCEPT ![nextRef] = record]
          /\ journal' \in Recorded(<<IF outcome = "Refused" THEN Event("Ended", nextRef)
                                     ELSE SubmittedEvent(nextRef, record)>>)
          /\ orders' = IF outcome = "Sent"
                       THEN [orders EXCEPT ![nextRef] =
                               [NoOrder EXCEPT !.status = "Submitted",
                                               !.offset = offset]]
                       ELSE orders
          /\ exit' = IF offset = "Close" /\ outcome # "Refused" THEN nextRef
                     ELSE exit
          /\ phase' = IF offset = "Close" /\ outcome = "Refused" THEN "Frozen"
                      ELSE "Ready"
  /\ nextRef' = nextRef + 1
  /\ UNCHANGED <<day, cancels, restored, tradingDay, bounds>>

\* submit, for a signal that no record stands for
SubmitEntry ==
  \E signal \in Signals :
    /\ \A r \in Known : records[r].signal # signal \/ records[r].offset = "Close"
    /\ daily.signals < MaxSignals
    /\ Cardinality(OpenEntries) < MaxActiveOpen
    /\ Send(signal, "Open")
    /\ daily' = [daily EXCEPT !.signals = @ + 1, !.orders = @ + 1]

Traded(offset) == {r \in Refs : orders[r].traded /\ orders[r].offset = offset}

\* submit, called by on_market for an entry that has traded
SubmitExit ==
  \E r \in Known \cap Traded("Open") :
    /\ exit = 0
    /\ Cardinality(Traded("Open")) > Cardinality(Traded("Close"))
    /\ Send(records[r].signal, "Close")
    /\ daily' = [daily EXCEPT !.orders = @ + 1]

\* cancel, when the API takes the request
Cancel ==
  /\ phase = "Ready"
  /\ \E r \in Refs : records[r].state \in Live
  /\ daily.cancels < MaxCancels
  /\ daily' = [daily EXCEPT !.cancels = @ + 1]
  /\ cancels' = cancels + 1
  /\ UNCHANGED <<day, orders, journal, phase, records, exit, restored, tradingDay,
                 nextRef, bounds>>

\* A pushed order report
ReceiveReport ==
  /\ phase \in {"Querying", "Ready", "Frozen"}
  /\ \E r \in Known :
       LET status == orders[r].status IN
       /\ status # "None" /\ records[r].state # status
       /\ records' = [records EXCEPT ![r].state = status]
       /\ journal' \in Recorded(<<ReportEvent(r, status)>>)
       /\ exit' = IF exit = r /\ status = "Done" THEN 0 ELSE exit
  /\ UNCHANGED <<counterVars, phase, daily, restored, tradingDay, nextRef, bounds>>

-----------------------------------------------------------------------------
(* The counter *)

\* Accepts, fills or ends an order
CounterStep ==
  /\ \E r \in Refs, status \in {"Accepted", "Done"}, traded \in BOOLEAN :
       /\ orders[r].status \in Live
       /\ orders[r].traded => traded
       /\ orders' = [orders EXCEPT ![r].status = status, ![r].traded = traded]
  /\ UNCHANGED <<day, cancels, journal, phase, session, bounds>>

\* The orders of the day are void; nobody is logged in.
NewDay ==
  /\ day < MaxDay
  /\ phase \in {"Off", "Blocked", "Connecting"}
  /\ day' = day + 1
  /\ orders' = [r \in Refs |-> NoOrder]
  /\ cancels' = 0
  /\ UNCHANGED <<journal, phase, session, bounds>>

-----------------------------------------------------------------------------
(* The specification *)

Init ==
  /\ day = 1 /\ orders = [r \in Refs |-> NoOrder] /\ cancels = 0
  /\ journal = NoJournal
  /\ phase = "Off"
  /\ records = [r \in Refs |-> NoRecord]
  /\ exit = 0
  /\ daily = NoneToday
  /\ restored = [pending |-> FALSE, day |-> 0, daily |-> NoneToday]
  /\ tradingDay = 0
  /\ nextRef = 1
  /\ runs = 0 /\ crashes = 0

Next ==
  \/ Launch \/ Stop \/ Crash
  \/ Login \/ QueryOrders \/ Disconnect
  \/ SubmitEntry \/ SubmitExit \/ Cancel \/ ReceiveReport
  \/ CounterStep \/ NewDay

Spec == Init /\ [][Next]_vars

-----------------------------------------------------------------------------
(* Properties *)

\* Types of the variables; the counts stay within the limits they are checked
\* against (CountImport).
RestartTypeOK ==
  /\ day \in 1 .. MaxDay /\ cancels \in Nat
  /\ orders \in [Refs -> CounterOrder]
  /\ journal.status \in {"None", "Open", "Clean", "Cut", "Torn"}
  /\ phase \in {"Off", "Blocked", "Connecting", "Querying", "Ready", "Frozen"}
  /\ records \in [Refs -> Record]
  /\ exit \in Refs \cup {0}
  /\ daily \in Daily /\ restored.daily \in Daily
  /\ tradingDay \in 0 .. MaxDay
  /\ nextRef \in 1 .. MaxRef + 1

\* However often the engine is restarted on a day, and however its runs ended,
\* the account sends no more orders and entries than the day allows
\* (import_owned_order, README.md:54).
OrdersWithinDailyLimits ==
  /\ Cardinality(AtCounter) <= MaxOrders
  /\ Cardinality({r \in AtCounter : orders[r].offset = "Open"}) <= MaxSignals

\* max_active_open_orders holds at the counter, over all runs.
OpenOrdersWithinLimit ==
  Cardinality({r \in OpenAtCounter : orders[r].offset = "Open"}) <= MaxActiveOpen

\* An account that may trade knows every live order at the counter, and each
\* order it took over from an image is at the counter.
KnowsItsOrders ==
  phase = "Ready" =>
    /\ OpenAtCounter \subseteq {r \in Refs : records[r].state \in Live}
    /\ \A r \in Refs : records[r].origin = "Image" /\ records[r].state \in Live
                       => r \in AtCounter

\* An order is sent under a reference the counter has not had that day,
\* whatever the journals and the login say.
FreshOrderRefs ==
  [][\A r \in Refs :
       orders[r].status # "None" /\ orders'[r].status = "Submitted"
         => orders'[r] = orders[r]]_vars

\* The image of a run that stopped cleanly holds every order of that run that
\* is still live at the counter (build_restart_image).
CleanStopForgetsNoOrder ==
  LET image == Image(journal) IN
  image.valid /\ image.day = day =>
    \A e \in Range(journal.events) :
      e.kind = "Submitted" /\ e.ref \in OpenAtCounter
        => \E s \in image.uncertain : s.ref = e.ref

-----------------------------------------------------------------------------
(* A claim of the repository that the code does not keep *)

\* README.md:54: a restart on the same trading day goes on with the quota used
\* up so far. A run that stops before its login leaves no checkpoint, so the
\* run after it counts the day's cancel requests from zero, although every run
\* stopped cleanly.
CancelsWithinDailyLimit == cancels <= MaxCancels
=============================================================================
