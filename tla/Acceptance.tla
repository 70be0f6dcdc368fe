------------------------------ MODULE Acceptance ------------------------------
(***************************************************************************)
(* The worker of an account in a run with --acceptance: poll_once and      *)
(* update_acceptance of src/engine.cpp over the session of Recovery.       *)
(*                                                                         *)
(* The worker drains the callbacks, looks at the recovery, brings its      *)
(* verdict up to date and shows the session and the strategy the market.   *)
(* Callbacks that come while it does the rest are still on their way here, *)
(* so the drain of each is an action of its own and the verdict another.   *)
(* The end of run is one more drain and one more update: any state may be  *)
(* the last. Without acceptance the account is that of Recovery.           *)
(***************************************************************************)
EXTENDS Recovery

VARIABLES
  accepting,   \* live.acceptance
  verdict,     \* acceptance_status
  finalQuery,  \* acceptance_final_query_started
  told,        \* what acceptance_snapshot counts in callbacks
  confirmed    \* the counter has answered a position query flat that came
               \* after one lot had been opened and closed

judging == <<accepting, verdict, finalQuery, told>>
acceptanceVars == <<recoveryVars, judging, confirmed>>

-----------------------------------------------------------------------------
(* What the worker observes *)

\* entry_orders_submitted and exit_orders_submitted
Submitted(offset) ==
  {o \in Records : /\ records[o].intent.offset = offset
                   /\ State(o) \notin {"Absent", "Created", "RiskRejected",
                                       "SubmitRejectedLocally"}}

RoundTripTold ==
  /\ Cardinality(Submitted("Open")) = 1 /\ told.entry = 1
  /\ Submitted("Close") # {} /\ told.exit = 1

OutOfOrder ==
  \/ phase = "Frozen"
  \/ phase = "Ready" /\ frozen
  \/ told.failed
  \/ Cardinality(Submitted("Open")) > 1 \/ told.entry > 1 \/ told.exit > 1

\* A position the book does not have counts as flat.
KnownFlat == Held.occupied => Held.known /\ Flat(Held)

-----------------------------------------------------------------------------
(* Callbacks *)

\* An order that was refused, or an entry that was canceled, before it is full
Spoils(m) ==
  \/ m.type = "Rejected"
  \/ m.type = "Canceled" /\ records[m.id].intent.offset = "Open"

HearReport ==
  /\ ReceivePushedReport
  /\ LET m == Head(reports) IN
     told' = [told EXCEPT !.failed =
                @ \/ (ReportResult(m).code = "Applied" /\ Spoils(m))]
  /\ UNCHANGED <<accepting, verdict, finalQuery, confirmed>>

\* Trades of a query are not counted, nor those known from one.
CountsTrade(result) == result.code = "Applied"

HearTrade ==
  /\ ReceivePushedTrade
  /\ LET t == Head(trades)
         volume == IF CountsTrade(ApplyTrade(book, t)) THEN t.quantity ELSE 0 IN
     told' = IF records[t.id].intent.offset = "Open"
             THEN [told EXCEPT !.entry = @ + volume]
             ELSE [told EXCEPT !.exit = @ + volume]
  /\ UNCHANGED <<accepting, verdict, finalQuery, confirmed>>

-----------------------------------------------------------------------------
(* update_acceptance *)

\* Variant: the verdict given while the final query is under way
AnsweredAtOnce == phase \in Querying \cup {"Ready"}

\* The final query has run its course, or another recovery after it.
Answered == phase = "Ready"

FindFault ==
  /\ OutOfOrder
  /\ verdict' = "Fail"
  /\ UNCHANGED <<recoveryVars, accepting, finalQuery, told, confirmed>>

\* The whole query chain once more, when all has been told: request_reconciliation
AskForTheEnd ==
  /\ verdict = "Pending" /\ ~OutOfOrder /\ ~finalQuery
  /\ RoundTripTold /\ phase = "Ready"
  /\ \/ /\ KnownFlat
        /\ RequestReconciliation
        /\ finalQuery' = (phase' # "Frozen")
        /\ UNCHANGED verdict
     \/ /\ ~KnownFlat
        /\ verdict' = "Fail"
        /\ UNCHANGED <<recoveryVars, finalQuery>>
  /\ UNCHANGED <<accepting, told, confirmed>>

Conclude ==
  /\ verdict = "Pending" /\ ~OutOfOrder /\ finalQuery
  /\ Answered
  /\ verdict' = IF KnownFlat THEN "Pass" ELSE "Fail"
  /\ UNCHANGED <<recoveryVars, accepting, finalQuery, told, confirmed>>

-----------------------------------------------------------------------------
(* poll_once *)

\* A signal of the strategy, of which it gives one (max_signals_per_run is 1):
\* one that is not sent is a failure.
TakeSignal ==
  /\ phase = "Ready"
  /\ Submit
  /\ verdict' = IF Submitted("Open")' = Submitted("Open") THEN "Fail" ELSE verdict
  /\ UNCHANGED <<recovery, world, history, accepting, finalQuery, told, confirmed>>

TakeMarket ==
  /\ phase = "Ready"
  /\ OnMarket
  /\ UNCHANGED <<recovery, world, history, judging, confirmed>>

\* The account's market queue has overflowed: mark_fault
MarketOverflow ==
  /\ MarkFault
  /\ verdict' = "Fail"
  /\ UNCHANGED <<accepting, finalQuery, told, confirmed>>

-----------------------------------------------------------------------------
(* The specification *)

RoundTripDone ==
  {counter[o].filled : o \in {p \in Records : records[p].intent.offset = "Open"}}
     \subseteq {0, 1}
  /\ \A offset \in Offsets :
       \E o \in Records : records[o].intent.offset = offset /\ counter[o].filled = 1
  /\ \A direction \in Directions : OpenLots(direction) = 0

Answer ==
  /\ CounterAnswer
  /\ confirmed' = (confirmed \/ (asked = "QueryingPositions" /\ RoundTripDone))
  /\ UNCHANGED judging

\* --acceptance is refused unless max_signals_per_run is 1, and a signal is of
\* one lot.
OneSignal == \A i, j \in plan.entries : i = j /\ i.quantity = 1

AcceptanceInit ==
  /\ RecoveryInit
  /\ accepting \in BOOLEAN /\ (accepting => OneSignal)
  /\ verdict = "Pending"
  /\ finalQuery = FALSE
  /\ told = [entry |-> 0, exit |-> 0, failed |-> FALSE]
  /\ confirmed = FALSE

Judged ==
  \/ TakeSignal \/ TakeMarket \/ MarketOverflow
  \/ HearReport \/ HearTrade
  \/ FindFault \/ AskForTheEnd \/ Conclude
  \/ Answer
  \/ /\ ReceiveAnswer \/ Connected \/ Disconnected \/ Overflow \/ CounterActs
     /\ UNCHANGED <<judging, confirmed>>

AcceptanceNext ==
  /\ UNCHANGED plan
  /\ \/ accepting /\ Judged
     \/ ~accepting /\ RecoveryNext /\ UNCHANGED <<judging, confirmed>>

AcceptanceSpec == AcceptanceInit /\ [][AcceptanceNext]_acceptanceVars

-----------------------------------------------------------------------------
(* Properties *)

\* README.md:188. The verdict is true, whatever was lost, late or asked twice on
\* the way to it: an account passes when the counter has opened and closed one
\* lot for it and has said so in a position query after the last fill. If it has
\* had no fault, it has nothing of it at work; after a loss of callbacks or of
\* the connection it may have exits, asked for while a trade was counted twice,
\* with the position and on its own. It fails only for a fault, an order that
\* was not sent or came to nothing, or a position that a trade crossed.
VerdictIsTrue ==
  /\ verdict = "Pass" =>
       /\ confirmed /\ RoundTripDone
       /\ \A o \in Records :
            Live(o) => records[o].intent.offset = "Close" /\ fault # "None"
  /\ verdict = "Fail" =>
       \/ fault # "None" \/ told.failed \/ crossed
       \/ \E o \in Records : o \notin Submitted(records[o].intent.offset)
=============================================================================
