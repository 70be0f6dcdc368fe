# A formal model of the CTP trading engine

TLA+ modules for the order-execution core of this repository, model-checked
with TLC and, where a statement is to hold for every size of table, queue and
limit, proved with TLAPS. The reference is the code under `src/`; every
definition that stands for code is listed with its lines in `PROJECT.json`
(`map`). Line numbers below are of `src/src/trading.cpp` unless a file is named.

## 1. The system

The engine runs one worker thread per futures account over the CTP SDK. The
SDK calls back on threads of its own: one trader API per account, one shared
market API. All communication between threads goes through single-producer
single-consumer rings; an account's state is touched by its worker only.

```
 exchange counter                 market front
      | trader flows                   | depth ticks
 CTP trader thread (per account)   CTP market thread
      | push_callback                  | MarketIngress::publish
 callback ring, overflow flag     one SpscQueue per account, overflow latch
      \______________   ______________/
                     \ /
        LiveAccountWorker::poll_once  (one thread per account)
        drain_callbacks -> on_market -> strategy -> submit / cancel
              |                             |
     AccountTradingState (book)       AsyncTraceJournal -> restart image
```

### Components

| Component | State | Operations | Hard behaviour | What makes it correct | Modelled |
|---|---|---|---|---|---|
| Book, `AccountTradingState` (1-642) | orders, trades, positions, the reconciliation flag | `create_order`, `apply_local_event`, `apply_order_report`, `apply_trade`, the three of a position reconciliation | reports and trades of the same fill in two flows; late, repeated, contradictory messages; full tables | every lot counted once; positions follow; agreement with the counter once all has arrived; no false alarm | `AccountTradingState`, `OrderBook` |
| Risk check, `evaluate_risk` (644-754) | none (a snapshot) | one function | the snapshot is older than the truth at the counter | an order only from an account allowed to trade | in `Session` (account state; clock, prices and funds are one choice) |
| Session, `AccountTradingSession` (1726-2071, 2457-2565) | signal records, exit state, daily counts, open slots, frozen/fault | `submit`, `cancel`, `on_market`, realtime half of `drain_callbacks` | exits that race with late trades; refused and timed-out cancels; quotas given back on failure | slots and quotas exact; one exit order per signal, larger than the position only by closes not yet reported; what is opened is closed or the account freezes | `Session` |
| Callback queue (1287-1323) | ring, two indices, overflow flag | `push_callback`, `pop_callback` | two threads, a full ring | a FIFO that loses only when full, and never unnoticed | `CallbackQueue`, `LossyFifo` |
| Overflow handling (2099-2114, 2566-2591) | recovery phase, flag taken by the drain | `drain_callbacks`, `request_reconciliation` | overflow in every phase, and between the taking of the flag and its use | no trading over a loss; a loss is made up for | `CallbackDrain` |
| Recovery (1132-1285, 2115-2456) | phase, expected request, records seen | login, settlement, four queries | rows, stale answers, refused requests, trades between two queries, lost orders | no order before Ready; agreement with the counter in Ready; it ends | `Recovery` |
| Restart image (1540-1633, `telemetry.cpp` 440-610, `engine.cpp` 30-75) | restart image, order references, daily counts, records | `restore_restart_image`, `activate`, `import_owned_order`, `checkpoint_restart_state`, `build_restart_image` | a crash or a clean stop at any moment, lost journal events, a new trading day, orders of earlier runs | limits hold over all runs of a day; no live order is forgotten; order references are fresh | `Restart` |
| Trace journal (`telemetry.cpp` 176-345, `telemetry.hpp` 84-152) | trace ring, sequence numbers, flush request, the file | `start`, `try_record`, `flush`, `stop`, the writer's `run` | a full ring, flush against stop, a file that fails or a crash at any moment | the file is a beginning of what was recorded; critical events have room; a flush is a barrier; flush and stop return | `Journal`, `TraceLog`; the file as the next run reads it in `Restart` |
| Market ingress (`engine.hpp` 60-155, `engine.cpp` 150-315) | a queue and a latch per account | `publish`, `try_pop`, `start`, `stop` | slow accounts, stop while publishing | isolation of accounts; no gap unnoticed | `MarketIngress` |
| Market failover (`engine.cpp` 316-442, 1010-1150) | connection state, candidate index, failures | connect, log in, subscribe, rotate | failures at each step, callbacks during the replacement | every account tried before giving up; a failed feed is replaced; no signal across a disconnection | `MarketFeed` |
| Worker (`engine.cpp` 444-872) | ready/failed flags, acceptance verdict | `poll_once`, `update_acceptance`, `run` | lost callbacks and disconnections on the way to a verdict, dropped market events | isolation; a verdict that is true whenever it is given | `Acceptance`; the handling of market events in `MarketFeed` |
| Strategy (`strategy.cpp` 118-238) | baseline, counts, sequence | `on_market` | invalid, stale and missing events | signals on true crossings only, within limits | `ThresholdStrategy`, driven by `MarketFeed` |
| Diagnostic clients, configuration, replay, benchmark, entry point | - | - | - | - | no: see 8 |

The components interact as follows. The worker calls the session's
operations one after the other, so they are atomic with respect to each other
and the modules `Session` and `Recovery` make each of them one action. The SDK
threads only push into rings; what they can interleave with is the ring
itself (`CallbackQueue`, at the grain of atomic accesses) and the drain
(`CallbackDrain`, which interleaves pushes with each step of a drain). On the
market side three kinds of thread meet, the market API, the main thread and
the workers, and `MarketFeed` interleaves them. One run of the engine meets the
next through the journal file and the counter, which is `Restart`.

## 2. Modules

| Module | Stands for | Uses |
|---|---|---|
| `AccountTradingState` | the book and its operations, as operators from a book to a result | - |
| `OrderBook` | the book driven by a counter whose messages are lost, repeated and reordered at will | `AccountTradingState` |
| `Session` | submit, cancel, auto-close and realtime callbacks against a counter | `AccountTradingState` |
| `Recovery` | the session across disconnections, overflows and recoveries | `Session` |
| `Acceptance` | the worker of a run with `--acceptance`: its verdict over the session of `Recovery` | `Recovery` |
| `LossyFifo` | what the callback queue promises | - |
| `CallbackQueue` | the ring and the flag, step by step | `LossyFifo` (refinement) |
| `CallbackDrain` | the drain, its overflow handling and the CTP thread | `CallbackQueue` |
| `MarketIngress` | numbering, fan-out, queues and latches | - |
| `ThresholdStrategy` | the strategy, as operators from a state and an event to a result, and the definition of a crossing | - |
| `MarketFeed` | the connection, the main thread that replaces it, and the workers' handling of events | `MarketIngress`, `ThresholdStrategy` |
| `Restart` | one account over several runs of the engine, with its journal and its counter | - |
| `TraceLog` | what the trace journal promises | - |
| `Journal` | the journal's three threads at the grain of their shared atomics, and its file | `TraceLog` (refinement) |
| `AccountTradingStateProofs`, `OrderBookProofs`, `SessionProofs`, `CallbackDrainProofs`, `RecoveryProofs`, `MarketFeedProofs`, `JournalProofs`, `RestartProofs` | the proofs | each its module, `CallbackDrainProofs` also those of `CallbackQueue`, `RecoveryProofs` also those of `Acceptance`; the second and third use the first, `RecoveryProofs` uses `SessionProofs` |
| `MC*` | instances for TLC | |

Operators whose comment begins with "Variant" are not part of the program.
Each is a plausible slip in the definition after it (a forgotten reset, a
dropped guard); replacing the definition by it breaks one property, which
shows that the property says something about that code.

### How state and actions correspond

**AccountTradingState.** `book` is `AccountTradingState::Impl`: `orders` (state,
`reported` and `accounted` fill counts, `cancelAck`, `reconcile`), `trades`
with their keys, `positions` with `known`, and the account-wide flag. An
operator takes a book and returns `[book, code, positionChanged, reconcile]` like the
`ApplyResult` of the method it is named after. `TradeKeys` are pairs of an order
and the last lot of the fill: the exchange's trade id, which is unique per
fill. Table capacities are constants.

**OrderBook.** `Create`, `Local`, `Deliver`, `DeliverStray` are calls of the
book; `Accept`, `Reject`, `Fill`, `Cancel` are the counter. `Deliver` picks any
message the counter has ever emitted, so loss, repetition and every order are
included. `DeliverStray` delivers messages no truthful counter sends; the
properties about agreement hold until the first of those.

**Session.** `records` are the `SignalRecord`s, `exit` the `ExitState`, `daily`
and `openOrders` the counters of the risk limits; `frozen` stands for `frozen` and
`reconciliation`, which `set_fault` sets together. Client order ids are given
out in sequence, so an order is its number. `Submit`, `Cancel`, `OnMarket`,
`ReceiveReport`, `ReceiveTrade` are whole handlers. Clock, market data, prices,
funds and the rate window are a nondeterministic accept or refuse. The counter
sends reports and trades in two FIFO flows of at most `Backlog` messages; the flow itself (`Send`) is
the SDK's and external, what a message does is in the `Counter*` and `Receive*` definitions. An exit that is due while
there is nothing to close is dropped (`DueExit`, 1967-1972): in a
session that keeps its connection that does not happen, after a recovery it may. `plan`
never changes: it is what the strategy of this run may ask for and what the
restart image restored of the day's counts, chosen in `Init`, so that one run
has plans of several kinds.

**CallbackQueue.** The program counters `pc` (push) and `dpc` (drain) split
`push_callback`, `pop_callback` and the drain's exchange of the flag at each
access to a shared atomic. Sequential consistency is assumed for them: each index
has one writer and is published with release and read with acquire, and an
acquire load that returns an older value is the same load made earlier. One
producer is assumed, as the SDK calls back from one thread per API.

**CallbackDrain.** Between the requests of a recovery nothing in the overflow
handling differs, so the phases from Authenticating to QueryingFunds are one
phase `Querying` with one answer. `missed` is a history variable: a callback was
dropped and no request has been sent since.

**Recovery.** `phase` is `recovery.phase`, `answers` the rows under way with
whether their request id is the expected one, `asked` the request the counter
has still to answer, `seen` the records with `seen_during_recovery`. Each branch of
`drain_callbacks` is an action; a branch that ends in a request has the outcome
that the API refuses it. Here the flag of the queue and the drain that finds
it are one step, `Overflow`, since `CallbackDrain` has what happens in between.
`crossed` and `alarmed` are history variables for the exclusions of section 3.
An erroneous answer also stands for a payload the account cannot accept.

**Acceptance.** `told` is what `acceptance_snapshot` counts in pushed callbacks,
`verdict` and `finalQuery` are `acceptance_status_` and
`acceptance_final_query_started_`. `poll_once` drains, updates the verdict and handles
market events in that order and over and over; as callbacks arrive at any moment, its
parts are actions: `HearReport` and `HearTrade` are those of `Recovery` with the
counting added, `FindFault`, `AskForTheEnd` and `Conclude` the three ways through
`update_acceptance` that change something, `TakeSignal`, `TakeMarket` and
`MarketOverflow` the rest. The phase that `poll_once` samples before it handles events may be
older than the one a final query has just set; the session is frozen then, so
`on_market` does nothing, and the strategy has given its one signal. `accepting`
is chosen in `Init`: without it the module is `Recovery`; with it the plan is one signal of one
lot (`OneSignal`), as an acceptance is refused unless `max_signals_per_run` is 1 (`engine.cpp:914`)
and a signal asks for one lot (`strategy.cpp:219`). `confirmed` is a history
variable: the counter has answered a position query after one lot had been opened and closed.

**Journal.** One action per access to a shared atomic (`running`, `largest_sequence`,
`flush_request`, `flushed_sequence`, `flush_failed`, the queue); what a thread does
to variables of its own goes with the access before it. `writer` and `control` are
program counters named for what the thread looks at next. The file is `stream` (what the
writer has put out), of which `durable` lines have left the buffer of the `ofstream` for the
kernel: `Spill` moves the buffer at any moment, `bad` is the error state of the `ofstream`, which is never cleared, and a
crash of the process is any state, with the first `durable` lines left. The journal is flushed and
never synced, so nothing is said of a crash of the machine; where a name or a comment says "on
disk", it means handed to the kernel. `log` and `owed` are history variables: what was
accepted, and how much of it when flush was called. One thread records (the
worker) and one flushes; no second caller of flush exists, it would overwrite the request of
the first. The branch of `stop` for a mark that is refused (332) is dead code: the thread
that waits for room is the only one that pushes. The clamp of the loss to 32 bits is left out.

**MarketIngress.** `ingest` reads `accepting` twice, before it numbers an event and
before it publishes it; the thread that stops the feed can come in between, so
the two halves are the actions `Number` and `Publish`. Publishing to all channels is
one step, as no thread sees more than one of them. The queue is a sequence: its
ring has the same one-writer indices as the callback ring.

**ThresholdStrategy.** A price is `Below` the threshold or not, `Top` is one to
which the protection cannot be added. `Decide` is `on_market`; the counts that
saturate in the code do so at the limit they are compared with.

**MarketFeed.** The callbacks of the API are atomic except for those that publish,
which are two steps; one callback runs at a time, on the API's thread. The
main thread is a program counter `main` over the loop of `run_live_engine` and
`ensure_market_candidate`: closing the feed and releasing the API are separate
steps, and the release waits for the callback under way. Login answers that a
disconnection overtakes are not delivered. Whether an account is Ready is chosen
for each event, which allows more than the code does. Three variables are history: `cutOff`, the main
thread closed a feed that had not failed; `tried`, the accounts that have failed since the connection
was last Running, emptied by the callback that sets Running (411-413); and `earlier`, those
that failed before a run the main thread has not seen, emptied where it sees one
and clears its own count of failures (1128-1132).

**Restart.** `journal` is the file of the account's latest run, as
`read_trace_journal` and `build_restart_image` see it: how it ends, and the events that
matter to them. `Launch` is the construction of the worker with the image, `Stop`
the checkpoint and the clean stop of the journal, `Crash` the loss of anything the
writer had not written. The recovery is reduced to the login and the answer
to the order query, whose rows come in any order and may break off after any of them; `Ready`
stands for its success. An order reference stands
for the client id too, and an order on its way is at the counter already or
lost. A lost critical event (`dropped`) makes the file worthless whatever else is
in it, so the model empties it. Orders that never reach the API use a record
in the code and none here. When an exit is due is left to `Session`.

## 3. Runs

Passing runs (state counts in brackets):

| Run | Instance | Shows |
|---|---|---|
| `order_book` (564,246) | an order opening 2 lots, one closing 1 or 2, a third order for strays, tables just large enough | fills are counted once, in any order of messages; positions are opens minus closes; a full order is Filled; the book converges to the counter; no alarm without a cause; ended orders move for fills only |
| `session` (461,114) | an entry of 2 lots, or two entries on opposite sides on a day with one of its 2 cancels used before the start; two open slots, entry timeout 1, one repricing | every entry at work holds a slot and gives it back when its end is known; one cancel request at a time, and the quota is what was sent; one exit order per signal; a due exit has lots to close; exits within the position; lots of two signals are never held by an account that trades; `FlatOrFrozen` (liveness) |
| `callback_drain` (1,231,305) | ring of 3, drains of at most 3, all five kinds of callback, one account thread and one CTP thread | no slot touched by both threads, refinement of `LossyFifo`, every loss noticed; no trading over a gap; a loss is made up for or the account ends frozen (liveness) |
| `recovery` (4,026,683) | one entry, one exit, two connections, with and without settlement, with and without acceptance | no order before Ready; recovered orders and positions agree with the counter; a recovery never waits in vain; an acceptance verdict is true |
| `market_feed` (1,537,513) | two accounts, one of them blocked, queues of one event, up to 6 ticks and 3 connections | to each account a prefix of the market without a gap until its own latch; signals are the crossings and none spans a disconnection; no gap but the worker's own; giving up only after every account's failure (but for a run the main thread missed); a failed feed is replaced (liveness) |
| `restart` (4,008,037) | three references, two signals, a day's limit of 2 orders and 1 cancel, three runs with one crash, two days, a journal that may lose events | limits of the day over all runs; one live entry at most; an account that trades knows its live orders; a clean stop forgets none; references are fresh |
| `journal` (1,261,747) | a queue of 2 with 1 reserved, 3 events, two calls of flush, a file that may fail | refinement of `TraceLog`; flush is a barrier; a stop keeps everything; critical events have room; flush and stop return (liveness) |

Properties worth a remark:

- `ConvergesToCounter` states agreement of the fill counts, of Filled, of Rejected
  and of `cancelAck`. It does not say that a canceled order ends in Canceled: a
  partial trade that arrives after the cancellation takes the state back to
  PartiallyFilled (562), which no later message leaves.
- `NoFalseAlarm` lists the causes of an alarm on a truthful counter: a full
  trade table, a close before the open it closes, and a rejection of an order
  whose cancellation had been asked for.
- `OpenSlotsMatchOrders` has both sides of a slot: a slot given back before the entry has ended at the counter
  would let the account have more entries at work than its limit, one not given back with
  the event that tells the end would be lost. Between the end and that event
  the slot is held, as the account cannot know.
- `OneRequestAtATime` is about the counter: at the moment a cancel request is sent, no earlier one for
  that order is unanswered and no refusal of one is on its way. It is an action property, since the
  count of requests says nothing of what the account knew at each. After a refusal by a
  report instead of a response the flag stays and there is no second request at all
  (`session_refusal`).
- `LotsHaveAnExit` says that a branch of on_market is not taken in a session that keeps its
  connection: an exit that is due with nothing to close is dropped (1967-1972, `DropsExit`;
  the lemma is `NoneDropped`). After a recovery the branch can be taken.
- `ExitWithinPosition` allows an exit to exceed what the counter holds by the
  fills of earlier exits whose trades are still on their way: the code computes
  the size from delivered trades (2549-2562).
- `FlatOrFrozen` accepts a freeze with an open lot. The code freezes, for
  instance, when an entry fills again after the exit of its first lots is done:
  the second exit has the key of the first and is a duplicate.
- `RecoveredOrders` excludes recoveries in which a pushed message contradicted the
  book (`alarmed`). The end of a recovery thaws the account whatever was found
  since the order query (2448): without the exclusion TLC shows an account in
  Ready with a rejected order it takes for live. It takes an order for ended when its
  state is terminal or its cancellation has been acknowledged: a partial trade delivered after
  Canceled takes the state back (562). `RecoveredPosition`
  excludes recoveries a trade crossed (`crossed`), see `recovery_position`, and also those
  with a contradiction, since a full trade table refuses a pushed trade.
- `SignalsWithinSubscription` and `FaultsOnlyAfterDiscard` exclude a feed that the main
  thread closed although it had not failed any more (`cutOff`): a front that
  reconnects between the main thread's look at the state and the release is
  cut off without the invalid event that marks a disconnection.
- `GivesUpAfterAll` counts the failures since the feed last ran and, if the main thread has missed that run
  because it began and ended between two of its looks, those before it. Without
  `earlier` TLC refutes it: see section 6.
- `OrdersWithinDailyLimits` is over the counter's orders, not the account's counts:
  after a clean restart the counts err upwards (section 6).
- `VerdictIsTrue` allows a Fail after a trade that crossed a position query
  (`recovery_position`) and says nothing of Pending: see section 6. Of a Pass it says that
  nothing of the account is at work only if the account has had no fault; after one there may be
  exits (section 6), though no entry.
- `FlushIsABarrier` counts the events for which `try_record` had returned when flush was
  called. The barrier holds because numbers grow in the order of the queue, so a number
  that is written stands for all before it, although refused events leave gaps.
- `CriticalHaveRoom` is what the count of `kCriticalTraceCapacityRequired` needs: as long as
  fewer than `Reserve` critical events are recorded, none is refused. That a run has
  fewer is the arithmetic of the comment (see section 6 for one term of it).
- `KnowsItsOrders` says of a restored order only that the counter has it; the
  recovery query decides what has become of it.

Runs in which the code breaks a statement of the repository:

| Run | Statement | What the code does |
|---|---|---|
| `session_rollback` | README.md:49, a refused cancel is rolled back | the rollback is a report of 0 fills, stale for an order with fills: it stays CancelRequested (1934) |
| `session_refusal` | README.md:50, an exit is canceled on timeout and repriced or the account freezes | a refusal by `OnRtnOrder` leaves `cancel_requested` set: the exit waits for ever (2528) |
| `drain_lost_connected` | README.md:51, an overflow makes the account query everything | when the callback lost is `OnFrontConnected` nothing is ever queried (2580) |
| `recovery_position` | README.md:51, frozen until positions have converged | a trade between the trade query and the position row is counted twice, and the account is Ready (2405) |
| `restart_quota` | README.md:54, a restart on the same day goes on with the quota used up | a run stopped before its login leaves a clean journal without checkpoint, so the next run starts without an image and counts cancels from zero (1621) |

### Bounds, and why they are enough

Orders: three in `OrderBook` and `Session` (an entry, its exit and a second exit or
entry), two in `Recovery` (an entry and an exit). The book treats orders separately except for
positions and table space, and the session's rules relate an exit to one
entry or to one rival. Lots: two are enough for partial fills and for a late
lot; the strategy itself always submits one (`strategy.cpp:219`). Ring: 3
slots hold 0, 1 or 2 events and wrap within a few steps, and the proofs cover
every size. Flows: `Backlog` 2 lets a trade overtake two reports; in `Recovery` it
is 1, since messages lost there make the difference, not their number.
Connections: two, the last of which stays, so every loss is followed by a
recovery. Repricings and cancels: enough to use up each limit. Events waited
for are counted up to the limit they are compared with. In `Recovery` no cancel
request is refused by the counter (`Refusals` empty): `Session` has that.
`MCBudgets` gives `market_feed` one of three bounds from the start: six
ticks on a quiet feed (two signals with prices below the threshold and a
cooldown of 4 between them), three ticks of every kind that may also be stale,
and three ticks over three connections. A queue of one event fills at once,
and two accounts make a round of the failover. In `restart` the references exceed
the day's limit by one, so it is the limit that stops an account; three runs are
a run, a restart, and a restart of that, and two days let an image be of
yesterday. One crash is enough: the file it leaves makes the next run start
without an image or blocked, however it came about.

The two plans of `session` are an
entry of two lots, which fills in parts, and two signals; the second starts with a cancel used up
so that its day runs out of them. In `journal` a queue of 2 is full after two events and the third
is refused; the proofs cover every size. `Acceptance` has one account, as verdicts are
made by each worker from its own session.

The type invariants of `OrderBook`, `CallbackDrain`, `MarketIngress`, `Journal` (`JTypes`) and
`Restart` are proved. Those of `Session`, `Recovery`
and `MarketFeed` describe their variables and hold in the instances above (TLC checks
one when its name is added to the `.cfg`); the runs keep to properties that say more.

`CHECK_DEADLOCK FALSE` is set where an account really may stop: all orders
ended, limits used up, and no more calls to come.

### Fairness

- `Session`: weak fairness of `OnMarket` (ticks keep coming while the market is
  open and the worker polls without end), of `ReceiveReport` and `ReceiveTrade` (the
  worker drains on every poll), and of the counter's answer to a cancel
  request that is waiting for one. The counter is not obliged to fill, accept or
  cancel anything.
- `CallbackDrain`: weak fairness of the account thread and of a callback that has
  begun. Strong fairness of `Respond`: a request is answered if the link is up
  again and again; a link that breaks at every moment before an answer is not
  excluded by the code, but no program recovers over it.
- `MarketFeed`: weak fairness of the main thread's steps (it polls without end) and
  of the end of a callback that has begun. Nothing is asked of the front.
- `Journal`: weak fairness of the writer, of the account thread within `try_record` and `stop`, and of
  the thread within flush: threads are scheduled. Nothing makes anyone record, stop,
  or call flush, nor a buffer reach the kernel.
- `Restart` has safety properties only and no fairness.
- `Recovery` has no liveness property and no fairness: `AnswerOnTheWay` says as
  an invariant that what a recovery waits for exists.

## 4. Proofs

**AccountTradingStateProofs** holds the lemmas about the operations of the book that the next two
rest on: every operation takes a sound book to a sound book, and changes the state of one order
at most, the one its argument names.

**OrderBookProofs** (any number of orders, instruments, table slots; any
strays). The inductive invariant `IInv` is the type invariant, for each order
the bounds of its two fill counts by its quantity, and that an order with
every lot accounted for is Filled. The bounds are needed because a report may
not lower the state of an order whose count has reached its quantity, and the
type of a count depends on the check of the quantity in `Malformed` and
`Mismatched`. From it: `TypeCorrect`, `FilledStays`, and the action property
`TerminalStates`.
As long as only the counter speaks (`strayed` is false) more holds. `OrdersAgree` compares the two
counts of an order with what the counter did, whose fills tile the lots it has filled; `LotsInv` says
that every recorded trade is one of these fills and that an order accounts for their lots, which
gives `LotsAccountedOnce`. With the lots of each side, `PositionsBalance`; with `ArrivalsInv`, that what was
delivered has left its mark and no later message takes it away, `BookConverges`; and `AlarmsExcused`
goes through every place that flags an order and shows the contradiction it looks for impossible
but in the three cases `NoFalseAlarm` names.

**SessionProofs** (any limits, plans, thresholds and number of orders; reports and trades in any
order and of any kind the counter may send). `SessionInv` joins the types and the soundness of the
book with two relations: `OpenSlots`, that the count of open orders is the number of records that
hold a slot, that it is within its limit, and that a record with a slot is an entry the book does
not know to have ended; and `UsedInOrder`, that records are taken from the first on, which is why a
new record's slot is counted once. `HoldsSlot` is what must be kept at each call of the book: since
a call concerns one order, and the handler then releases the slot of that order if it ended, no
other record is touched. From it: `SlotsWithinLimit`, which says that the
unsigned count neither wraps at zero nor passes its limit. The section "Sums" proves what the folds
of the properties compute: the sum over a finite set is a term and the sum of the rest whichever
term is taken, by the well-founded order of the subsets; so sums compare and add term by term.
`QuotaIsWhatWasSent` is the first use. `OrdersInv` says who the orders are: the counter has none
without a record, entries open and exits close, no two records have the same key, and the book knows
an order by what its record asks for. `ExitInv` joins `LotsHaveAnExit` to it: an exit is of the
signal and against the direction of an entry, so a trade that counts adds lots of the side the
account holds already or closes some of it (`LotsKeepAnExit`, `LotsAreOfOneSignal`). `OneExitInv`:
no report says that an order is canceled before it is, an active exit is an exit record of its
signal, an account that is not frozen has no other exit order of that signal live at the counter
after its first attempt, and before it there may be a forgotten one, but then the attempt is a
duplicate (`FirstExits`) (`OneExitOrderAtATime`). `FillsInv`: what is held is the sum of what the
orders account for, and the trades of an order on their way continue, one behind the other, what is
accounted for, up to what the counter has filled; so the lots held exceed those open at the counter
by closes under way at most (`ExitsWithinPosition`). `SlotInv` says that a slot is not given back too early:
no report speaks of an end before the counter has ended the order (`EndsAreTrue`), the book knows
of no end before it, and of an order at work something is left to fill. So a trade, which continues what
is accounted for (`TradesFollow`, a part of `FillsInv`), cannot make such an order
Filled; with `OpenSlots` this is `SlotsMatchOrders`. `AskInv`: `cancel_requested` is set as long as the
counter has a request to answer or its refusal is on its way, there is one such refusal at most, and only a
response to a refused request clears the flag (`RequestsOneAtATime`).

**CallbackDrainProofs**, on the queue (any ring size of at least 2). `QueueInv` relates the
local copies of the indices to the shared ones: the index a thread has read
may be older than the shared one, and then lies on the same side of the other
index, so a slot seen free stays free until it is written, and a slot seen
full stays full until it is released. `QueueCorrect` gives `NoSlotRace`;
`QueueImplementsFifo` shows every step to be a step of `LossyFifo` or a stutter, with
the events between the two indices as the abstract queue.

The same module, on the drain: `DrainInv` follows what is known of a loss: the flag says
so or the producer is about to raise it; or a drain has taken it, in a
phase that makes its end act; or the phase is one that is left by a new request
only. `NoTradeOverAGap` is `TradesWithoutGaps` for every ring size and drain limit.

**RecoveryProofs** (any limits, orders and connections). `FrozenUntilReady`: every
phase but Ready is frozen. It is inductive with the type of the counter: the one
step that thaws enters Ready, every step that leaves Ready freezes, and
`set_fault` never thaws. `NoOrderBeforeReady` is `OrdersOnlyWhenReady`: an order is
sent only after the risk check, which a frozen account fails.
`RecoveryWaitsForAnAnswer` is `AnswerOnTheWay`: `AnswerInv` says that the request of the current
phase is at the counter (`asked`) or the last row of its answer among the answers. The answers are
taken in order, each later phase asks anew, and a disconnection leaves the phases that ask, so the
row is not taken before it is looked for.
`AcceptanceImplementsRecovery`: every step of a worker that judges is a step of `Recovery` or leaves
its variables alone, so the theorems of `Recovery` hold of it (`AcceptedOnlyWhenReady`,
`AcceptedAccountRecovers`).

Its second part: a recovered account agrees with the counter. `TruthInv` says that what the account
knows, and what a push or a row of an answer may yet tell it, is so at the counter: the trades on
their way continue what the orders account for, a row of the current request speaks of the counter
at the moment of the answer, and `seen` names orders the counter has. Four invariants say that
what the account was not told is still on its way. They make an exception for an account that is
`Excused`: it does not ask (what it missed it will ask for), its order query is not answered yet,
its answer carries an error, or it was
alarmed. `EndsExpected` follows the end of an order through reports and order rows, `LostExpected` an
order the counter never got, which the end of the order query must catch, `TradesExpected` the
trades through pushes and trade rows, `BooksExpected` the positions through the position rows,
unless a trade crossed them. They need each other: an end is taken only with the fills it speaks of, and the
positions are the counter's because by then no trade is unknown. `SeenReset` says that a query begins with nothing
seen. Together they are `RecoveredInv`, from which `RecoveryRestoresOrders` and
`RecoveryRestoresPosition` follow when nothing is on its way any more. TLC checked the candidates on
the instance of `recovery` and on larger ones (up to 24 million states) before they were proved.

Its third part: verdicts. `NoVerdictTakenBack`: the main thread
reads the verdicts while the workers run and again when they have ended; a verdict never becomes
Pending again and a Fail never a Pass. `VerdictsAreTrue` is `VerdictIsTrue`, from
`RecoveredInv` and `JudgeInv`. One entry of one lot leaves one lot to close (`OneLot`), so by the sums of
`SessionProofs` one closed lot means that one was opened, none is left and there is
no other (`TripDone`); as the book knows of no fill the counter has not made, a trip the book knows of is
all there is (`TripIsAll`). `ToldTrue` ties the pushed trades that are counted to the book; `EndAsked` says that
the final query comes after the trip, so that an answer to its position query finds the counter
flat, and `PassInv` that a Pass comes after that answer. A Fail needs a
cause (`FailInv`), which rests on `CleanInv`: an account without a fault asks before its first order and for
the final query only, no trade before the end of its trip crosses a query, and an exit at work is
the one it waits for, which is also
why an account that passes without a fault has nothing at work.

**JournalProofs** (any queue, reserve, number of events and flushes). `JInv`: stream, the event
in the writer's hand and queue are the log cut in three, without a gap while the stream has not
failed; numbers grow along the log and `largest` is that of the last event whose
`try_record` has returned; a flushed number stands for events that are all with the kernel;
behind the first `Capacity - Reserve` places of the queue there are critical events only; the writer
ends after `running` is false with an empty queue. The conjuncts need each other: the barrier
needs the order of the numbers, which needs what is published when. From it: `FlushedIsOnDisk`,
`StoppedIsOnDisk`, `CriticalTaken`, and `JournalImplementsTraceLog`, in which the disk of `TraceLog`
is the first `durable` lines of the stream.

**MarketFeedProofs** (any accounts, queue size, number of events and budgets).
`IngressInv` is the type invariant and, for each account, that the queue holds the
next events of the common history one by one, up to its end unless the latch
is set (`HoldsNext`): an unlatched channel has been given everything, so the event
published next is the one it lacks, and a latched one takes nothing more.
`IngressCorrect` states it of the ingress alone; `FeedWithoutGaps` carries it to
the whole market side, since every step of `MarketFeed` is one of the ingress or
leaves its variables alone. `OutOfCandidates`: the main thread gives up only when every account has failed
since the feed last ran, or before a run it has missed. `TurnInv` gives each account the number of
turns since its last (`TurnsAgo`) and says that those of `tried` and `earlier` are the ones of the
last `failures` turns, not counting the
connection there is, and that `tried` is empty while the feed runs; a new connection ages all of them by one, and after as many
failures as accounts the last turns are those of all.
`FeedInv`: a strategy whose worker has thrown nothing away is at the last event taken from its
channel, and its baseline is the last event it saw, which was valid. Between the subscriptions lies
an invalid event, which clears the baseline; so the feed makes no gap (`FeedMakesNoGap`) and no
signal comes from the first event of a subscription (`NoSignalAcross`).
`AsksAtCrossings` is `SignalsAreCrossings`: the counts a strategy keeps are those of the prices it has been
shown (`Follows`: events below the threshold in a row, usable events since the last signal, each
up to its limit), so an event makes it ask exactly if it is the next crossing. The definition it
is compared with is a recursive function of the whole history; its table is extended by one
event at a time (`ToldNext`), which takes no induction over the data, since the
invariant has a table for the history so far.

**RestartProofs** (any references, limits, runs, crashes and days, with and without a journal that
loses events). `RestartInv` follows what one run hands to the next. While a run is on, its records and
the events of its journal are below its next reference (`RunInv`), what the journal says of an order
stays true (`JournalInv`), and its counts, or those its login will give it, leave out no order that
it knows (`CountInv`). A run that ends hands over a checkpoint that counts every order of its journal
that is at the counter, or nothing at all, or the counter has begun a new day (`CheckpointInv`,
`DayInv`). The next run thus knows and has counted some of the orders; the order query counts what it
imports, and `Ready` means that none is missing (`ReadyInv`). The limits are part of the
invariant: an order is sent only by a run that knows all the others and has counted them.
They say less than the counts because a count that has reached its limit stays there (1424):
`CountsAll` bounds the orders by the count only below the limit, and `OrdersWithinDailyLimits` is what
then still holds. From it: `QuotaHoldsOverRestarts`, `OpenLimitHoldsOverRestarts`,
`KnowsOrdersOfEarlierRuns`, `ImageForgetsNoOrder` and the action property `RefsAreFresh`.
The image is a fold over the events and the answer one over its rows. `FoldTable` fills
in the table that a fold over n places is defined by, by the size of the sets of places;
`PlacesUpTo` reads from it the value after each place, which is what the place makes of the
value before. What holds at the beginning and is kept by every place holds at the end; `ImageTaken`, `AnswerTaken` and
`EventsTaken` are the cases of it that the invariant needs.

The assumptions are those of the modules (`BookAssumption`, `QueueAssumption`,
`CallbackAssumption`, `SessionAssumption`, `RecoveryAssumption`, `JournalAssumption`, `IngressAssumption`,
`StrategyAssumption`, `FeedAssumption`, `RestartAssumption`): constants of
the right kind, a ring of at least two slots, record capacity equal to the
number of orders, at least one day. TLC evaluates them in the runs.

Only model-checked: liveness (`FlatOrFrozen`, `LossNoticed`, `LossMadeUpFor`, `FailedIsReplaced`, `CallsReturn`),
which is beyond the prover, and the types of `Session`'s, `Recovery`'s and `MarketFeed`'s variables
beyond those the invariants contain. Every other property of a passing run is a theorem.
Induction is possible where a set can be given to it: the sums above, by taking the least
counterexample in a well-founded order, and the folds of `Restart`, by their tables.

## 5. Hazards

`PROJECT.json` lists under `hazards` what in this code is hard to test, with the
line where it bites and the properties that would notice. Three have no
property (trading.cpp lines 739, 1923 and 1575); the note beside each says why.

## 6. Findings

The five runs of section 3 that end in a violation are the disagreements met
while modelling; `PROJECT.json` quotes the statements. Two further observations
are part of passing runs, through the exclusions described above: the thaw at
the end of a recovery in which a contradiction arrived (2448), and the freeze
with an open lot when an entry fills after its exit (1106).

Other behaviour that a reader of the code may not expect, none of it against a
statement of the repository:

- A worker discards market events while its account is not Ready. When the account is
  Ready again, the next event has a gap before it and the strategy is faulted for
  good, although the account trades (`engine.cpp:845`, `strategy.cpp:143`).
- A run of the feed that begins and ends between two looks of the main thread
  opens no new round of the failover (`engine.cpp:1128`, whose comment gives a
  successful run a new budget): the failures before it still count. With two accounts, the first
  fails, the second runs, is disconnected and fails on its reconnection before the main thread looks, and the
  engine gives up although one account only has failed since the feed ran. TLC finds
  it when `earlier` is left out of `GivesUpAfterAll`.
- A connection that was lost and whose front never comes back stays
  Disconnected; only Failed is replaced (`engine.cpp:1134`).
- Orders of the day that have ended are imported and counted again after a clean
  restart, on top of the counts of the image (1424): the counts err upwards.
- An exit that is submitted again while trades of its predecessor are on their way asks for
  lots that are closed already. The trade that makes the account flat clears the exit state
  (1116) with that order still at the counter: it is neither timed out nor canceled, and may close
  a lot of the next signal beside that signal's own exit. Hence `OneExitOrder` counts per
  signal, and `LotsOfOneSignal` is about the lots an account takes, not about what such an order
  closes; the way there takes an entry, two exits, an entry and an exit, five orders, more than the
  instance of `session` has. A counter that rejects a close of more than is held would end the
  order itself; the model's counter may do either.
- The lots that `recovery_position` counts twice make exits for lots that do not exist. Another loss
  and recovery sets the position right and makes the account flat while such an exit is at the
  counter; an acceptance can then pass beside it. Hence `VerdictIsTrue` says that nothing is at work
  only of an account that has had no fault.
- Restored and imported orders are not journaled again, so an order that is
  lost freezes the first run after the restart only.
- `build_restart_image` refuses an image in which an entry and its exit, which share
  the signal id, are both uncertain: the next run starts without one.
- Signal ids start again in each run and an imported record has its order
  reference as signal id, so a record of an earlier run can suppress a new signal.
- A restored exit is not put into the exit state, an imported one is (1575): the
  former is neither timed out nor counted as the one exit. More than one
  imported live exit freezes the account.
- A blocked account opens no journal, so it stays blocked in all later runs.
- The counts of an acceptance are of pushed callbacks: a lot whose trade is learned from a
  query (2309) is in the book and not in the counts, so the account stays Pending, and the run
  ends incomplete though the round trip was made.
- A disconnection after a Pass leaves the Pass and makes the summary say
  `final_position_known=0` beside it (`engine.cpp:776`).
- `stop` does not look at the stream: a journal whose last lines could not be written ends
  without a word; the next run finds no mark and takes it for a crash.
- flush has no caller in the engine; the tests use it.
- Of the nine critical events that `telemetry.hpp:84` counts for an order one is its
  cancel, yet on_market asks again for the cancel of an entry after a refused one
  (1940, 2061). The reserve has room to spare.

## 7. Plan

Done, in this order: `AccountTradingState`/`OrderBook`, `Session`, `CallbackQueue`,
`CallbackDrain`, `Recovery`, `MarketIngress`, `ThresholdStrategy`, `MarketFeed`, `Restart`,
`Acceptance`, `Journal`; theorems for all of them but `ThresholdStrategy`.

Next, in order of importance:

1. `Restart` with the exits of `Session`: the timeouts of restored and imported exits (1575).
2. A bound of the true net position by the limit and the slots (739).
3. The diagnostic clients.

Theorems to prove next: `TradesWithoutGaps` carried over to `Recovery`.

## 8. Not modelled

- The SDK and the exchange: external, present as the counter's actions.
- Configuration, replay parsing, benchmark, `main`, interrupt handling: parsing,
  measurement and process control without a protocol of their own.
- Diagnostic clients (`market_client.cpp`, `trader_client.cpp`): a probe outside
  the engine; considered after the plan above.
- Telemetry of the queues (high watermarks, ages), the recorder of latency samples and its
  statistics, the redaction of error texts, the summary printed at the end of a run.
- Weak memory: see `CallbackQueue` in section 2.
