--------------------------- MODULE RecoveryProofs ---------------------------
(***************************************************************************)
(* Proofs about Recovery and Acceptance for any number of orders,          *)
(* instruments and connections and any limits: an account in a phase other *)
(* than Ready is frozen, so no order of its reaches the counter.           *)
(*                                                                         *)
(* The one step that thaws the account is the one that enters Ready        *)
(* (ReceiveFunds), and every step that leaves Ready freezes it; submit     *)
(* looks at frozen through the risk check, after which alone an order is   *)
(* sent. The worker of Acceptance adds nothing to this account, so what is *)
(* proved of the account holds of it; and it takes no verdict back.        *)
(* A recovery that asks has its request or its answer on the way.          *)
(*                                                                         *)
(* The second half proves that a recovered account agrees with the         *)
(* counter. TruthInv says that whatever the account may yet be told, by a  *)
(* push or by a row of an answer, is so at the counter; four invariants    *)
(* then say of the ends of the orders, of the orders that were lost, of    *)
(* the trades and of the positions that what the account was not told is   *)
(* still on its way, unless it is excused: it does not ask, has only just  *)
(* asked, or was alarmed.                                                  *)
(*                                                                         *)
(* The last part proves the verdict of Acceptance true (JudgeInv). One     *)
(* entry of one lot leaves one lot to close: once the book knows of a      *)
(* close and agrees with the counter, all is known (TripIsAll). What the   *)
(* verdict says against an account without a fault rests on CleanInv: such *)
(* an account asks before its first order and for the final query only,    *)
(* and has at most one exit order at work, the one it waits for.           *)
(***************************************************************************)
EXTENDS Acceptance, SessionProofs

-----------------------------------------------------------------------------
(* The inductive invariant *)

\* frozen covers every phase but Ready.
FrozenUntilReady ==
  /\ counter \in [Orders -> CounterOrder]
  /\ frozen \in BOOLEAN
  /\ phase # "Ready" => frozen = TRUE

\* No order reaches the counter.
NoNewOrder ==
  \A o \in Orders : counter'[o].status = "Live" => counter[o].status # "None"

-----------------------------------------------------------------------------
(* Faults and requests *)

\* The faults found before a request is made
Reasons == {"StateConflict", "CallbackQueueOverflow"}

\* One of them makes a sequence of faults.
LEMMA OneReason == ASSUME NEW r \in Reasons PROVE <<r>> \in Seq(Reasons)
OBVIOUS

\* set_fault never thaws.
LEMMA FaultsKeepFrozen ==
  ASSUME frozen \in BOOLEAN, NEW reasons, SetFaults(reasons)
  PROVE  /\ frozen' \in BOOLEAN
         /\ frozen = TRUE => frozen' = TRUE
         /\ reasons # <<>> => frozen' = TRUE
BY Zenon DEF SetFaults

\* recovery_failure leaves the account frozen.
LEMMA FailFreezes ==
  ASSUME FrozenUntilReady, NEW reasons \in Seq(Reasons), Fail(reasons)
  PROVE  frozen' = TRUE
<1>1. CASE phase = "Frozen"
  <2>1. frozen = TRUE
    BY <1>1 DEF FrozenUntilReady
  <2> QED BY <2>1, FaultsKeepFrozen DEF Fail, FrozenUntilReady
<1>2. CASE phase # "Frozen"
  <2>1. If(phase # "Frozen", "RecoveryFailed") = <<"RecoveryFailed">>
    BY <1>2 DEF If
  <2>2. reasons \o <<"RecoveryFailed">> # <<>>
    OBVIOUS
  <2> QED BY <2>1, <2>2, FaultsKeepFrozen DEF Fail, FrozenUntilReady
<1> QED BY <1>1, <1>2

\* A request the API refuses leaves the account frozen.
LEMMA NotSentFreezes ==
  ASSUME FrozenUntilReady, NEW reasons \in Seq(Reasons), NotSent(reasons)
  PROVE  frozen' = TRUE
<1>1. Append(reasons, "RecoveryFailed") # <<>>
  OBVIOUS
<1> QED BY <1>1, FaultsKeepFrozen DEF NotSent, FrozenUntilReady

\* A request leaves a frozen account frozen.
LEMMA RequestKeepsFrozen ==
  ASSUME FrozenUntilReady, phase # "Ready", NEW p, NEW reasons \in Seq(Reasons),
         Request(p, reasons)
  PROVE  frozen' = TRUE
BY FaultsKeepFrozen, NotSentFreezes DEF Request, FrozenUntilReady

\* begin_query_reconciliation leaves the account frozen.
LEMMA BeginQueriesFreezes ==
  ASSUME FrozenUntilReady, NEW reasons \in Seq(Reasons), BeginQueries(reasons)
  PROVE  frozen' = TRUE
BY NotSentFreezes DEF BeginQueries

-----------------------------------------------------------------------------
(* Answers *)

\* A row of an answer sends no order, and thaws the account only to Ready.
LEMMA AnswerStep ==
  ASSUME FrozenUntilReady, ReceiveAnswer
  PROVE  FrozenUntilReady' /\ NoNewOrder
<1> USE DEF FrozenUntilReady
<1>1. <<>> \in Seq(Reasons)
  BY EmptySeq
<1>2. ASSUME NEW o, NEW result
      PROVE  TradeFaults(o, result) \in Seq(Reasons)
  <2>1. TradeFaults(o, result) \in {<<>>, <<"StateConflict">>}
    BY DEF TradeFaults, If
  <2>2. <<"StateConflict">> \in Seq(Reasons)
    BY OneReason DEF Reasons
  <2> QED BY <1>1, <2>1, <2>2
<1>3. counter' = counter
  BY DEF ReceiveAnswer, ReceiveLogin, ReceiveSettlement, ReceiveOrderRow,
         ReceiveTradeRow, ReceivePositionRow, ReceiveFunds, ReceiveFlawed,
         environment
<1>4. NoNewOrder
  BY <1>3 DEF NoNewOrder, CounterOrder
<1>5. CASE ReceiveLogin
  <2>1. phase # "Ready"
    BY <1>5 DEF ReceiveLogin, Receives
  <2>2. (\E p : Request(p, <<>>)) \/ BeginQueries(<<>>)
    BY <1>5 DEF ReceiveLogin
  <2>3. frozen' = TRUE
    BY <1>1, <2>1, <2>2, RequestKeepsFrozen, BeginQueriesFreezes
  <2> QED BY <1>3, <1>4, <2>3
<1>6. CASE ReceiveSettlement
  <2>1. phase # "Ready"
    BY <1>6 DEF ReceiveSettlement, Receives
  <2>2. (\E p : Request(p, <<>>)) \/ BeginQueries(<<>>)
    BY <1>6 DEF ReceiveSettlement
  <2>3. frozen' = TRUE
    BY <1>1, <2>1, <2>2, RequestKeepsFrozen, BeginQueriesFreezes
  <2> QED BY <1>3, <1>4, <2>3
<1>7. CASE ReceiveOrderRow
  <2>1. phase = "QueryingOrders"
    BY <1>7 DEF ReceiveOrderRow, Receives
  <2>2. \/ Fail(<<>>) \/ Stay(<<>>) \/ Request("QueryingTrades", <<>>)
    BY <1>7 DEF ReceiveOrderRow
  <2>3. frozen' = TRUE
    BY <1>1, <2>1, <2>2, FailFreezes, RequestKeepsFrozen, FaultsKeepFrozen
    DEF Stay
  <2> QED BY <1>3, <1>4, <2>3
<1>8. CASE ReceiveTradeRow
  <2>1. phase = "QueryingTrades"
    BY <1>8 DEF ReceiveTradeRow, Receives
  <2>2. \E reasons \in Seq(Reasons) :
           Fail(<<>>) \/ Stay(reasons) \/ Request("QueryingPositions", reasons)
    BY <1>1, <1>2, <1>8 DEF ReceiveTradeRow
  <2>3. frozen' = TRUE
    BY <1>1, <2>1, <2>2, FailFreezes, RequestKeepsFrozen, FaultsKeepFrozen
    DEF Stay
  <2> QED BY <1>3, <1>4, <2>3
<1>9. CASE ReceivePositionRow
  <2>1. phase = "QueryingPositions"
    BY <1>9 DEF ReceivePositionRow, Receives
  <2>2. Fail(<<>>) \/ Stay(<<>>) \/ Request("QueryingFunds", <<>>)
    BY <1>9 DEF ReceivePositionRow
  <2>3. frozen' = TRUE
    BY <1>1, <2>1, <2>2, FailFreezes, RequestKeepsFrozen, FaultsKeepFrozen
    DEF Stay
  <2> QED BY <1>3, <1>4, <2>3
<1>10. CASE ReceiveFunds
  BY <1>3, <1>4, <1>10 DEF ReceiveFunds
<1>11. CASE ReceiveFlawed
  BY <1>1, <1>3, <1>4, <1>11, FailFreezes DEF ReceiveFlawed
<1> QED
  BY <1>4, <1>5, <1>6, <1>7, <1>8, <1>9, <1>10, <1>11 DEF ReceiveAnswer

-----------------------------------------------------------------------------
(* The link *)

\* Connections, disconnections, overflows, requested queries and faults send no
\* order and leave the account frozen, or as it was in an unchanged phase.
LEMMA LinkStep ==
  ASSUME FrozenUntilReady,
         Connected \/ Disconnected \/ Overflow \/ RequestReconciliation
           \/ MarkFault
  PROVE  FrozenUntilReady' /\ NoNewOrder
<1> USE DEF FrozenUntilReady
<1>1. <<>> \in Seq(Reasons) /\ <<"CallbackQueueOverflow">> \in Seq(Reasons)
  BY EmptySeq, OneReason DEF Reasons
<1>2. CASE Connected
  <2>1. frozen' = TRUE
    BY <1>1, <1>2, NotSentFreezes DEF Connected
  <2>2. counter' = counter
    BY <1>2 DEF Connected, environment
  <2> QED BY <2>1, <2>2 DEF NoNewOrder, CounterOrder
<1>3. CASE Disconnected
  <2>1. frozen' = TRUE
    <3>1. SetFaults(<<"Disconnected">>) /\ <<"Disconnected">> # <<>>
      BY <1>3 DEF Disconnected
    <3> QED BY <3>1, FaultsKeepFrozen
  <2>2. PICK lost \in SUBSET {o \in Orders : counter[o].status = "Live"} :
          counter' = [o \in Orders |-> IF o \in lost THEN NoCounterOrder
                                       ELSE [counter[o] EXCEPT !.asked = FALSE]]
    BY <1>3 DEF Disconnected
  <2>3. counter' \in [Orders -> CounterOrder]
    BY <2>2 DEF CounterOrder, NoCounterOrder
  <2>4. NoNewOrder
    BY <2>2 DEF NoNewOrder, CounterOrder, NoCounterOrder
  <2> QED BY <2>1, <2>3, <2>4
<1>4. CASE Overflow
  <2>1. counter' = counter
    BY <1>4 DEF Overflow
  <2>2. frozen' = TRUE
    BY <1>1, <1>4, BeginQueriesFreezes, FailFreezes, FaultsKeepFrozen
    DEF Overflow, Stay
  <2> QED BY <2>1, <2>2 DEF NoNewOrder, CounterOrder
<1>5. CASE RequestReconciliation
  <2>1. frozen' = TRUE
    BY <1>1, <1>5, BeginQueriesFreezes DEF RequestReconciliation
  <2>2. counter' = counter
    BY <1>5 DEF RequestReconciliation, environment
  <2> QED BY <2>1, <2>2 DEF NoNewOrder, CounterOrder
<1>6. CASE MarkFault
  <2>1. counter' = counter /\ phase' = phase
    BY <1>6 DEF MarkFault, environment, recovery
  <2>2. SetFaults(<<"MarketQueueOverflow">>)
    BY <1>6 DEF MarkFault
  <2> QED BY <2>1, <2>2, FaultsKeepFrozen DEF NoNewOrder, CounterOrder
<1> QED BY <1>2, <1>3, <1>4, <1>5, <1>6

-----------------------------------------------------------------------------
(* The counter *)

\* The counter makes no order of its own.
LEMMA CounterMakesNoOrder ==
  ASSUME FrozenUntilReady, NEW o \in Orders, CounterStep(o)
  PROVE  /\ counter' \in [Orders -> CounterOrder] /\ NoNewOrder
         /\ frozen' = frozen
<1> USE DEF FrozenUntilReady, CounterOrder, NoNewOrder
<1>1. frozen' = frozen
  BY DEF CounterStep, CounterAccept, CounterReject, CounterFill, CounterCancel,
         CounterRefuse, account
<1>2. CASE CounterAccept(o)
  BY <1>1, <1>2 DEF CounterAccept
<1>3. CASE CounterReject(o)
  BY <1>1, <1>3 DEF CounterReject
<1>4. CASE CounterFill(o)
  <2>1. PICK cum \in (counter[o].filled + 1) .. Quantity(o) :
          \E status \in {"Filled", "Accepted"} :
            counter' = [counter EXCEPT ![o].filled = cum,
                                       ![o].status = status]
    BY <1>4 DEF CounterFill
  <2>2. cum \in Nat
    BY <2>1
  <2> QED BY <1>1, <2>1, <2>2
<1>5. CASE CounterCancel(o)
  BY <1>1, <1>5 DEF CounterCancel
<1>6. CASE CounterRefuse(o)
  BY <1>1, <1>6 DEF CounterRefuse
<1> QED BY <1>2, <1>3, <1>4, <1>5, <1>6 DEF CounterStep

-----------------------------------------------------------------------------
(* submit, cancel and on_market *)

\* An order is sent after the risk check only, which a frozen account fails.
LEMMA SendNeedsThaw ==
  ASSUME FrozenUntilReady, NEW intent, NEW code \in SubmitCodes(intent),
         SubmitOrder(intent, code)
  PROVE  /\ counter' \in [Orders -> CounterOrder]
         /\ NoNewOrder \/ phase = "Ready"
<1>1. code = "Submitted" => ~frozen
  BY DEF SubmitCodes, SendOutcomes, RiskAccepts
<1>2. counter' = IF code = "Submitted"
                 THEN [counter EXCEPT ![NextId].status = "Live"] ELSE counter
  BY DEF SubmitOrder
<1>3. CASE code = "Submitted"
  <2>1. phase = "Ready"
    BY <1>1, <1>3 DEF FrozenUntilReady
  <2> QED BY <1>2, <1>3, <2>1 DEF FrozenUntilReady, CounterOrder
<1>4. CASE code # "Submitted"
  BY <1>2, <1>4 DEF FrozenUntilReady, NoNewOrder, CounterOrder
<1> QED BY <1>3, <1>4

\* A cancel request makes no order.
LEMMA CancelMakesNoOrder ==
  ASSUME FrozenUntilReady, NEW o, NEW code, CancelOrder(o, code)
  PROVE  counter' \in [Orders -> CounterOrder] /\ NoNewOrder
<1> USE DEF FrozenUntilReady, CounterOrder, NoNewOrder
<1>1. counter' = counter
        \/ counter' = [counter EXCEPT ![o].asked = TRUE, ![o].asks = @ + 1]
  BY DEF CancelOrder
<1>2. CASE o \in Orders
  BY <1>1, <1>2
<1>3. CASE o \notin Orders
  <2>1. counter' = counter
    BY <1>1, <1>3
  <2> QED BY <2>1
<1> QED BY <1>2, <1>3

\* Whatever the account thread is called for beside its callbacks
LEMMA CallStep ==
  ASSUME FrozenUntilReady, Call
  PROVE  FrozenUntilReady' /\ (NoNewOrder \/ phase = "Ready")
<1> USE DEF FrozenUntilReady
<1>1. phase' = phase
  BY DEF Call, recovery
<1>2. CASE Submit
  <2>1. frozen' = frozen
    BY <1>2 DEF Submit
  <2> QED BY <1>1, <1>2, <2>1, SendNeedsThaw DEF Submit
<1>3. CASE Cancel
  <2>1. frozen' = frozen
    BY <1>3 DEF Cancel
  <2>2. \E o \in Orders : \E code : CancelOrder(o, code)
    BY <1>3 DEF Cancel
  <2> QED BY <1>1, <2>1, <2>2, CancelMakesNoOrder
<1>4. CASE OnMarket
  <2>1. ASSUME ExitImpossible \/ DropsExit
        PROVE  counter' = counter /\ frozen' \in BOOLEAN
               /\ (frozen = TRUE => frozen' = TRUE)
    BY <2>1, FaultsKeepFrozen DEF ExitImpossible, DropsExit, FrozenUntilReady, environment
  <2>2. ASSUME SubmitExit
        PROVE  /\ counter' \in [Orders -> CounterOrder]
               /\ NoNewOrder \/ phase = "Ready"
               /\ frozen' \in BOOLEAN /\ (frozen = TRUE => frozen' = TRUE)
    <3>1. PICK code \in SubmitCodes(ExitIntent) :
            /\ SubmitOrder(ExitIntent, code)
            /\ \E reasons : SetFaults(reasons)
      BY <2>2 DEF SubmitExit
    <3> QED BY <3>1, SendNeedsThaw, FaultsKeepFrozen
  <2>3. ASSUME AwaitExit \/ AwaitEntries
        PROVE  /\ counter' = counter
                  \/ \E o, code : CancelOrder(o, code)
               /\ frozen' \in BOOLEAN /\ (frozen = TRUE => frozen' = TRUE)
    BY <2>3, FaultsKeepFrozen DEF AwaitExit, AwaitEntries, environment
  <2>4. counter' = counter => counter' \in [Orders -> CounterOrder] /\ NoNewOrder
    BY DEF NoNewOrder, CounterOrder
  <2> QED
    BY <1>1, <1>4, <2>1, <2>2, <2>3, <2>4, DueExitKinds, CancelMakesNoOrder
    DEF OnMarket
<1> QED BY <1>2, <1>3, <1>4 DEF Call

\* A pushed report or trade
LEMMA PushedStep ==
  ASSUME FrozenUntilReady, ReceivePushedReport \/ ReceivePushedTrade
  PROVE  FrozenUntilReady' /\ NoNewOrder
<1>1. phase' = phase /\ counter' = counter
  BY DEF ReceivePushedReport, ReceivePushedTrade, ReceiveReport, ReceiveTrade,
         recovery
<1>2. \E reasons : SetFaults(reasons)
  BY DEF ReceivePushedReport, ReceivePushedTrade, ReceiveReport, ReceiveTrade
<1> QED
  BY <1>1, <1>2, FaultsKeepFrozen DEF FrozenUntilReady, NoNewOrder, CounterOrder

-----------------------------------------------------------------------------
(* The theorems *)

\* The account is created frozen, before its first phase
LEMMA InitFrozen == RecoveryInit => FrozenUntilReady
BY DEF RecoveryInit, NothingYet, FrozenUntilReady, CounterOrder, NoCounterOrder

\* Every step keeps the invariant, and sends an order in Ready only.
LEMMA StepFrozen ==
  ASSUME FrozenUntilReady, [RecoveryNext]_recoveryVars
  PROVE  FrozenUntilReady' /\ (NoNewOrder \/ phase = "Ready")
<1>1. CASE CounterActs
  <2>1. phase' = phase
    BY <1>1 DEF CounterActs, recovery
  <2>2. PICK o \in Orders : CounterStep(o)
    BY <1>1 DEF CounterActs
  <2> QED BY <2>1, <2>2, CounterMakesNoOrder DEF FrozenUntilReady
<1>2. CASE CounterAnswer
  BY <1>2 DEF CounterAnswer, account, FrozenUntilReady, NoNewOrder, CounterOrder
<1>3. CASE UNCHANGED recoveryVars
  BY <1>3 DEF recoveryVars, vars, recovery, FrozenUntilReady, NoNewOrder,
              CounterOrder
<1> QED
  BY <1>1, <1>2, <1>3, CallStep, PushedStep, AnswerStep, LinkStep
  DEF RecoveryNext

\* An account in any phase but Ready is frozen.
THEOREM AlwaysFrozenUntilReady == RecoverySpec => []FrozenUntilReady
BY InitFrozen, StepFrozen, PTL DEF RecoverySpec

\* No order reaches the counter before the recovery is complete.
THEOREM NoOrderBeforeReady == RecoverySpec => OrdersOnlyWhenReady
<1>1. FrozenUntilReady /\ [RecoveryNext]_recoveryVars
        => [\A o \in Orders :
              counter[o].status = "None" /\ counter'[o].status = "Live"
                => phase = "Ready"]_recoveryVars
  BY StepFrozen DEF NoNewOrder
<1> QED
  BY <1>1, AlwaysFrozenUntilReady, PTL DEF RecoverySpec, OrdersOnlyWhenReady

-----------------------------------------------------------------------------
(* A recovery does not wait in vain *)

\* What makes a recovery go on is under way: the answers and the trades the
\* counter repeats are sequences, and the end of the one the account waits for
\* is among the answers or still to come.
WaitsForAnswer(p, rows) ==
  \E i \in DOMAIN rows : rows[i].phase = p /\ rows[i].current /\ rows[i].last

AnswerInv ==
  /\ \E R : answers \in Seq(R)
  /\ \E R : executed \in Seq(R)
  /\ phase \in Asking => asked = phase \/ WaitsForAnswer(phase, answers)

\* The orders the counter knows are a sequence.
LEMMA KnownOrdersSeq == \E R : KnownOrders \in Seq(R)
<1> DEFINE known == {o \in Orders : counter[o].status # "None"}
           nth(i) == CHOOSE o \in known : Cardinality({p \in known : p <= o}) = i
           n == Cardinality(known)
<1>1. IsFiniteSet(Orders)
  <2>1. RecordCapacity \in Nat /\ Orders = 1 .. RecordCapacity
    BY SessionAssumption
  <2>2. IsFiniteSet(1 .. RecordCapacity)
    BY <2>1, FS_Interval
  <2> QED BY <2>1, <2>2
<1>2. n \in Nat
  <2>1. IsFiniteSet(known)
    BY <1>1, FS_Subset
  <2> QED BY <2>1, FS_CardinalityType
<1>3. KnownOrders = [i \in 1 .. n |-> nth(i)]
  BY DEF KnownOrders
<1> HIDE DEF nth, n
<1>4. KnownOrders \in Seq({nth(i) : i \in 1 .. n})
  BY <1>2, <1>3
<1> QED BY <1>4

\* So is what the counter answers any request with.
LEMMA PayloadsSeq ==
  ASSUME AnswerInv, NEW p, NEW payloads \in Payloads(p)
  PROVE  \E R : payloads \in Seq(R)
<1>1. CASE p = "QueryingOrders"
  <2>1. PICK R : KnownOrders \in Seq(R)
    BY KnownOrdersSeq
  <2>2. payloads = [i \in DOMAIN KnownOrders |-> StatusReport(KnownOrders[i])]
    BY <1>1 DEF Payloads
  <2>3. /\ DOMAIN KnownOrders = 1 .. Len(KnownOrders) /\ Len(KnownOrders) \in Nat
    BY <2>1
  <2>4. payloads \in Seq({StatusReport(KnownOrders[i]) : i \in DOMAIN KnownOrders})
    BY <2>2, <2>3
  <2> QED BY <2>4
<1>2. CASE p = "QueryingTrades"
  <2>1. payloads = executed
    BY <1>2 DEF Payloads
  <2> QED BY <2>1 DEF AnswerInv
<1>3. CASE p = "QueryingPositions"
  <2> DEFINE long == [side |-> "long", quantity |-> OpenLots("Buy")]
             short == [side |-> "short", quantity |-> OpenLots("Sell")]
  <2>1. payloads = SideRows
    BY <1>3 DEF Payloads
  <2>2. SideRows = If(OpenLots("Buy") > 0, long) \o If(OpenLots("Sell") > 0, short)
    BY DEF SideRows
  <2> HIDE DEF long, short
  <2>3. \A b : If(b, long) \in Seq({long, short}) /\ If(b, short) \in Seq({long, short})
    <3>1. /\ <<long>> \in Seq({long, short}) /\ <<short>> \in Seq({long, short})
          /\ <<>> \in Seq({long, short})
      OBVIOUS
    <3> QED BY <3>1 DEF If
  <2>4. SideRows \in Seq({long, short})
    BY <2>2, <2>3, ConcatProperties
  <2> QED BY <2>1, <2>4
<1>4. CASE p \notin {"QueryingOrders", "QueryingTrades", "QueryingPositions"}
  <2>1. payloads \in {<<>>, <<FALSE>>, <<TRUE>>}
    BY <1>4 DEF Payloads
  <2>2. <<>> \in Seq(BOOLEAN) /\ <<FALSE>> \in Seq(BOOLEAN) /\ <<TRUE>> \in Seq(BOOLEAN)
    OBVIOUS
  <2>3. payloads \in Seq(BOOLEAN)
    BY <2>1, <2>2
  <2> QED BY <2>3
<1> QED BY <1>1, <1>2, <1>3, <1>4

\* An answer ends: its last row says so.
LEMMA AnswerEnds ==
  ASSUME NEW p, NEW R, NEW payloads \in Seq(R)
  PROVE  /\ \E S : RowsOf(p, payloads) \in Seq(S)
         /\ WaitsForAnswer(p, RowsOf(p, payloads))
<1> DEFINE rows == RowsOf(p, payloads)
<1>1. CASE payloads = <<>>
  <2>1. rows = <<Row(p, <<>>, TRUE)>>
    BY <1>1 DEF RowsOf
  <2>2. rows \in Seq({Row(p, <<>>, TRUE)}) /\ 1 \in DOMAIN rows
        /\ rows[1] = Row(p, <<>>, TRUE)
    BY <2>1
  <2>3. Row(p, <<>>, TRUE).phase = p /\ Row(p, <<>>, TRUE).current
        /\ Row(p, <<>>, TRUE).last
    BY DEF Row
  <2> QED BY <2>2, <2>3 DEF WaitsForAnswer
<1>2. CASE payloads # <<>>
  <2> DEFINE row(i) == Row(p, <<payloads[i]>>, i = Len(payloads))
             n == Len(payloads)
  <2>1. n \in Nat \ {0} /\ DOMAIN payloads = 1 .. n
    BY <1>2
  <2>2. rows = [i \in 1 .. n |-> row(i)]
    BY <1>2, <2>1 DEF RowsOf
  <2>3. row(n).phase = p /\ row(n).current /\ row(n).last
    BY DEF Row
  <2> HIDE DEF row, n, rows
  <2>4. rows \in Seq({row(i) : i \in 1 .. n})
    BY <2>1, <2>2
  <2>5. n \in DOMAIN rows /\ rows[n] = row(n)
    BY <2>1, <2>2
  <2> QED BY <2>3, <2>4, <2>5 DEF WaitsForAnswer, rows
<1> QED BY <1>1, <1>2

\* Answers that follow one another, and answers that have become outdated, are
\* sequences too.
LEMMA JoinSeq ==
  ASSUME NEW R, NEW S, NEW s \in Seq(R), NEW t \in Seq(S)
  PROVE  s \o t \in Seq(R \cup S)
<1>1. s \in Seq(R \cup S) /\ t \in Seq(R \cup S)
  OBVIOUS
<1> QED BY <1>1, ConcatProperties

LEMMA OutdatedSeq ==
  ASSUME NEW R, NEW rows \in Seq(R)
  PROVE  \E S : Outdated(rows) \in Seq(S)
<1> DEFINE old(i) == [rows[i] EXCEPT !.current = FALSE]
<1>1. Outdated(rows) = [i \in 1 .. Len(rows) |-> old(i)] /\ Len(rows) \in Nat
  BY DEF Outdated
<1> HIDE DEF old
<1>2. Outdated(rows) \in Seq({old(i) : i \in 1 .. Len(rows)})
  BY <1>1
<1> QED BY <1>2

\* The end that is waited for stays when rows come after it, and when a row
\* that is no end is taken before it.
LEMMA EndStays ==
  ASSUME NEW p, NEW R, NEW S, NEW s \in Seq(R), NEW t \in Seq(S),
         WaitsForAnswer(p, s) \/ WaitsForAnswer(p, t)
  PROVE  WaitsForAnswer(p, s \o t)
<1>1. /\ Len(s \o t) = Len(s) + Len(t) /\ DOMAIN (s \o t) = 1 .. Len(s) + Len(t)
      /\ \A i \in 1 .. Len(s) : (s \o t)[i] = s[i]
      /\ \A j \in 1 .. Len(t) : (s \o t)[Len(s) + j] = t[j]
      /\ Len(s) \in Nat /\ Len(t) \in Nat
  <2>1. s \in Seq(R \cup S) /\ t \in Seq(R \cup S)
    OBVIOUS
  <2> QED BY <2>1, ConcatProperties
<1>2. CASE WaitsForAnswer(p, s)
  <2>1. PICK i \in 1 .. Len(s) : s[i].phase = p /\ s[i].current /\ s[i].last
    BY <1>2 DEF WaitsForAnswer
  <2>2. i \in DOMAIN (s \o t) /\ (s \o t)[i] = s[i]
    BY <1>1, <2>1
  <2> QED BY <2>1, <2>2 DEF WaitsForAnswer
<1>3. CASE WaitsForAnswer(p, t)
  <2>1. PICK j \in 1 .. Len(t) : t[j].phase = p /\ t[j].current /\ t[j].last
    BY <1>3 DEF WaitsForAnswer
  <2>2. Len(s) + j \in DOMAIN (s \o t) /\ (s \o t)[Len(s) + j] = t[j]
    BY <1>1, <2>1
  <2> QED BY <2>1, <2>2 DEF WaitsForAnswer
<1> QED BY <1>2, <1>3

LEMMA EndBehindHead ==
  ASSUME NEW p, NEW R, NEW s \in Seq(R), s # <<>>, ~Head(s).last,
         WaitsForAnswer(p, s)
  PROVE  WaitsForAnswer(p, Tail(s))
<1>1. PICK i \in DOMAIN s : s[i].phase = p /\ s[i].current /\ s[i].last
  BY DEF WaitsForAnswer
<1>2. i \in 1 .. Len(s) /\ i # 1 /\ Len(s) \in Nat
  BY <1>1
<1>3. /\ Len(Tail(s)) = Len(s) - 1 /\ DOMAIN Tail(s) = 1 .. Len(s) - 1
      /\ \A j \in 1 .. Len(s) - 1 : Tail(s)[j] = s[j + 1]
  BY HeadTailProperties
<1>4. i - 1 \in DOMAIN Tail(s) /\ Tail(s)[i - 1] = s[i]
  BY <1>2, <1>3
<1> QED BY <1>1, <1>4 DEF WaitsForAnswer

\* The counter answers the request, so its answer is on the way.
LEMMA AnswerGiven ==
  ASSUME AnswerInv, CounterAnswer PROVE AnswerInv'
<1>1. phase' = phase /\ executed' = executed
  BY DEF CounterAnswer
<1>2. PICK R : answers \in Seq(R)
  BY DEF AnswerInv
<1>3. PICK S, more :
        /\ more \in Seq(S)
        /\ answers' = answers \o more /\ WaitsForAnswer(asked, more)
  <2>1. CASE \E payloads \in Payloads(asked) :
               answers' = answers \o RowsOf(asked, payloads)
    BY <2>1, PayloadsSeq, AnswerEnds
  <2>2. CASE answers' = Append(answers, Flawed(asked))
    <3> DEFINE more == <<Flawed(asked)>>
    <3>1. more \in Seq({Flawed(asked)}) /\ 1 \in DOMAIN more
          /\ more[1] = Flawed(asked)
      OBVIOUS
    <3>2. Flawed(asked).phase = asked /\ Flawed(asked).current
          /\ Flawed(asked).last
      BY DEF Flawed, Row
    <3>3. answers' = answers \o more
      BY <1>2, <2>2
    <3>4. WaitsForAnswer(asked, more)
      BY <3>1, <3>2 DEF WaitsForAnswer
    <3> QED BY <3>1, <3>3, <3>4
  <2> QED BY <2>1, <2>2 DEF CounterAnswer
<1>4. answers' \in Seq(R \cup S)
  BY <1>2, <1>3, JoinSeq
<1>5. ASSUME phase \in Asking PROVE WaitsForAnswer(phase, answers')
  <2>1. WaitsForAnswer(phase, answers) \/ WaitsForAnswer(phase, more)
    BY <1>3, <1>5 DEF AnswerInv
  <2> QED BY <1>2, <1>3, <2>1, EndStays
<1>6. WaitsForAnswer(phase, answers)' = WaitsForAnswer(phase, answers')
  BY <1>1 DEF WaitsForAnswer
<1> QED BY <1>1, <1>4, <1>5, <1>6 DEF AnswerInv

\* A handler that leaves an asking phase asks anew or asks nothing; one that
\* stays has taken a row that is no end.
LEMMA AnswerTaken ==
  ASSUME AnswerInv, ReceiveAnswer PROVE AnswerInv'
<1>1. executed' = executed
  BY DEF ReceiveAnswer, ReceiveLogin, ReceiveSettlement, ReceiveOrderRow,
         ReceiveTradeRow, ReceivePositionRow, ReceiveFunds, ReceiveFlawed, world
<1>2. PICK R : answers \in Seq(R)
  BY DEF AnswerInv
<1>3. answers # <<>> /\ Consume
  BY DEF ReceiveAnswer, ReceiveLogin, ReceiveSettlement, ReceiveOrderRow,
         ReceiveTradeRow, ReceivePositionRow, ReceiveFunds, ReceiveFlawed,
         Receives
<1>4. Tail(answers) \in Seq(R)
  BY <1>2, <1>3
<1>5. \E S : answers' \in Seq(S)
  BY <1>3, <1>4, OutdatedSeq DEF Consume
<1>6. \/ phase' \in Asking => asked' = phase'
      \/ phase' = phase /\ asked' = asked /\ phase \in Querying
         /\ ~Head(answers).last
  <2>1. ASSUME NEW p, NEW reasons, Request(p, reasons)
        PROVE  phase' \in Asking => asked' = phase'
    BY <2>1 DEF Request, Sent, NotSent, Asking, Querying
  <2>2. ASSUME BeginQueries(<<>>)
        PROVE  phase' \in Asking => asked' = phase'
    BY <2>2 DEF BeginQueries, Sent, NotSent, Asking, Querying
  <2>3. ASSUME Fail(<<>>) PROVE phase' \notin Asking
    BY <2>3 DEF Fail, Asking, Querying
  <2>4. CASE ReceiveLogin
    BY <2>1, <2>2, <2>4 DEF ReceiveLogin
  <2>5. CASE ReceiveSettlement
    BY <2>1, <2>2, <2>5 DEF ReceiveSettlement
  <2>6. CASE ReceiveOrderRow
    <3>1. \/ Fail(<<>>) \/ Request("QueryingTrades", <<>>)
          \/ ~Ends(Head(answers)) /\ Stay(<<>>)
      BY <2>6 DEF ReceiveOrderRow
    <3>2. phase \in Querying
      BY <2>6 DEF ReceiveOrderRow, Receives, Querying
    <3> QED BY <2>1, <2>3, <3>1, <3>2 DEF Stay, Ends
  <2>7. CASE ReceiveTradeRow
    <3>1. \E reasons :
            \/ Fail(<<>>) \/ Request("QueryingPositions", reasons)
            \/ ~Ends(Head(answers)) /\ Stay(reasons)
      BY <2>7 DEF ReceiveTradeRow
    <3>2. phase \in Querying
      BY <2>7 DEF ReceiveTradeRow, Receives, Querying
    <3> QED BY <2>1, <2>3, <3>1, <3>2 DEF Stay, Ends
  <2>8. CASE ReceivePositionRow
    <3>1. \/ Fail(<<>>) \/ Request("QueryingFunds", <<>>)
          \/ ~Ends(Head(answers)) /\ Stay(<<>>)
      BY <2>8 DEF ReceivePositionRow
    <3>2. phase \in Querying
      BY <2>8 DEF ReceivePositionRow, Receives, Querying
    <3> QED BY <2>1, <2>3, <3>1, <3>2 DEF Stay, Ends
  <2>9. CASE ReceiveFunds
    BY <2>9 DEF ReceiveFunds, Asking, Querying
  <2>10. CASE ReceiveFlawed
    BY <2>3, <2>10 DEF ReceiveFlawed
  <2> QED
    BY <2>4, <2>5, <2>6, <2>7, <2>8, <2>9, <2>10 DEF ReceiveAnswer
<1>7. CASE phase' = phase /\ asked' = asked /\ phase \in Querying
           /\ ~Head(answers).last
  <2>1. answers' = Tail(answers)
    BY <1>3, <1>7 DEF Consume
  <2>2. asked = phase \/ WaitsForAnswer(phase, Tail(answers))
    BY <1>2, <1>3, <1>7, EndBehindHead DEF AnswerInv, Asking
  <2>3. WaitsForAnswer(phase, answers)' = WaitsForAnswer(phase, Tail(answers))
    BY <1>7, <2>1 DEF WaitsForAnswer
  <2> QED BY <1>1, <1>5, <1>7, <2>2, <2>3 DEF AnswerInv
<1>8. CASE phase' \in Asking => asked' = phase'
  BY <1>1, <1>5, <1>8 DEF AnswerInv
<1> QED BY <1>6, <1>7, <1>8

\* What happens to the link ends the wait or starts it anew.
LEMMA AnswerOverLink ==
  ASSUME AnswerInv, Connected \/ Disconnected \/ Overflow \/ RequestReconciliation
  PROVE  AnswerInv'
<1>1. executed' = executed
  BY DEF Connected, Disconnected, Overflow, RequestReconciliation, world
<1>2. PICK R : answers \in Seq(R)
  BY DEF AnswerInv
<1>3. \E S : answers' \in Seq(S)
  <2>1. CASE answers' \in {<<>>, answers}
    <3>1. <<>> \in Seq(R)
      OBVIOUS
    <3> QED BY <1>2, <2>1, <3>1
  <2>2. CASE answers' = Outdated(answers)
    BY <1>2, <2>2, OutdatedSeq
  <2>3. CASE answers # <<>> /\ answers' = Front(answers)
    <3>1. Len(answers) - 1 \in Nat
      BY <1>2, <2>3
    <3>2. answers' \in Seq(R)
      BY <1>2, <2>3, <3>1 DEF Front
    <3> QED BY <3>2
  <2> QED
    BY <2>1, <2>2, <2>3
    DEF Connected, Disconnected, Overflow, RequestReconciliation
<1>4. phase' \in Asking => asked' = phase'
  <2>1. ASSUME NEW reasons, BeginQueries(reasons)
        PROVE  phase' \in Asking => asked' = phase'
    BY <2>1 DEF BeginQueries, Sent, NotSent, Asking, Querying
  <2>2. CASE Connected
    BY <2>2 DEF Connected, Sent, NotSent, Asking, Querying
  <2>3. CASE Disconnected
    BY <2>3 DEF Disconnected, Asking, Querying
  <2>4. CASE Overflow
    BY <2>1, <2>4 DEF Overflow, Fail, Stay, Asking, Querying
  <2>5. CASE RequestReconciliation
    BY <2>1, <2>5 DEF RequestReconciliation
  <2> QED BY <2>2, <2>3, <2>4, <2>5
<1> QED BY <1>1, <1>3, <1>4 DEF AnswerInv

\* Nothing else touches the wait; the counter may add to the trades it repeats.
LEMMA AnswerUntouched ==
  ASSUME AnswerInv,
         \/ Call \/ ReceivePushedReport \/ ReceivePushedTrade \/ MarkFault
         \/ CounterActs \/ UNCHANGED recoveryVars
  PROVE  AnswerInv'
<1>1. phase' = phase /\ asked' = asked /\ answers' = answers
  BY DEF Call, ReceivePushedReport, ReceivePushedTrade, MarkFault, CounterActs,
         recoveryVars, recovery
<1>2. executed' = executed \/ \E t : executed' = Append(executed, t)
  BY DEF Call, ReceivePushedReport, ReceivePushedTrade, MarkFault, CounterActs,
         recoveryVars, world
<1>3. \E S : executed' \in Seq(S)
  <2>1. PICK R : executed \in Seq(R)
    BY DEF AnswerInv
  <2>2. ASSUME NEW t, executed' = Append(executed, t)
        PROVE  executed' \in Seq(R \cup {t})
    BY <2>1, <2>2
  <2> QED BY <1>2, <2>1, <2>2
<1>4. WaitsForAnswer(phase, answers)' = WaitsForAnswer(phase, answers)
  BY <1>1 DEF WaitsForAnswer
<1> QED BY <1>1, <1>3, <1>4 DEF AnswerInv

\* What a recovery waits for is always under way.
LEMMA AlwaysAnswerInv == RecoverySpec => []AnswerInv
<1>1. RecoveryInit => AnswerInv
  <2>1. <<>> \in Seq({})
    OBVIOUS
  <2> QED BY <2>1 DEF RecoveryInit, AnswerInv, Asking, Querying
<1>2. AnswerInv /\ [RecoveryNext]_recoveryVars => AnswerInv'
  BY AnswerGiven, AnswerTaken, AnswerOverLink, AnswerUntouched DEF RecoveryNext
<1> QED BY <1>1, <1>2, PTL DEF RecoverySpec

\* A recovery that asks has its request at the counter, or the end of the answer
\* on its way: it never waits in vain.
THEOREM RecoveryWaitsForAnAnswer == RecoverySpec => []AnswerOnTheWay
<1>1. AnswerInv => AnswerOnTheWay
  <2>1. ASSUME WaitsForAnswer(phase, answers)
        PROVE  \E m \in Range(answers) : Expected(m) /\ m.last
    BY <2>1 DEF WaitsForAnswer, Range, Expected
  <2> QED BY <2>1 DEF AnswerInv, AnswerOnTheWay
<1> QED BY <1>1, AlwaysAnswerInv, PTL

-----------------------------------------------------------------------------
(* The worker and its account *)

\* A callback that is judged is first of all one that is received.
LEMMA JudgedCallback ==
  ASSUME HearReport \/ HearTrade \/ Answer
  PROVE  ReceivePushedReport \/ ReceivePushedTrade \/ CounterAnswer
BY DEF HearReport, HearTrade, Answer

\* What poll_once shows the session of the market are calls of the session.
LEMMA JudgedMarket ==
  ASSUME TakeSignal \/ TakeMarket \/ MarketOverflow
  PROVE  Call \/ MarkFault
BY DEF TakeSignal, TakeMarket, MarketOverflow, Call

\* update_acceptance leaves the account alone, but for the final query.
LEMMA JudgedVerdict ==
  ASSUME FindFault \/ AskForTheEnd \/ Conclude
  PROVE  RequestReconciliation \/ UNCHANGED recoveryVars
BY DEF FindFault, AskForTheEnd, Conclude

\* Every step of the worker is one of the account, or leaves it as it is.
LEMMA StepOfTheAccount ==
  ASSUME [AcceptanceNext]_acceptanceVars
  PROVE  [RecoveryNext]_recoveryVars
<1>1. CASE ~accepting /\ RecoveryNext
  BY <1>1
<1>2. CASE Judged /\ UNCHANGED plan
  <2>1. CASE HearReport \/ HearTrade \/ Answer
    BY <1>2, <2>1, JudgedCallback DEF RecoveryNext
  <2>2. CASE TakeSignal \/ TakeMarket \/ MarketOverflow
    BY <1>2, <2>2, JudgedMarket DEF RecoveryNext
  <2>3. CASE FindFault \/ AskForTheEnd \/ Conclude
    BY <1>2, <2>3, JudgedVerdict DEF RecoveryNext
  <2>4. CASE ReceiveAnswer \/ Connected \/ Disconnected \/ Overflow \/ CounterActs
    BY <1>2, <2>4 DEF RecoveryNext
  <2> QED BY <1>2, <2>1, <2>2, <2>3, <2>4 DEF Judged
<1>3. CASE UNCHANGED acceptanceVars
  BY <1>3 DEF acceptanceVars
<1> QED BY <1>1, <1>2, <1>3 DEF AcceptanceNext

\* The account under --acceptance is an account of Recovery.
THEOREM AcceptanceImplementsRecovery == AcceptanceSpec => RecoverySpec
<1>1. AcceptanceInit => RecoveryInit
  BY DEF AcceptanceInit
<1>2. [AcceptanceNext]_acceptanceVars => [RecoveryNext]_recoveryVars
  BY StepOfTheAccount
<1> QED BY <1>1, <1>2, PTL DEF AcceptanceSpec, RecoverySpec

\* So it sends no order before its recovery is complete.
THEOREM AcceptedOnlyWhenReady == AcceptanceSpec => OrdersOnlyWhenReady
BY AcceptanceImplementsRecovery, NoOrderBeforeReady

\* And its recovery never waits in vain.
THEOREM AcceptedRecoveryWaitsForAnAnswer == AcceptanceSpec => []AnswerOnTheWay
BY AcceptanceImplementsRecovery, RecoveryWaitsForAnAnswer

-----------------------------------------------------------------------------
(* The verdict *)

\* acceptance_status as the main thread reads it between two looks: it waits
\* until no account is Pending, and reads the verdicts again when the workers
\* have ended.
VerdictStands ==
  [][/\ verdict = "Fail" => verdict' = "Fail"
     /\ verdict = "Pass" => verdict' \in {"Pass", "Fail"}]_verdict

\* No verdict is taken back, and a failed account does not pass later.
THEOREM NoVerdictTakenBack == AcceptanceSpec => VerdictStands
<1>1. ASSUME [AcceptanceNext]_acceptanceVars
      PROVE  [/\ verdict = "Fail" => verdict' = "Fail"
              /\ verdict = "Pass" => verdict' \in {"Pass", "Fail"}]_verdict
  <2>1. CASE FindFault \/ MarketOverflow
    BY <2>1 DEF FindFault, MarketOverflow
  <2>2. CASE AskForTheEnd \/ Conclude
    BY <2>2 DEF AskForTheEnd, Conclude
  <2>3. CASE TakeSignal
    BY <2>3 DEF TakeSignal
  <2>4. CASE verdict' = verdict
    BY <2>4
  <2>5. \/ FindFault \/ MarketOverflow \/ AskForTheEnd \/ Conclude \/ TakeSignal
        \/ verdict' = verdict
    BY <1>1 DEF AcceptanceNext, Judged, TakeMarket, HearReport, HearTrade, Answer,
                judging, acceptanceVars
  <2> QED BY <2>1, <2>2, <2>3, <2>4, <2>5
<1> QED BY <1>1, PTL DEF AcceptanceSpec, VerdictStands

-----------------------------------------------------------------------------
(* What calls tell the book *)

\* A call of the account tells the book of no fill and of no end: it keeps every
\* order, and enters at most one.
LEMMA CallTells ==
  ASSUME AccountInv, Thawed, OrdersInv, Call, UNCHANGED plan
  PROVE  /\ book'.trades = book.trades /\ book'.positions = book.positions
         /\ \A o \in Orders : KeptOrder(o) \/ EnteredOrder(o)
         /\ UNCHANGED <<reports, trades>> /\ (frozen => frozen')
<1>1. AccountInv /\ Thawed /\ [Next]_vars
  BY DEF Call, Next
<1>2. frozen => frozen'
  BY <1>1, StepKinds
<1>3. UNCHANGED <<reports, trades>>
  BY DueExitKinds
  DEF Call, Submit, Cancel, OnMarket, ExitImpossible, DropsExit, SubmitExit,
      AwaitExit, AwaitEntries, SubmitOrder, CancelOrder, environment
<1>4. ASSUME NEW intent \in Intent, NEW code \in SubmitCodes(intent),
             SubmitOrder(intent, code)
      PROVE  /\ book'.trades = book.trades /\ book'.positions = book.positions
             /\ \A o \in Orders : KeptOrder(o) \/ EnteredOrder(o)
  BY <1>4, SubmitTells
<1>5. CASE Submit \/ SubmitExit
  <2>1. \E intent \in Intent : \E code \in SubmitCodes(intent) : SubmitOrder(intent, code)
    BY <1>5, IntentsOfCalls DEF Submit, SubmitExit
  <2> QED BY <1>2, <1>3, <1>4, <2>1
<1>6. CASE /\ Cancel \/ ExitImpossible \/ AwaitExit \/ AwaitEntries
           /\ ~SubmitExit /\ ~DropsExit
  <2>1. CancelsOrder \/ Waits
    <3>1. CASE Cancel
      <4>1. \E o \in Orders : \E code : records' = CancelRecord(records, o, code)
        BY <3>1 DEF Cancel
      <4>2. SameIntents
        BY <4>1, MarksOnly DEF AccountInv, SessionTypes
      <4> QED BY <3>1, <4>2 DEF Cancel, CancelsOrder, SameExit
    <3>2. CASE ExitImpossible \/ AwaitExit \/ AwaitEntries
      <4>1. (DropsExit \/ SubmitExit \/ CancelsOrder \/ Waits) /\ OnMarket
        BY <3>2, MarketKinds DEF OnMarket
      <4> QED BY <1>6, <4>1
    <3> QED BY <1>6, <3>1, <3>2
  <2>2. SameIntents /\ \A o \in Orders : records'[o].activeOpen = records[o].activeOpen
    BY <1>6, <2>1, CallKeepsSlots DEF CancelsOrder, Waits
  <2>3. CASE CancelsOrder
    <3>1. PICK o \in Orders : \E code : CancelOrder(o, code)
      BY <2>3 DEF CancelsOrder
    <3>2. /\ book'.trades = book.trades /\ book'.positions = book.positions
          /\ \A p \in Orders :
               /\ SameCounts(book.orders[p], book'.orders[p])
               /\ State(p)' = State(p) \/ {State(p), State(p)'} \subseteq Working
               /\ Status(p)' = Status(p) /\ counter'[p].filled = counter[p].filled
      BY <3>1, CancelTells
    <3>3. \A p \in Orders : KeptOrder(p)
      BY <2>2, <3>2 DEF KeptOrder, SameIntents
    <3> QED BY <1>2, <1>3, <3>2, <3>3
  <2>4. CASE Waits
    <3>1. \A p \in Orders : KeptOrder(p)
      BY <2>2, <2>4 DEF KeptOrder, SameIntents, Waits, SameCounts, State, Status
    <3> QED BY <1>2, <1>3, <2>4, <3>1 DEF Waits
  <2> QED BY <2>1, <2>3, <2>4
<1>7. CASE DropsExit
  <2>1. \A p \in Orders : KeptOrder(p)
    BY <1>7 DEF DropsExit, environment, KeptOrder, SameIntents, SameCounts, State, Status
  <2> QED BY <1>2, <1>3, <1>7, <2>1 DEF DropsExit, environment
<1> QED BY <1>5, <1>6, <1>7, DueExitKinds DEF Call, OnMarket

-----------------------------------------------------------------------------
(* Lots, order by order *)

\* The intents of all orders.
Intents == [o \in Orders |-> records[o].intent]

\* What the orders with these intents come to, in lots of one direction, when
\* known[o] lots of each have been filled
Amounts(intents, direction, known) ==
  [o \in Orders |-> Term(intents[o], direction, known[o])]
\* What they come to on one side, each order taken with the lots known of it.
Amount(intents, direction, known) ==
  SumFunctionOnSet(Amounts(intents, direction, known), Orders)

\* By the fills that the book accounts for
Booked(direction) == Amount(Intents, direction, Known)
\* By the fills at the counter
AtMarket(direction) == Amount(Intents, direction, Filled)

\* The positions the book holds are what its fills come to.
HeldIsBooked == Held.long = Booked("Buy") /\ Held.short = Booked("Sell")

\* The terms are numbers, and so is their sum.
LEMMA AmountType ==
  ASSUME NEW intents, NEW direction, NEW known, \A o \in Orders : known[o] \in Int
  PROVE  /\ \A o \in Orders : Amounts(intents, direction, known)[o] \in Int
         /\ Amount(intents, direction, known) \in Int
<1>1. \A o \in Orders : Amounts(intents, direction, known)[o] \in Int
  BY TermValues DEF Amounts
<1> QED BY <1>1, SumTerm, OrdersCounted DEF Amount

\* Orders without fills add nothing, whatever they are for.
LEMMA AmountSame ==
  ASSUME NEW intents, NEW later, NEW direction, NEW known, NEW more,
         \A o \in Orders : known[o] \in Int,
         \A o \in Orders : /\ more[o] = known[o]
                           /\ later[o] = intents[o] \/ known[o] = 0
  PROVE  Amount(later, direction, more) = Amount(intents, direction, known)
<1>1. ASSUME NEW o \in Orders
      PROVE  Amounts(later, direction, more)[o] = Amounts(intents, direction, known)[o]
  <2>1. known[o] = 0 => Term(intents[o], direction, 0) = 0 /\ Term(later[o], direction, 0) = 0
    BY TermValues
  <2> QED BY <2>1 DEF Amounts
<1>2. Amounts(later, direction, more) = Amounts(intents, direction, known)
  BY <1>1 DEF Amounts
<1> QED BY <1>2 DEF Amount

\* More fills of one order add their term.
LEMMA AmountMore ==
  ASSUME NEW intents, NEW later, NEW direction, NEW known, NEW more,
         NEW id \in Orders, NEW n \in Int,
         \A o \in Orders : known[o] \in Int /\ later[o] = intents[o],
         \A o \in Orders \ {id} : more[o] = known[o], more[id] = known[id] + n
  PROVE  Amount(later, direction, more)
           = Amount(intents, direction, known) + Term(intents[id], direction, n)
<1>1. PICK w : w = Amounts(intents, direction, known)
  OBVIOUS
<1>2. PICK v : v = Amounts(later, direction, more)
  OBVIOUS
<1>3. more[id] \in Int
  OBVIOUS
<1>4. \A o \in Orders : more[o] \in Int
  BY <1>3
<1>5. \A o \in Orders : w[o] \in Int /\ v[o] \in Int
  BY <1>1, <1>2, <1>4, AmountType
<1>6. \A o \in Orders \ {id} : v[o] = w[o]
  BY <1>1, <1>2 DEF Amounts
<1>7. v[id] = w[id] + Term(intents[id], direction, n) /\ Term(intents[id], direction, n) \in Int
  <2>1. w[id] = Term(intents[id], direction, known[id])
    BY <1>1 DEF Amounts
  <2>2. v[id] = Term(intents[id], direction, known[id] + n)
    BY <1>2 DEF Amounts
  <2>3. Term(intents[id], direction, n) \in Int
    BY TermValues
  <2>4. known[id] \in Int
    OBVIOUS
  <2>5. Term(intents[id], direction, known[id] + n)
          = Term(intents[id], direction, known[id]) + Term(intents[id], direction, n)
    BY <2>4, TermAdds
  <2> QED BY <2>1, <2>2, <2>3, <2>5
<1>8. SumFunctionOnSet(v, Orders) = SumFunctionOnSet(w, Orders) + v[id] - w[id]
  <2>1. IsFiniteSet(Orders) /\ id \in Orders
    BY OrdersCounted
  <2>2. /\ \A y \in Orders : w[y] \in Int /\ v[y] \in Int
        /\ \A y \in Orders \ {id} : v[y] = w[y]
    BY <1>5, <1>6
  <2>3. IsFiniteSet(Orders \ {id})
    BY <2>1, FS_Subset
  <2>4. SumFunctionOnSet(v, Orders \ {id}) = SumFunctionOnSet(w, Orders \ {id})
    BY <2>2, <2>3, SumEqual
  <2>5. /\ SumFunctionOnSet(v, Orders) = v[id] + SumFunctionOnSet(v, Orders \ {id})
        /\ SumFunctionOnSet(v, Orders \ {id}) \in Int
    BY <2>1, <2>2, SumTerm
  <2>6. SumFunctionOnSet(w, Orders) = w[id] + SumFunctionOnSet(w, Orders \ {id})
    BY <2>1, <2>2, SumTerm
  <2>7. v[id] \in Int /\ w[id] \in Int
    BY <2>1, <2>2
  <2> QED BY <2>4, <2>5, <2>6, <2>7
<1>9. SumFunctionOnSet(w, Orders) \in Int
  BY <1>5, OrdersCounted, SumTerm
<1>10. SumFunctionOnSet(v, Orders)
         = SumFunctionOnSet(w, Orders) + Term(intents[id], direction, n)
  BY <1>5, <1>7, <1>8, <1>9
<1> QED BY <1>1, <1>2, <1>10 DEF Amount

\* What the counter has open is what its orders come to.
LEMMA OpenLotsIsAmount ==
  ASSUME AccountInv, \A o \in Orders \ Records : counter[o].filled = 0, NEW direction
  PROVE  OpenLots(direction) = AtMarket(direction)
<1>1. PICK v : v = Amounts(Intents, direction, Filled)
  OBVIOUS
<1>2. \A o \in Orders : Filled[o] \in Int
  BY KnownTypes
<1>3. /\ \A o \in Orders : v[o] \in Int
      /\ \A o \in Orders : v[o] = Term(records[o].intent, direction, counter[o].filled)
  BY <1>1, <1>2, AmountType DEF Amounts, Intents, Filled
<1>4. \A o \in Orders \ Records : v[o] = 0
  BY <1>3, TermValues
<1>5. Records \in SUBSET Orders
  BY DEF Records
<1>6. SumFunctionOnSet(v, Orders) = SumFunctionOnSet(v, Records)
  BY <1>3, <1>4, <1>5, OrdersCounted, SumExtends
<1> DEFINE open == [o \in Records |->
                      LET intent == records[o].intent IN
                      CASE intent.offset = "Open" /\ intent.direction = direction ->
                             counter[o].filled
                        [] intent.offset = "Close" /\ intent.direction # direction ->
                             -counter[o].filled
                        [] OTHER -> 0]
<1>7. OpenLots(direction) = SumFunctionOnSet(open, Records)
  BY DEF OpenLots, SumFunction
<1>8. \A o \in Records : open[o] = v[o]
  BY <1>3, <1>5 DEF Term
<1>9. SumFunctionOnSet(open, Records) = SumFunctionOnSet(v, Records)
  <2> HIDE DEF open
  <2>1. \A o \in Records : v[o] \in Int /\ open[o] = v[o]
    BY <1>3, <1>5, <1>8
  <2> QED BY <2>1, RecordsCounted, SumEqual
<1> QED BY <1>1, <1>6, <1>7, <1>9 DEF AtMarket, Amount

-----------------------------------------------------------------------------
(* The volume of trades *)

\* The lots of a trade
Weight == [t \in TradeReport |-> t.quantity]
\* The lots of a set of trades
Volume(S) == SumFunctionOnSet(Weight, S)

\* A volume is a number, which a trade adds to.
LEMMA VolumeAdds ==
  ASSUME NEW S, IsFiniteSet(S), \A u \in S : u \in Trade, NEW t \in Trade, t \notin S
  PROVE  Volume(S) \in Int /\ Volume(S \cup {t}) = Volume(S) + t.quantity
<1>1. \A u \in S \cup {t} : Weight[u] \in Int /\ Weight[u] = u.quantity
  BY DEF Weight, Trade
<1>2. IsFiniteSet(S \cup {t}) /\ (S \cup {t}) \ {t} = S
  BY FS_AddElement
<1>3. SumFunctionOnSet(Weight, S) \in Int
  BY <1>1, SumTerm
<1>4. SumFunctionOnSet(Weight, S \cup {t})
        = Weight[t] + SumFunctionOnSet(Weight, (S \cup {t}) \ {t})
  <2>1. t \in S \cup {t}
    OBVIOUS
  <2> QED BY <1>1, <1>2, <2>1, SumTerm
<1>5. Weight[t] = t.quantity /\ t.quantity \in Int
  BY <1>1 DEF Trade
<1>6. SumFunctionOnSet(Weight, S \cup {t}) = SumFunctionOnSet(Weight, S) + t.quantity
  <2> DEFINE sum == SumFunctionOnSet(Weight, S)
  <2>1. SumFunctionOnSet(Weight, S \cup {t}) = Weight[t] + sum
    BY <1>2, <1>4
  <2>2. sum \in Int
    BY <1>3
  <2> HIDE DEF sum
  <2>3. SumFunctionOnSet(Weight, S \cup {t}) = sum + t.quantity
    BY <1>5, <2>1, <2>2
  <2> QED BY <2>3 DEF sum
<1> QED BY <1>3, <1>6 DEF Volume

\* More trades have no less volume.
LEMMA VolumeGrows ==
  ASSUME NEW T, IsFiniteSet(T), \A u \in T : u \in Trade, NEW S \in SUBSET T
  PROVE  /\ Volume(S) \in Int /\ Volume(T) \in Int /\ Volume(S) <= Volume(T)
         /\ Volume({}) = 0
         /\ \A t \in T : t.quantity <= Volume(T)
<1>1. IsFiniteSet(S) /\ \A u \in T : Weight[u] \in Nat /\ Weight[u] = u.quantity
  BY FS_Subset DEF Weight, Trade
<1>2. ASSUME NEW U \in SUBSET T PROVE Volume(U) \in Int /\ Volume(U) <= Volume(T)
  <2> DEFINE part == [u \in T |-> IF u \in U THEN Weight[u] ELSE 0]
  <2>1. \A u \in T : /\ part[u] \in Int /\ Weight[u] \in Int /\ part[u] <= Weight[u]
                     /\ u \in U => part[u] = Weight[u]
                     /\ u \notin U => part[u] = 0
    BY <1>1
  <2> HIDE DEF part
  <2>2. SumFunctionOnSet(part, T) <= SumFunctionOnSet(Weight, T)
    BY <2>1, SumMonotone
  <2>3. SumFunctionOnSet(part, T) = SumFunctionOnSet(part, U)
    BY <2>1, SumExtends
  <2>4. IsFiniteSet(U)
    BY FS_Subset
  <2>5. SumFunctionOnSet(part, U) = SumFunctionOnSet(Weight, U)
    BY <2>1, <2>4, SumEqual
  <2>6. SumFunctionOnSet(Weight, U) \in Int
    BY <2>1, <2>4, SumTerm
  <2> QED BY <2>2, <2>3, <2>5, <2>6 DEF Volume
<1>3. Volume({}) = 0
  <2>1. IsFiniteSet({})
    BY FS_EmptySet
  <2> QED BY <2>1, SumTerm DEF Volume
<1>4. ASSUME NEW t \in T PROVE t.quantity <= Volume(T)
  <2>1. Volume({t}) <= Volume(T)
    BY <1>2
  <2>2. Volume({} \cup {t}) = Volume({}) + t.quantity /\ t.quantity \in Int
    BY FS_EmptySet, VolumeAdds DEF Trade
  <2>3. {} \cup {t} = {t}
    OBVIOUS
  <2> QED BY <1>3, <2>1, <2>2, <2>3
<1>5. Volume(S) \in Int /\ Volume(S) <= Volume(T)
  <2>1. S \in SUBSET T
    OBVIOUS
  <2> QED BY <1>2, <2>1
<1>6. Volume(T) \in Int
  <2>1. T \in SUBSET T
    OBVIOUS
  <2> QED BY <1>2, <2>1
<1> QED BY <1>3, <1>4, <1>5, <1>6

-----------------------------------------------------------------------------
(* What the counter says is true *)

\* The order was sent to the counter.
AtCounter(o) == State(o) \notin Unsent

\* A report, however late it comes: no more than was filled, and the end only
\* as the order ended.
TrueReport(r) ==
  /\ r.cum <= counter[r.id].filled
  /\ r.type \in EndTypes => Status(r.id) = r.type /\ r.cum = counter[r.id].filled

\* The counter takes nothing back.
Forward ==
  /\ \A o \in Orders :
       /\ counter[o].filled <= counter'[o].filled
       /\ Ended(o) => Status(o)' = Status(o) /\ counter'[o].filled = counter[o].filled
  /\ Range(executed) \subseteq Range(executed)'

\* What was true stays true.
LEMMA TruthStays ==
  ASSUME AccountInv, AccountInv', Forward,
         NEW r, r.id \in Orders, r.cum \in Int, TrueReport(r)
  PROVE  TrueReport(r)'
<1>1. /\ counter[r.id].filled \in Int /\ counter'[r.id].filled \in Int
      /\ counter[r.id].filled <= counter'[r.id].filled
  BY DEF AccountInv, SessionTypes, CounterOrder, Forward
<1>2. r.cum <= counter'[r.id].filled
  BY <1>1 DEF TrueReport
<1>3. ASSUME r.type \in EndTypes
      PROVE  Status(r.id)' = r.type /\ r.cum = counter'[r.id].filled
  BY <1>3 DEF TrueReport, Forward, Ended
<1> QED BY <1>2, <1>3 DEF TrueReport

-----------------------------------------------------------------------------
(* Rows of answers *)

\* A row of an answer has the shape of one, and that of the funds is the last.
AnswerRow(m) ==
  /\ m \in [phase : Asking, row : {m.row}, last : BOOLEAN, current : BOOLEAN,
            error : BOOLEAN]
  /\ m.phase = "QueryingFunds" => m.last

\* A row names an order as it was, a trade of the day, or lots.
RowTrue(m) ==
  /\ AnswerRow(m)
  /\ m.row # <<>> =>
       /\ m.phase = "QueryingOrders" =>
            m.row[1] \in OrderReport /\ m.row[1].cum \in Nat /\ TrueReport(m.row[1])
       /\ m.phase = "QueryingTrades" => m.row[1] \in Range(executed)
       /\ m.phase = "QueryingPositions" =>
            m.row[1].side \in {"long", "short"} /\ m.row[1].quantity \in Nat

\* The rows are true, and nothing of the answer follows its last row.
RowsInv ==
  /\ \A i \in DOMAIN answers : RowTrue(answers[i])
  /\ \A i, j \in DOMAIN answers :
       i < j /\ answers[j].current => ~(answers[i].current /\ answers[i].last)

\* A row is current only while its request is that of the phase and has been
\* answered, or when nothing is asked any more.
AskedInv ==
  /\ asked \in Asking \cup {"None"} /\ phase \in Phases
  /\ asked # "None" => asked = phase \/ phase = "Frozen"
  /\ \A i \in DOMAIN answers :
       answers[i].current =>
         /\ asked = "None"
         /\ answers[i].phase = phase \/ phase \in {"Frozen", "Disconnected"}

\* A row of an answer to a request that was given up.
Old(m) == [m EXCEPT !.current = FALSE]

\* A row stays true, and one that is outdated is the same but for that.
LEMMA OldRow ==
  ASSUME NEW m, AnswerRow(m)
  PROVE  /\ AnswerRow(Old(m)) /\ Old(m).current = FALSE
         /\ Old(m).phase = m.phase /\ Old(m).row = m.row
         /\ Old(m).last = m.last /\ Old(m).error = m.error
BY DEF AnswerRow, Old

\* A row that is true stays true, outdated or not.
LEMMA RowStays ==
  ASSUME AccountInv, AccountInv', Forward, NEW m, RowTrue(m)
  PROVE  RowTrue(m)' /\ RowTrue(Old(m))'
<1>1. AnswerRow(m) /\ AnswerRow(Old(m)) /\ Old(m).phase = m.phase /\ Old(m).row = m.row
  BY OldRow DEF RowTrue
<1>2. ASSUME m.row # <<>>, m.phase = "QueryingOrders"
      PROVE  m.row[1] \in OrderReport /\ m.row[1].cum \in Nat /\ TrueReport(m.row[1])'
  <2>1. m.row[1] \in OrderReport /\ m.row[1].cum \in Nat /\ TrueReport(m.row[1])
    BY <1>2 DEF RowTrue
  <2>2. PICK r : r = m.row[1]
    OBVIOUS
  <2>3. r.id \in Orders /\ r.cum \in Int /\ TrueReport(r)
    BY <2>1, <2>2 DEF OrderReport
  <2>4. TrueReport(r)'
    BY <2>3, TruthStays
  <2> QED BY <2>1, <2>2, <2>4 DEF TrueReport, Status
<1>3. m.row # <<>> /\ m.phase = "QueryingTrades" => m.row[1] \in Range(executed)'
  BY DEF RowTrue, Forward
<1>4. m.row # <<>> /\ m.phase = "QueryingPositions" =>
        m.row[1].side \in {"long", "short"} /\ m.row[1].quantity \in Nat
  BY DEF RowTrue
<1>5. RowTrue(m)'
  BY <1>1, <1>2, <1>3, <1>4 DEF RowTrue, AnswerRow
<1>6. RowTrue(Old(m))'
  BY <1>1, <1>2, <1>3, <1>4 DEF RowTrue, AnswerRow
<1> QED BY <1>5, <1>6

\* Rows stay as they are, but some are used up or lost and some outdated.
RowsRemain(k) ==
  \A j \in DOMAIN answers' :
    /\ j \in Nat /\ j + k \in DOMAIN answers
    /\ answers'[j] = answers[j + k] \/ answers'[j] = Old(answers[j + k])

\* So do the rows that remain.
LEMMA RowsStay ==
  ASSUME AccountInv, AccountInv', Forward, RowsInv, NEW k \in {0, 1}, RowsRemain(k)
  PROVE  RowsInv'
<1>1. ASSUME NEW j \in DOMAIN answers' PROVE RowTrue(answers[j])'
  <2>1. PICK m : m = answers[j + k]
    OBVIOUS
  <2>2. RowTrue(m) /\ answers'[j] \in {m, Old(m)}
    BY <1>1, <2>1 DEF RowsInv, RowsRemain
  <2>3. RowTrue(m)' /\ RowTrue(Old(m))'
    BY <2>2, RowStays
  <2>4. PICK n : n = answers'[j]
    OBVIOUS
  <2>5. RowTrue(n)'
    BY <2>2, <2>3, <2>4
  <2> QED BY <2>4, <2>5 DEF RowTrue, AnswerRow, TrueReport, Status
<1>2. ASSUME NEW i \in DOMAIN answers', NEW j \in DOMAIN answers', i < j,
             answers'[j].current
      PROVE  ~(answers'[i].current /\ answers'[i].last)
  <2>1. /\ i + k \in DOMAIN answers /\ j + k \in DOMAIN answers /\ i + k < j + k
        /\ i \in Nat /\ j \in Nat
    BY <1>2 DEF RowsRemain
  <2>2. AnswerRow(answers[i + k]) /\ AnswerRow(answers[j + k])
    BY <2>1 DEF RowsInv, RowTrue
  <2>3. answers[j + k].current
    BY <1>2, <2>2, OldRow DEF RowsRemain
  <2>4. ~(answers[i + k].current /\ answers[i + k].last)
    BY <2>1, <2>3 DEF RowsInv
  <2> QED BY <1>2, <2>2, <2>4, OldRow DEF RowsRemain
<1> QED BY <1>1, <1>2 DEF RowsInv

\* A handler uses up the first row; the others stay, or become outdated when
\* the phase changes.
LEMMA Consumed ==
  ASSUME AnswerInv, answers # <<>>, Consume
  PROVE  /\ RowsRemain(1)
         /\ DOMAIN answers \subseteq Nat \ {0} /\ 1 \in DOMAIN answers
         /\ Head(answers) = answers[1]
         /\ \A i \in DOMAIN answers \ {1} : i - 1 \in DOMAIN answers'
         /\ \A j \in DOMAIN answers' :
              /\ j \in Nat \ {0} /\ j + 1 \in DOMAIN answers
              /\ answers'[j] = IF phase' = phase THEN answers[j + 1]
                               ELSE Old(answers[j + 1])
<1>1. PICK R : answers \in Seq(R)
  BY DEF AnswerInv
<1>2. /\ Len(answers) \in Nat \ {0} /\ DOMAIN answers = 1 .. Len(answers)
      /\ Head(answers) = answers[1]
      /\ Tail(answers) \in Seq(R) /\ Len(Tail(answers)) = Len(answers) - 1
      /\ DOMAIN Tail(answers) = 1 .. Len(answers) - 1
      /\ \A j \in 1 .. Len(answers) - 1 : Tail(answers)[j] = answers[j + 1]
  BY <1>1, HeadTailProperties
<1>3. /\ DOMAIN answers' = DOMAIN Tail(answers)
      /\ \A j \in DOMAIN answers' :
           answers'[j] = IF phase' = phase THEN Tail(answers)[j]
                         ELSE Old(Tail(answers)[j])
  BY DEF Consume, Outdated, Old
<1>4. \A j \in DOMAIN answers' :
        /\ j \in Nat \ {0} /\ j + 1 \in DOMAIN answers
        /\ answers'[j] = IF phase' = phase THEN answers[j + 1]
                         ELSE Old(answers[j + 1])
  BY <1>2, <1>3
<1>5. \A i \in DOMAIN answers \ {1} : i - 1 \in DOMAIN answers'
  BY <1>2, <1>3
<1> QED BY <1>2, <1>4, <1>5 DEF RowsRemain

\* Where a request leaves the account
LEMMA RequestKinds ==
  ASSUME NEW p, NEW reasons
  PROVE  /\ Request(p, reasons) => \/ phase' = p /\ asked' = p
                                   \/ phase' = "Frozen" /\ asked' = asked
         /\ BeginQueries(reasons) =>
              /\ \/ phase' = "QueryingOrders" /\ asked' = phase'
                 \/ phase' = "Frozen" /\ asked' = asked
              /\ seen' = {} /\ alarmed' = FALSE
         /\ Fail(reasons) => phase' = "Frozen" /\ asked' = asked
         /\ Stay(reasons) => phase' = phase /\ asked' = asked
BY DEF Request, BeginQueries, Sent, NotSent, Fail, Stay

\* A row leaves the phase, or a request has been made, or it failed.
LEMMA RowKinds ==
  ASSUME ReceiveAnswer
  PROVE  /\ answers # <<>> /\ Consume /\ UNCHANGED <<executed, environment>>
         /\ \/ phase' = phase /\ asked' = asked
            \/ phase' # phase /\ phase' \in Asking /\ asked' = phase'
            \/ phase' = "Frozen" /\ asked' = asked
            \/ phase' = "Ready" /\ asked' = asked /\ Receives("QueryingFunds")
<1>1. {"Authenticating", "LoggingIn", "QueryingSettlementConfirmation",
       "ConfirmingSettlement", "QueryingOrders", "QueryingTrades",
       "QueryingPositions", "QueryingFunds"} = Asking
  BY DEF Asking, Querying
<1>2. CASE ReceiveLogin
  <2>1. \/ phase = "Authenticating" /\ Request("LoggingIn", <<>>)
        \/ phase = "LoggingIn" /\ Request("QueryingSettlementConfirmation", <<>>)
        \/ phase = "LoggingIn" /\ BeginQueries(<<>>)
    BY <1>2 DEF ReceiveLogin, Receives
  <2> QED BY <1>1, <1>2, <2>1, RequestKinds DEF ReceiveLogin, Receives, world
<1>3. CASE ReceiveSettlement
  <2>1. \/ phase = "QueryingSettlementConfirmation" /\ Request("ConfirmingSettlement", <<>>)
        \/ phase = "QueryingSettlementConfirmation" /\ BeginQueries(<<>>)
        \/ phase = "ConfirmingSettlement" /\ BeginQueries(<<>>)
    BY <1>3 DEF ReceiveSettlement, Receives
  <2> QED BY <1>1, <1>3, <2>1, RequestKinds DEF ReceiveSettlement, Receives, world
<1>4. CASE ReceiveOrderRow
  <2>1. /\ phase = "QueryingOrders"
        /\ Fail(<<>>) \/ Stay(<<>>) \/ Request("QueryingTrades", <<>>)
    BY <1>4 DEF ReceiveOrderRow, Receives
  <2> QED BY <1>1, <1>4, <2>1, RequestKinds DEF ReceiveOrderRow, Receives, world
<1>5. CASE ReceiveTradeRow
  <2>1. /\ phase = "QueryingTrades"
        /\ \E reasons : \/ Fail(<<>>) \/ Stay(reasons)
                        \/ Request("QueryingPositions", reasons)
    BY <1>5 DEF ReceiveTradeRow, Receives
  <2> QED BY <1>1, <1>5, <2>1, RequestKinds DEF ReceiveTradeRow, Receives, world
<1>6. CASE ReceivePositionRow
  <2>1. /\ phase = "QueryingPositions"
        /\ Fail(<<>>) \/ Stay(<<>>) \/ Request("QueryingFunds", <<>>)
    BY <1>6 DEF ReceivePositionRow, Receives
  <2> QED BY <1>1, <1>6, <2>1, RequestKinds DEF ReceivePositionRow, Receives, world
<1>7. CASE ReceiveFunds
  BY <1>7 DEF ReceiveFunds, Receives, world
<1>8. CASE ReceiveFlawed
  BY <1>8, RequestKinds DEF ReceiveFlawed, world
<1> QED BY <1>2, <1>3, <1>4, <1>5, <1>6, <1>7, <1>8 DEF ReceiveAnswer

\* Phases with and without a request
LEMMA PhaseNames ==
  /\ "Frozen" \in Phases \ Asking /\ "Ready" \in Phases \ Asking
  /\ "Disconnected" \in Phases \ Asking /\ "None" \notin Phases
  /\ Asking \subseteq Phases /\ Querying \subseteq Asking
  /\ {"Authenticating", "LoggingIn", "QueryingSettlementConfirmation",
      "ConfirmingSettlement"} \subseteq Asking \ Querying
  /\ Querying = {"QueryingOrders", "QueryingTrades", "QueryingPositions", "QueryingFunds"}
  /\ "Connecting" \in Phases \ Asking
BY DEF Phases, Asking, Querying

\* After a row there is again a request or an answer for this phase alone.
LEMMA AskedAfterRow ==
  ASSUME AnswerInv, RowsInv, AskedInv, ReceiveAnswer
  PROVE  AskedInv'
<1>1. answers # <<>> /\ Consume
  BY RowKinds
<1>2. ASSUME NEW j \in DOMAIN answers', answers'[j].current
      PROVE  /\ phase' = phase /\ j + 1 \in DOMAIN answers
             /\ answers'[j] = answers[j + 1]
  <2>1. j + 1 \in DOMAIN answers
        /\ answers'[j] = IF phase' = phase THEN answers[j + 1] ELSE Old(answers[j + 1])
    BY <1>1, Consumed
  <2>2. Old(answers[j + 1]).current = FALSE
    BY <2>1, OldRow DEF RowsInv, RowTrue
  <2> QED BY <1>2, <2>1, <2>2
<1>3. /\ asked' \in Asking \cup {"None"} /\ phase' \in Phases
      /\ asked' # "None" => asked' = phase' \/ phase' = "Frozen"
  <2>1. ASSUME Receives("QueryingFunds") PROVE asked = "None"
    <3>1. Head(answers).current /\ Head(answers) = answers[1] /\ 1 \in DOMAIN answers
      BY <1>1, <2>1, Consumed DEF Receives, Expected
    <3> QED BY <3>1 DEF AskedInv
  <2> QED BY <2>1, RowKinds, PhaseNames DEF AskedInv
<1>4. ASSUME NEW j \in DOMAIN answers', answers'[j].current
      PROVE  /\ asked' = "None"
             /\ answers'[j].phase = phase' \/ phase' \in {"Frozen", "Disconnected"}
  <2>1. phase' = phase /\ j + 1 \in DOMAIN answers /\ answers'[j] = answers[j + 1]
    BY <1>2, <1>4
  <2>2. /\ asked = "None"
        /\ answers[j + 1].phase = phase \/ phase \in {"Frozen", "Disconnected"}
    BY <1>4, <2>1 DEF AskedInv
  <2>3. asked' = asked
    BY <2>1, <2>2, RowKinds, PhaseNames
  <2> QED BY <2>1, <2>2, <2>3
<1> QED BY <1>3, <1>4 DEF AskedInv

\* In a phase without a request no row is current.
LEMMA NoneCurrent ==
  ASSUME RowsInv, AskedInv, phase = "Ready"
  PROVE  \A i \in DOMAIN answers : answers[i].current = FALSE
<1>1. ASSUME NEW i \in DOMAIN answers PROVE answers[i].phase # phase /\ answers[i].current \in BOOLEAN
  BY PhaseNames DEF RowsInv, RowTrue, AnswerRow
<1>2. phase \notin {"Frozen", "Disconnected"}
  OBVIOUS
<1> QED BY <1>1, <1>2 DEF AskedInv

\* Rows on their way when the connection changes or the queue is full
LEMMA RowsOverLink ==
  ASSUME AnswerInv, Connected \/ Disconnected \/ Overflow \/ RequestReconciliation
  PROVE  RowsRemain(0) /\ UNCHANGED executed
         /\ (Connected => \A j \in DOMAIN answers' :
                            j \in DOMAIN answers /\ answers'[j] = Old(answers[j]))
         /\ (~Connected => \A j \in DOMAIN answers' :
                             j \in DOMAIN answers /\ answers'[j] = answers[j])
<1>1. PICK R : answers \in Seq(R)
  BY DEF AnswerInv
<1>2. DOMAIN answers \subseteq Nat /\ \A j \in DOMAIN answers : j + 0 = j
  BY <1>1
<1>3. CASE Connected
  <2>1. /\ DOMAIN answers' = DOMAIN answers
        /\ \A j \in DOMAIN answers' : answers'[j] = Old(answers[j])
        /\ executed' = executed
    BY <1>3 DEF Connected, Outdated, Old
  <2> QED BY <1>2, <1>3, <2>1 DEF RowsRemain
<1>4. CASE ~Connected
  <2>1. answers' \in {<<>>, answers} \/ (answers # <<>> /\ answers' = Front(answers))
    BY <1>4 DEF Disconnected, Overflow, RequestReconciliation
  <2>2. \A j \in DOMAIN answers' : j \in DOMAIN answers /\ answers'[j] = answers[j]
    <3>1. CASE answers' \in {<<>>, answers}
      BY <3>1
    <3>2. CASE answers # <<>> /\ answers' = Front(answers)
      BY <1>1, <3>2 DEF Front
    <3> QED BY <2>1, <3>1, <3>2
  <2>3. executed' = executed
    BY <1>4 DEF Disconnected, Overflow, RequestReconciliation, world
  <2> QED BY <1>2, <1>4, <2>2, <2>3 DEF RowsRemain
<1> QED BY <1>3, <1>4

\* A change of the link leaves rows of the phase it gave up, all of them outdated.
LEMMA AskedOverLink ==
  ASSUME AnswerInv, RowsInv, AskedInv,
         Connected \/ Disconnected \/ Overflow \/ RequestReconciliation
  PROVE  AskedInv'
<1>1. CASE Connected
  <2>1. \/ phase' = "Authenticating" /\ asked' = phase'
        \/ phase' = "Frozen" /\ asked' = asked
    BY <1>1 DEF Connected, Sent, NotSent
  <2>2. ASSUME NEW j \in DOMAIN answers' PROVE answers'[j].current = FALSE
    <3>1. j \in DOMAIN answers /\ answers'[j] = Old(answers[j])
      BY <1>1, RowsOverLink
    <3>2. AnswerRow(answers[j])
      BY <3>1 DEF RowsInv, RowTrue
    <3>3. Old(answers[j]).current = FALSE
      BY <3>2, OldRow
    <3> QED BY <3>1, <3>3
  <2> QED BY <2>1, <2>2, PhaseNames DEF AskedInv
<1>2. CASE ~Connected
  <2>1. \A j \in DOMAIN answers' : j \in DOMAIN answers /\ answers'[j] = answers[j]
    BY <1>2, RowsOverLink
  <2>2. CASE Disconnected
    <3>1. phase' = "Disconnected" /\ asked' = "None"
      BY <2>2 DEF Disconnected
    <3> QED BY <2>1, <3>1, PhaseNames DEF AskedInv
  <2>3. CASE Overflow \/ RequestReconciliation
    <3>1. \/ /\ phase = "Ready"
             /\ \/ phase' = "QueryingOrders" /\ asked' = phase'
                \/ phase' = "Frozen" /\ asked' = asked
          \/ phase' = "Frozen" /\ asked' = asked
      <4>1. \/ phase = "Ready" /\ \E reasons : BeginQueries(reasons)
            \/ \E reasons : Fail(reasons)
            \/ phase = "Frozen" /\ \E reasons : Stay(reasons)
        BY <2>3 DEF Overflow, RequestReconciliation
      <4> QED BY <4>1, RequestKinds
    <3>2. CASE phase = "Ready"
      <4>1. \A j \in DOMAIN answers' : answers'[j].current = FALSE
        BY <2>1, <3>2, NoneCurrent
      <4> QED BY <3>1, <4>1, PhaseNames DEF AskedInv
    <3>3. CASE phase # "Ready"
      BY <2>1, <3>1, <3>3, PhaseNames DEF AskedInv
    <3> QED BY <3>2, <3>3
  <2> QED BY <1>2, <2>2, <2>3
<1> QED BY <1>1, <1>2

\* Steps that touch neither request nor answer leave that as it is.
LEMMA AskedUntouched ==
  ASSUME AskedInv, UNCHANGED <<phase, asked, answers>>
  PROVE  AskedInv'
BY DEF AskedInv

-----------------------------------------------------------------------------
(* The answers of the counter *)

\* The orders the counter has
AtHand == {o \in Orders : Status(o) # "None"}

\* The list of orders has exactly these.
LEMMA KnownOrdersAll ==
  /\ DOMAIN KnownOrders = 1 .. Cardinality(AtHand) /\ Cardinality(AtHand) \in Nat
  /\ \A i \in DOMAIN KnownOrders : KnownOrders[i] \in AtHand
  /\ \A o \in AtHand : \E i \in DOMAIN KnownOrders : KnownOrders[i] = o
<1> DEFINE n == Cardinality(AtHand)
           upTo(o) == {p \in AtHand : p <= o}
           rank == [o \in AtHand |-> Cardinality(upTo(o))]
           nth(i) == CHOOSE o \in AtHand : Cardinality(upTo(o)) = i
<1>1. IsFiniteSet(AtHand) /\ n \in Nat /\ AtHand \subseteq Nat
  BY OrdersCounted, FS_Subset, FS_CardinalityType, SessionAssumption DEF AtHand
<1>2. KnownOrders = [i \in 1 .. n |-> nth(i)]
  BY DEF KnownOrders, AtHand, Status
<1>3. ASSUME NEW o \in AtHand
      PROVE  IsFiniteSet(upTo(o)) /\ Cardinality(upTo(o)) \in 1 .. n
  <2>1. /\ IsFiniteSet(upTo(o)) /\ Cardinality(upTo(o)) <= n
        /\ Cardinality(upTo(o)) \in Nat
    BY <1>1, FS_Subset, FS_CardinalityType
  <2>2. o \in upTo(o)
    BY <1>1
  <2>3. Cardinality(upTo(o)) # 0
    BY <2>1, <2>2, FS_EmptySet
  <2> QED BY <1>1, <2>1, <2>3
<1>4. ASSUME NEW o \in AtHand, NEW q \in AtHand,
             Cardinality(upTo(o)) = Cardinality(upTo(q))
      PROVE  o = q
  <2>1. ASSUME NEW a \in AtHand, NEW b \in AtHand, a < b,
               Cardinality(upTo(a)) = Cardinality(upTo(b))
        PROVE  FALSE
    <3>1. a \in Nat /\ b \in Nat
      BY <1>1
    <3>2. upTo(a) \subseteq upTo(b)
      <4>1. ASSUME NEW p \in AtHand, p <= a PROVE p <= b
        <5>1. p \in Nat
          BY <1>1
        <5> QED BY <2>1, <3>1, <4>1, <5>1
      <4> QED BY <4>1
    <3>3. upTo(a) = upTo(b)
      BY <1>3, <2>1, <3>2, FS_Subset
    <3>4. b \in upTo(b) /\ b \notin upTo(a)
      BY <2>1, <3>1
    <3> QED BY <3>3, <3>4
  <2>2. o \in Nat /\ q \in Nat
    BY <1>1
  <2> HIDE DEF upTo
  <2>3. ~(o < q) /\ ~(q < o)
    BY <1>4, <2>1
  <2> QED BY <2>2, <2>3
<1>5. rank \in Injection(AtHand, 1 .. n)
  <2> HIDE DEF upTo, n
  <2>1. rank \in [AtHand -> 1 .. n]
    BY <1>3
  <2>2. \A o, q \in AtHand : rank[o] = rank[q] => o = q
    BY <1>4
  <2> QED BY <2>1, <2>2 DEF Injection, IsInjective
<1>6. IsFiniteSet(1 .. n) /\ Cardinality(1 .. n) = n
  BY <1>1, FS_Interval
<1>7. rank \in Surjection(AtHand, 1 .. n)
  <2> HIDE DEF rank
  <2> QED BY <1>5, <1>6, FS_Injection
<1>8. \A i \in 1 .. n : \E o \in AtHand : Cardinality(upTo(o)) = i
  <2> HIDE DEF upTo, n
  <2> QED BY <1>7 DEF Surjection
<1>9. ASSUME NEW i \in 1 .. n PROVE nth(i) \in AtHand /\ Cardinality(upTo(nth(i))) = i
  <2> HIDE DEF upTo, n
  <2> QED BY <1>8
<1>10. ASSUME NEW o \in AtHand PROVE \E i \in 1 .. n : nth(i) = o
  <2>1. PICK i \in 1 .. n : i = Cardinality(upTo(o))
    BY <1>3
  <2>2. nth(i) \in AtHand /\ Cardinality(upTo(nth(i))) = Cardinality(upTo(o))
    <3> HIDE DEF upTo, nth, n
    <3> QED BY <1>9, <2>1
  <2> HIDE DEF upTo, nth, n
  <2>3. nth(i) = o
    BY <1>4, <2>2
  <2> QED BY <2>3
<1> HIDE DEF nth, n
<1> QED BY <1>1, <1>2, <1>9, <1>10 DEF n

\* Each is reported as it stands.
LEMMA StatusReportTrue ==
  ASSUME AccountInv, NEW o \in AtHand
  PROVE  LET r == StatusReport(o) IN
         /\ r \in OrderReport /\ r.cum \in Nat /\ r.id = o /\ TrueReport(r)
         /\ Ended(o) => r.type \in EndTypes
<1>1. counter[o] \in CounterOrder /\ o \in Orders /\ Status(o) # "None"
  BY DEF AccountInv, SessionTypes, AtHand
<1> DEFINE c == counter[o]
           type == CASE c.status = "Live" -> "Submitted"
                     [] c.status = "Accepted" /\ c.filled > 0 -> "PartiallyFilled"
                     [] OTHER -> c.status
<1>2. StatusReport(o) = [id |-> o, cum |-> c.filled, type |-> type]
  BY DEF StatusReport
<1>3. /\ type \in ReportTypes
      /\ type \in EndTypes => c.status = type
      /\ c.status \in EndTypes => type \in EndTypes
      /\ c.filled \in Nat
  BY <1>1 DEF CounterOrder, ReportTypes, EndTypes, Status
<1> HIDE DEF type
<1> QED BY <1>1, <1>2, <1>3 DEF OrderReport, TrueReport, Status, Ended

\* Positions: at most one row for each side, of the lots open on it
LEMMA PairJoined == ASSUME NEW x, NEW y PROVE <<x>> \o <<y>> = <<x, y>>
<1> DEFINE s == <<x>> \o <<y>>
<1>1. /\ <<x>> \in Seq({x, y}) /\ <<y>> \in Seq({x, y}) /\ <<x, y>> \in Seq({x, y})
      /\ Len(<<x>>) = 1 /\ Len(<<y>>) = 1 /\ Len(<<x, y>>) = 2
  OBVIOUS
<1>2. s \in Seq({x, y}) /\ Len(s) = 2 /\ s[1] = x /\ s[2] = y
  BY <1>1, ConcatProperties
<1> HIDE DEF s
<1>3. s = <<x, y>>
  BY <1>1, <1>2
<1> QED BY <1>3 DEF s

\* What is open on a side at the counter
LotsOn(side) == IF side = "long" THEN OpenLots("Buy") ELSE OpenLots("Sell")

\* The position query answers with one row for every side that holds something.
LEMMA SideRowsAll ==
  ASSUME OpenLots("Buy") \in Int, OpenLots("Sell") \in Int
  PROVE  /\ \E R : SideRows \in Seq(R)
         /\ \A i \in DOMAIN SideRows :
              /\ SideRows[i].side \in {"long", "short"}
              /\ SideRows[i].quantity \in Nat
              /\ SideRows[i].quantity = LotsOn(SideRows[i].side)
         /\ \A i, j \in DOMAIN SideRows : SideRows[i].side = SideRows[j].side => i = j
         /\ \A side \in {"long", "short"} :
              LotsOn(side) > 0 => \E i \in DOMAIN SideRows : SideRows[i].side = side
<1>1. PICK buys \in Int, sells \in Int : buys = OpenLots("Buy") /\ sells = OpenLots("Sell")
  OBVIOUS
<1>2. PICK long, short :
        /\ long = [side |-> "long", quantity |-> buys]
        /\ short = [side |-> "short", quantity |-> sells]
  OBVIOUS
<1>3. SideRows = If(buys > 0, long) \o If(sells > 0, short)
  BY <1>1, <1>2 DEF SideRows
<1>4. /\ long.side = "long" /\ long.quantity = buys
      /\ short.side = "short" /\ short.quantity = sells
      /\ LotsOn("long") = buys /\ LotsOn("short") = sells
  BY <1>1, <1>2 DEF LotsOn
<1>5. CASE buys > 0 /\ sells > 0
  <2>1. SideRows = <<long, short>>
    BY <1>3, <1>5, PairJoined DEF If
  <2>2. DOMAIN SideRows = {1, 2} /\ SideRows[1] = long /\ SideRows[2] = short
        /\ SideRows \in Seq({long, short})
    BY <2>1
  <2> QED BY <1>4, <1>5, <2>2
<1>6. CASE buys > 0 /\ ~(sells > 0)
  <2>1. SideRows = <<long>>
    BY <1>3, <1>6 DEF If
  <2>2. DOMAIN SideRows = {1} /\ SideRows[1] = long /\ SideRows \in Seq({long})
    BY <2>1
  <2> QED BY <1>4, <1>6, <2>2
<1>7. CASE ~(buys > 0) /\ sells > 0
  <2>1. SideRows = <<short>>
    BY <1>3, <1>7 DEF If
  <2>2. DOMAIN SideRows = {1} /\ SideRows[1] = short /\ SideRows \in Seq({short})
    BY <2>1
  <2> QED BY <1>4, <1>7, <2>2
<1>8. CASE ~(buys > 0) /\ ~(sells > 0)
  <2>1. SideRows = <<>>
    BY <1>3, <1>8 DEF If
  <2>2. DOMAIN SideRows = {} /\ SideRows \in Seq({})
    BY <2>1
  <2> QED BY <1>4, <1>8, <2>2
<1> QED BY <1>5, <1>6, <1>7, <1>8

\* The rows of an answer
LEMMA RowsOfPayloads ==
  ASSUME NEW p, NEW R, NEW payloads \in Seq(R), NEW rows, rows = RowsOf(p, payloads)
  PROVE  /\ \E S : rows \in Seq(S)
         /\ Len(rows) \in Nat \ {0}
         /\ \A i \in DOMAIN rows :
              /\ \E content : rows[i] = Row(p, content, i = Len(rows))
              /\ rows[i].row = <<>> \/ (i \in DOMAIN payloads /\ rows[i].row = <<payloads[i]>>)
         /\ \A i \in DOMAIN payloads : i \in DOMAIN rows /\ rows[i].row = <<payloads[i]>>
         /\ payloads # <<>> => Len(rows) = Len(payloads)
<1>1. CASE payloads = <<>>
  <2>1. PICK row : row = Row(p, <<>>, TRUE)
    OBVIOUS
  <2>2. rows = <<row>>
    BY <1>1, <2>1 DEF RowsOf
  <2>3. rows \in Seq({row}) /\ Len(rows) = 1 /\ DOMAIN rows = {1} /\ rows[1] = row
    BY <2>2
  <2>4. row.row = <<>>
    BY <2>1 DEF Row
  <2>5. row = Row(p, <<>>, 1 = 1)
    BY <2>1
  <2>6. \E S : rows \in Seq(S)
    BY <2>3
  <2>7. DOMAIN payloads = {}
    BY <1>1
  <2>8. ASSUME NEW i \in DOMAIN rows
        PROVE  /\ \E content : rows[i] = Row(p, content, i = Len(rows))
               /\ rows[i].row = <<>>
    <3>1. i = 1 /\ Len(rows) = 1 /\ rows[i] = row
      BY <2>3
    <3>2. rows[i] = Row(p, <<>>, i = Len(rows))
      BY <2>5, <3>1
    <3> QED BY <2>4, <3>1, <3>2
  <2>9. Len(rows) \in Nat \ {0}
    BY <2>3
  <2> QED BY <1>1, <2>6, <2>7, <2>8, <2>9
<1>2. CASE payloads # <<>>
  <2> DEFINE n == Len(payloads)
             row(i) == Row(p, <<payloads[i]>>, i = n)
  <2>1. n \in Nat \ {0} /\ DOMAIN payloads = 1 .. n
    BY <1>2
  <2>2. rows = [i \in 1 .. n |-> row(i)]
    BY <1>2, <2>1 DEF RowsOf
  <2>3. \A i \in 1 .. n : row(i).row = <<payloads[i]>>
    BY DEF Row
  <2>4. \A i \in 1 .. n : \E content : row(i) = Row(p, content, i = n)
    OBVIOUS
  <2> HIDE DEF row, n
  <2>5. rows \in Seq({row(i) : i \in 1 .. n}) /\ Len(rows) = n /\ DOMAIN rows = 1 .. n
    BY <2>1, <2>2
  <2>6. \A i \in 1 .. n : rows[i] = row(i)
    BY <2>2
  <2>7. \E S : rows \in Seq(S)
    BY <2>5
  <2>8. ASSUME NEW i \in DOMAIN rows
        PROVE  /\ \E content : rows[i] = Row(p, content, i = Len(rows))
               /\ rows[i].row = <<payloads[i]>> /\ i \in DOMAIN payloads
    <3>1. i \in 1 .. n /\ rows[i] = row(i) /\ Len(rows) = n
      BY <2>5, <2>6
    <3>2. PICK content : row(i) = Row(p, content, i = n)
      BY <2>4, <3>1
    <3>3. rows[i] = Row(p, content, i = Len(rows))
      BY <3>1, <3>2
    <3>4. i \in DOMAIN payloads /\ rows[i].row = <<payloads[i]>>
      BY <2>1, <2>3, <3>1
    <3> QED BY <3>3, <3>4
  <2>9. Len(rows) \in Nat \ {0} /\ DOMAIN payloads = DOMAIN rows /\ Len(rows) = n
    BY <2>1, <2>5
  <2> QED BY <2>7, <2>8, <2>9 DEF n
<1> QED BY <1>1, <1>2

\* What the counter answers with is so.
LEMMA PayloadsTrue ==
  ASSUME AccountInv, AnswerInv, OpenLots("Buy") \in Int, OpenLots("Sell") \in Int,
         NEW p, NEW payloads \in Payloads(p), NEW i \in DOMAIN payloads
  PROVE  /\ p = "QueryingOrders" =>
              /\ payloads[i] \in OrderReport /\ payloads[i].cum \in Nat
              /\ TrueReport(payloads[i])
         /\ p = "QueryingTrades" => payloads[i] \in Range(executed)
         /\ p = "QueryingPositions" =>
              payloads[i].side \in {"long", "short"} /\ payloads[i].quantity \in Nat
<1>1. ASSUME p = "QueryingOrders"
      PROVE  /\ payloads[i] \in OrderReport /\ payloads[i].cum \in Nat
             /\ TrueReport(payloads[i])
  <2>1. i \in DOMAIN KnownOrders /\ payloads[i] = StatusReport(KnownOrders[i])
    BY <1>1 DEF Payloads
  <2>2. PICK o \in AtHand : o = KnownOrders[i]
    BY <2>1, KnownOrdersAll
  <2>3. PICK r : r = StatusReport(o)
    OBVIOUS
  <2>4. r \in OrderReport /\ r.cum \in Nat /\ TrueReport(r)
    BY <2>3, StatusReportTrue
  <2>5. payloads[i] = r
    BY <2>1, <2>2, <2>3
  <2> QED BY <2>4, <2>5
<1>2. ASSUME p = "QueryingTrades" PROVE payloads[i] \in Range(executed)
  <2>1. payloads = executed
    BY <1>2 DEF Payloads
  <2> QED BY <2>1 DEF Range
<1>3. ASSUME p = "QueryingPositions"
      PROVE  payloads[i].side \in {"long", "short"} /\ payloads[i].quantity \in Nat
  <2>1. payloads = SideRows
    BY <1>3 DEF Payloads
  <2> QED BY <2>1, SideRowsAll
<1> QED BY <1>1, <1>2, <1>3

\* The rows that answer a request
Answering(more) ==
  /\ \E S : more \in Seq(S)
  /\ \A i \in DOMAIN more :
       /\ RowTrue(more[i]) /\ more[i].current /\ more[i].phase = asked
       /\ more[i].last => i = Len(more)

\* The counter answers with rows that are true, or with an error.
LEMMA AnswerSent ==
  ASSUME AccountInv, AnswerInv, AskedInv,
         OpenLots("Buy") \in Int, OpenLots("Sell") \in Int, CounterAnswer
  PROVE  \E more : /\ answers' = answers \o more /\ Answering(more)
                   /\ \/ \E i \in DOMAIN more : more[i].error
                      \/ \E payloads \in Payloads(asked) : more = RowsOf(asked, payloads)
<1>1. asked \in Asking
  BY DEF CounterAnswer, AskedInv
<1>2. CASE \E payloads \in Payloads(asked) : answers' = answers \o RowsOf(asked, payloads)
  <2>1. PICK payloads \in Payloads(asked) : answers' = answers \o RowsOf(asked, payloads)
    BY <1>2
  <2>2. PICK R : payloads \in Seq(R)
    BY PayloadsSeq
  <2>3. PICK more : more = RowsOf(asked, payloads)
    OBVIOUS
  <2>4. /\ \E S : more \in Seq(S)
        /\ Len(more) \in Nat \ {0}
        /\ \A i \in DOMAIN more :
             /\ \E content : more[i] = Row(asked, content, i = Len(more))
             /\ more[i].row = <<>> \/ (i \in DOMAIN payloads /\ more[i].row = <<payloads[i]>>)
        /\ payloads # <<>> => Len(more) = Len(payloads)
    BY <2>2, <2>3, RowsOfPayloads
  <2>5. ASSUME NEW i \in DOMAIN more
        PROVE  /\ RowTrue(more[i]) /\ more[i].current /\ more[i].phase = asked
               /\ more[i].last => i = Len(more)
    <3>1. PICK content : more[i] = Row(asked, content, i = Len(more))
      BY <2>4
    <3>2. PICK last \in BOOLEAN : last <=> i = Len(more)
      <4>1. (i = Len(more)) \in BOOLEAN
        OBVIOUS
      <4> QED BY <4>1
    <3>3. more[i] = Row(asked, content, last)
      BY <3>1, <3>2
    <3>4. /\ more[i] \in [phase : Asking, row : {more[i].row}, last : BOOLEAN,
                          current : BOOLEAN, error : BOOLEAN]
          /\ more[i].current /\ more[i].phase = asked /\ more[i].last = last
      BY <1>1, <3>3 DEF Row
    <3>5. ASSUME asked = "QueryingFunds" PROVE i = Len(more)
      <4>1. payloads = <<TRUE>>
        BY <3>5 DEF Payloads
      <4>2. payloads # <<>> /\ Len(payloads) = 1
        BY <4>1
      <4>3. Len(more) = 1 /\ DOMAIN more = 1 .. 1
        BY <2>4, <4>2
      <4> QED BY <4>3
    <3>6. ASSUME more[i].row # <<>>
          PROVE  i \in DOMAIN payloads /\ more[i].row[1] = payloads[i]
      BY <2>4, <3>6
    <3>7. AnswerRow(more[i])
      BY <3>2, <3>4, <3>5 DEF AnswerRow
    <3>8. RowTrue(more[i])
      BY <3>4, <3>6, <3>7, PayloadsTrue DEF RowTrue
    <3> QED BY <3>2, <3>4, <3>8
  <2> QED BY <2>1, <2>3, <2>4, <2>5 DEF Answering
<1>3. CASE answers' = Append(answers, Flawed(asked))
  <2>1. PICK m : m = Flawed(asked)
    OBVIOUS
  <2>2. /\ m \in [phase : Asking, row : {m.row}, last : BOOLEAN,
                  current : BOOLEAN, error : BOOLEAN]
        /\ m.row = <<>> /\ m.last /\ m.current /\ m.error /\ m.phase = asked
    BY <1>1, <2>1 DEF Flawed, Row
  <2>3. RowTrue(m)
    BY <2>2 DEF RowTrue, AnswerRow
  <2>4. PICK more : more = <<m>>
    OBVIOUS
  <2>5. /\ more \in Seq({m}) /\ DOMAIN more = {1} /\ more[1] = m /\ Len(more) = 1
    BY <2>4
  <2>6. answers' = answers \o more
    <3>1. PICK R : answers \in Seq(R)
      BY DEF AnswerInv
    <3> QED BY <1>3, <2>1, <2>4, <3>1
  <2>7. Answering(more)
    BY <2>2, <2>3, <2>5 DEF Answering
  <2> QED BY <2>2, <2>5, <2>6, <2>7
<1> QED BY <1>2, <1>3 DEF CounterAnswer

\* They come after those on their way, none of which is current.
LEMMA AnswerJoins ==
  ASSUME AnswerInv, NEW more, Answering(more), answers' = answers \o more
  PROVE  /\ Len(answers) \in Nat /\ DOMAIN answers = 1 .. Len(answers)
         /\ DOMAIN more = 1 .. Len(more) /\ Len(more) \in Nat
         /\ DOMAIN answers' = 1 .. Len(answers) + Len(more)
         /\ \A j \in 1 .. Len(answers) : answers'[j] = answers[j]
         /\ \A j \in 1 .. Len(more) : answers'[Len(answers) + j] = more[j]
         /\ \A j \in DOMAIN answers' :
              \/ j \in DOMAIN answers /\ answers'[j] = answers[j]
              \/ /\ j - Len(answers) \in DOMAIN more
                 /\ answers'[j] = more[j - Len(answers)]
<1>1. PICK R : answers \in Seq(R)
  BY DEF AnswerInv
<1>2. PICK S : more \in Seq(S)
  BY DEF Answering
<1>3. answers \in Seq(R \cup S) /\ more \in Seq(R \cup S)
  BY <1>1, <1>2
<1>4. /\ Len(answers) \in Nat /\ DOMAIN answers = 1 .. Len(answers)
      /\ DOMAIN more = 1 .. Len(more) /\ Len(more) \in Nat
      /\ DOMAIN answers' = 1 .. Len(answers) + Len(more)
      /\ \A j \in 1 .. Len(answers) : answers'[j] = answers[j]
      /\ \A j \in 1 .. Len(more) : answers'[Len(answers) + j] = more[j]
  BY <1>3, ConcatProperties
<1>5. ASSUME NEW j \in DOMAIN answers'
      PROVE  \/ j \in DOMAIN answers /\ answers'[j] = answers[j]
             \/ /\ j - Len(answers) \in DOMAIN more
                /\ answers'[j] = more[j - Len(answers)]
  <2>1. CASE j <= Len(answers)
    BY <1>4, <2>1
  <2>2. CASE ~(j <= Len(answers))
    <3>1. j - Len(answers) \in 1 .. Len(more) /\ Len(answers) + (j - Len(answers)) = j
      BY <1>4, <2>2
    <3> QED BY <1>4, <3>1
  <2> QED BY <2>1, <2>2
<1> QED BY <1>4, <1>5

\* The answer is one to the request of this phase.
LEMMA AskedAfterAnswer ==
  ASSUME AccountInv, AnswerInv, RowsInv, AskedInv,
         OpenLots("Buy") \in Int, OpenLots("Sell") \in Int, CounterAnswer
  PROVE  RowsInv' /\ AskedInv'
<1>1. PICK more : answers' = answers \o more /\ Answering(more)
  BY AnswerSent
<1>2. /\ asked # "None" /\ asked' = "None" /\ phase' = phase
      /\ counter' = counter /\ executed' = executed
  BY DEF CounterAnswer
<1>3. \A i \in DOMAIN answers : answers[i].current = FALSE
  <2>1. ASSUME NEW i \in DOMAIN answers PROVE answers[i].current \in BOOLEAN
    BY <2>1 DEF RowsInv, RowTrue, AnswerRow
  <2> QED BY <1>2, <2>1 DEF AskedInv
<1>4. \A m : RowTrue(m) => RowTrue(m)'
  BY <1>2 DEF RowTrue, AnswerRow, TrueReport, Status, Range
<1>5. ASSUME NEW j \in DOMAIN answers' PROVE RowTrue(answers[j])'
  <2>1. PICK m : m = answers'[j]
    OBVIOUS
  <2>2. RowTrue(m)
    BY <1>1, <1>5, <2>1, AnswerJoins DEF RowsInv, Answering
  <2>3. RowTrue(m)'
    BY <1>4, <2>2
  <2> QED BY <2>1, <2>3 DEF RowTrue, AnswerRow, TrueReport, Status
<1>6. ASSUME NEW j \in DOMAIN answers', answers'[j].current
      PROVE  /\ j - Len(answers) \in DOMAIN more
             /\ answers'[j] = more[j - Len(answers)]
  BY <1>1, <1>3, <1>6, AnswerJoins
<1>7. ASSUME NEW i \in DOMAIN answers', NEW j \in DOMAIN answers', i < j,
             answers'[j].current
      PROVE  ~(answers'[i].current /\ answers'[i].last)
  <2>1. SUFFICES ASSUME answers'[i].current, answers'[i].last PROVE FALSE
    OBVIOUS
  <2>2. i - Len(answers) \in DOMAIN more /\ more[i - Len(answers)].last
    BY <1>6, <1>7, <2>1
  <2>3. i - Len(answers) = Len(more)
    BY <1>1, <2>2 DEF Answering
  <2>4. /\ Len(answers) \in Nat /\ Len(more) \in Nat
        /\ i \in 1 .. Len(answers) + Len(more) /\ j \in 1 .. Len(answers) + Len(more)
    BY <1>1, <1>7, AnswerJoins
  <2> QED BY <1>7, <2>3, <2>4
<1>8. \A j \in DOMAIN answers' : answers'[j].current =>
        answers'[j].phase = phase \/ phase = "Frozen"
  <2>1. asked = phase \/ phase = "Frozen"
    BY <1>2 DEF AskedInv
  <2> QED BY <1>1, <1>6, <2>1 DEF Answering
<1> QED BY <1>2, <1>5, <1>7, <1>8 DEF RowsInv, AskedInv

-----------------------------------------------------------------------------
(* One order at the counter and in the book *)

\* How far an order is filled goes with its status, and the account knows that
\* it sent it.
CounterTrue(o) ==
  LET c == counter[o] IN
  /\ c.status \in {"None", "Live", "Rejected"} => c.filled = 0
  /\ c.status = "Filled" => c.filled = Quantity(o)
  /\ c.status \in {"Accepted", "Canceled"} => c.filled < Quantity(o)
  /\ c.status # "None" => AtCounter(o)

\* The book claims no fill and no end that the counter does not have, and an
\* entry has given its slot back only when it has ended.
OrderTrue(o) ==
  LET b == book.orders[o]
      opens == records[o].intent.offset = "Open" IN
  /\ b.reported <= counter[o].filled
  /\ b.state \in {"Rejected", "Filled"} => Status(o) = b.state
  /\ b.state = "Canceled" => b.cancelAck
  /\ b.cancelAck => Status(o) = "Canceled"
  /\ b.state = "Filled" => b.reported = Quantity(o) \/ b.accounted = Quantity(o)
  /\ b.state # "SubmitResultUnknown"
  /\ AtCounter(o) /\ opens /\ ~records[o].activeOpen => ~Live(o)
  /\ records[o].activeOpen => opens

\* What is known of an order whatever happens to it
LEMMA OrderKnown ==
  ASSUME AccountInv, OrdersInv, NEW o \in Orders
  PROVE  /\ book.orders[o] \in Order /\ counter[o] \in CounterOrder
         /\ records[o] \in Record
         /\ State(o) # "Absent" =>
              /\ Quantity(o) \in Nat \ {0} /\ book.orders[o].seed.quantity = Quantity(o)
              /\ book.orders[o].reported <= Quantity(o)
              /\ book.orders[o].accounted <= Quantity(o)
              /\ Accounted(o) = Quantity(o) => State(o) = "Filled"
              /\ o \in Records
         /\ State(o) = "Absent" => Accounted(o) = 0
         /\ o \notin Records => Status(o) = "None" /\ State(o) = "Absent"
<1>1. /\ book.orders[o] \in Order /\ counter[o] \in CounterOrder /\ records[o] \in Record
      /\ SoundOrder(book.orders[o])
  BY DEF AccountInv, SessionTypes, SoundBook, Book
<1>2. State(o) # "Absent" => o \in Records /\ book.orders[o].seed.quantity = Quantity(o)
  <2>1. State(o) # "Absent" => o \in Records /\ book.orders[o].seed = SeedOf(records[o].intent)
    BY DEF OrdersInv, BookNamesRecords
  <2>2. SeedOf(records[o].intent).quantity = records[o].intent.quantity
    BY DEF SeedOf
  <2> QED BY <2>1, <2>2 DEF Quantity
<1>3. State(o) = "Absent" => Accounted(o) = 0
  BY DEF OrdersInv, BookNamesRecords, Accounted
<1>4. o \notin Records => Status(o) = "None"
  BY DEF OrdersInv, OnlyRecords, Status
<1>5. records[o].intent.quantity \in Nat
  BY <1>1 DEF Record, Intent
<1> QED
  BY <1>1, <1>2, <1>3, <1>4, <1>5 DEF SoundOrder, State, Quantity, Accounted

\* An order left alone, but for its requests to cancel
LEMMA KeptOrderTrue ==
  ASSUME AccountInv, OrdersInv, NEW o \in Orders, CounterTrue(o), OrderTrue(o), KeptOrder(o)
  PROVE  CounterTrue(o)' /\ OrderTrue(o)'
<1>1. /\ records'[o].intent = records[o].intent
      /\ records'[o].activeOpen = records[o].activeOpen
      /\ counter'[o].status = counter[o].status /\ counter'[o].filled = counter[o].filled
      /\ book'.orders[o].reported = book.orders[o].reported
      /\ book'.orders[o].accounted = book.orders[o].accounted
      /\ book'.orders[o].cancelAck = book.orders[o].cancelAck
  BY DEF KeptOrder, SameCounts, Status
<1>2. \/ book'.orders[o].state = book.orders[o].state
      \/ {book.orders[o].state, book'.orders[o].state} \subseteq Working
  BY DEF KeptOrder, State
<1>3. CounterTrue(o)'
  BY <1>1, <1>2 DEF CounterTrue, AtCounter, State, Unsent, Working, Quantity
<1>4. OrderTrue(o)'
  BY <1>1, <1>2 DEF OrderTrue, AtCounter, State, Status, Unsent, Working, Quantity, Live
<1> QED BY <1>3, <1>4

\* An order that is submitted, or refused
LEMMA EnteredOrderTrue ==
  ASSUME AccountInv, OrdersInv, NEW o \in Orders, CounterTrue(o), OrderTrue(o),
         EnteredOrder(o), AccountInv', OrdersInv'
  PROVE  CounterTrue(o)' /\ OrderTrue(o)'
<1>1. /\ counter[o].status = "None" /\ counter[o].filled = 0
      /\ counter'[o].filled = 0
      /\ book.orders[o].state = "Absent" /\ book.orders[o].reported = 0
      /\ book.orders[o].cancelAck = FALSE
  BY OrderKnown DEF EnteredOrder, CounterTrue, OrderTrue, Status, State, Order
<1>2. /\ book'.orders[o].reported = 0 /\ book'.orders[o].cancelAck = FALSE
  BY <1>1 DEF EnteredOrder, SameOrder, SameCounts
<1>3. /\ records'[o].activeOpen => records'[o].intent.offset = "Open"
      /\ \/ /\ book'.orders[o].state = "Submitted" /\ counter'[o].status = "Live"
            /\ records'[o].intent.offset = "Open" => records'[o].activeOpen
         \/ /\ book'.orders[o].state \in Unsent /\ counter'[o].status = "None"
  BY DEF EnteredOrder, Status, State
<1>4. CounterTrue(o)'
  BY <1>1, <1>3 DEF CounterTrue, AtCounter, State, Unsent
<1>5. OrderTrue(o)'
  BY <1>1, <1>2, <1>3 DEF OrderTrue, AtCounter, State, Status, Unsent, Live
<1> QED BY <1>4, <1>5

\* The slot of an order is given back, if at all, when its state is an end.
SlotAfter(o) ==
  /\ records'[o].occupied = records[o].occupied
  /\ records'[o].intent = records[o].intent
  /\ \/ records'[o].activeOpen = records[o].activeOpen
     \/ records'[o].activeOpen = FALSE /\ State(o)' \in Terminal

\* The counter says of the order what it said.
SameAtCounter(o) ==
  Status(o)' = Status(o) /\ counter'[o].filled = counter[o].filled

\* An order that a report is about
ToldOrder(o, r) ==
  /\ r.id = o /\ TrueReport(r)
  /\ SlotAfter(o) /\ SameAtCounter(o)
  /\ \/ SameOrder(book.orders[o], book'.orders[o])
     \/ Merged(book.orders[o], book'.orders[o], r)

\* A report takes an order to an end only if it says so itself.
LEMMA ReportMoves ==
  ASSUME NEW o, NEW r, r.type \in ReportTypes
  PROVE  LET s == StateAfterReport(o, r) IN
         /\ s \in Unsent => s = o.state
         /\ s = "SubmitResultUnknown" => s = o.state
         /\ s = "Filled" => o.state = "Filled" \/ r.type = "Filled"
         /\ s = "Rejected" => o.state = "Rejected" \/ r.type = "Rejected"
         /\ s = "Canceled" => o.state = "Canceled" \/ (r.type = "Canceled" /\ o.state # "Filled")
BY DEF StateAfterReport, ReportTarget, ReportSource, Unsent, ReportTypes, OrderStates

\* Of a report that is true the book learns nothing that is not.
LEMMA ToldOrderTrue ==
  ASSUME AccountInv, OrdersInv, NEW o \in Orders, CounterTrue(o), OrderTrue(o),
         NEW r \in OrderReport, ToldOrder(o, r)
  PROVE  CounterTrue(o)' /\ OrderTrue(o)'
<1> DEFINE b == book.orders[o]
           p == book'.orders[o]
<1>1. /\ r.id = o /\ r.cum \in Int /\ r.type \in ReportTypes /\ TrueReport(r)
      /\ b \in Order /\ counter[o] \in CounterOrder
      /\ b.state # "Absent" => /\ Quantity(o) \in Nat \ {0}
                               /\ b.seed.quantity = Quantity(o)
                               /\ b.reported <= Quantity(o)
  BY OrderKnown DEF OrderReport, ToldOrder, State
<1>2. /\ records'[o].intent = records[o].intent
      /\ \/ records'[o].activeOpen = records[o].activeOpen
         \/ records'[o].activeOpen = FALSE /\ p.state \in Terminal
      /\ counter'[o].status = counter[o].status /\ counter'[o].filled = counter[o].filled
  BY DEF ToldOrder, SlotAfter, SameAtCounter, Status, State
<1>3. /\ p.state \in Unsent => p.state = b.state
      /\ b.state \in Unsent => p.state = b.state
      /\ p.accounted = b.accounted
  <2>1. Merged(b, p, r) => b.state \notin Unsent
    BY DEF Merged, Malformed, Unsent
  <2> QED BY <1>1, <2>1, ReportMoves DEF ToldOrder, Merged, Merges, SameOrder, SameCounts
<1>4. CounterTrue(o)'
  BY <1>2, <1>3 DEF CounterTrue, AtCounter, State, Quantity
<1>5. p.reported <= counter[o].filled
  BY <1>1 DEF ToldOrder, Merged, Merges, SameOrder, SameCounts, OrderTrue, TrueReport
<1>6. p.state \in {"Rejected", "Filled"} => counter[o].status = p.state
  BY <1>1, ReportMoves
  DEF ToldOrder, Merged, Merges, SameOrder, OrderTrue, TrueReport, Status, EndTypes
<1>7. p.state = "Canceled" => p.cancelAck
  BY <1>1, ReportMoves
  DEF ToldOrder, Merged, Merges, SameOrder, SameCounts, OrderTrue
<1>8. p.cancelAck => counter[o].status = "Canceled"
  BY <1>1 DEF ToldOrder, Merged, Merges, SameOrder, SameCounts, OrderTrue, TrueReport, Status, EndTypes
<1>9. p.state = "Filled" => p.reported = Quantity(o) \/ p.accounted = Quantity(o)
  <2>1. CASE SameOrder(b, p)
    BY <2>1 DEF SameOrder, SameCounts, OrderTrue
  <2>2. CASE Merged(b, p, r)
    <3>1. /\ b.state # "Absent" /\ r.cum \in 0 .. Quantity(o) /\ r.cum >= b.reported
          /\ p.reported = r.cum
          /\ r.type = "Filled" => r.cum = Quantity(o)
      BY <1>1, <2>2 DEF Merged, Merges, Malformed
    <3>2. p.state = "Filled" => b.state = "Filled" \/ r.type = "Filled"
      <4>1. StateAfterReport(b, r) = "Filled" => b.state = "Filled" \/ r.type = "Filled"
        BY <1>1, ReportMoves
      <4>2. p.state = StateAfterReport(b, r)
        BY <2>2 DEF Merged, Merges
      <4> QED BY <4>1, <4>2
    <3>3. b.state = "Filled" => b.reported = Quantity(o) \/ b.accounted = Quantity(o)
      BY DEF OrderTrue
    <3>4. b.reported \in Nat
      BY <1>1 DEF Order
    <3> QED BY <1>1, <1>3, <3>1, <3>2, <3>3, <3>4
  <2> QED BY <2>1, <2>2 DEF ToldOrder
<1>10. p.state # "SubmitResultUnknown"
  BY <1>1, ReportMoves DEF ToldOrder, Merged, Merges, SameOrder, OrderTrue
<1>11. p.state \in Terminal /\ p.state \notin Unsent => counter[o].status \in EndTypes
  BY <1>6, <1>7, <1>8, <1>10 DEF Terminal, Unsent, EndTypes
<1>12. AtCounter(o)' /\ records'[o].intent.offset = "Open" /\ ~records'[o].activeOpen =>
         ~Live(o)'
  <2>1. SUFFICES ASSUME p.state \notin Unsent, records'[o].intent.offset = "Open",
                        ~records'[o].activeOpen
                 PROVE  counter'[o].status \notin {"Live", "Accepted"}
    BY DEF AtCounter, State, Live
  <2>2. AtCounter(o)
    BY <1>3, <2>1 DEF AtCounter, State
  <2>3. CASE records'[o].activeOpen = records[o].activeOpen
    BY <1>2, <2>1, <2>2, <2>3 DEF OrderTrue, Live
  <2>4. CASE p.state \in Terminal
    BY <1>2, <1>11, <2>1, <2>4 DEF EndTypes
  <2> QED BY <1>2, <2>3, <2>4
<1> HIDE DEF b, p
<1>13. OrderTrue(o)'
  BY <1>2, <1>5, <1>6, <1>7, <1>8, <1>9, <1>10, <1>12
  DEF OrderTrue, Status, Quantity, b, p
<1> QED BY <1>4, <1>13

\* An order that a trade is about
TradedOrder(o, t) ==
  /\ SlotAfter(o) /\ SameAtCounter(o)
  /\ \/ SameOrder(book.orders[o], book'.orders[o])
     \/ /\ Fills(book.orders[o], book'.orders[o], t)
        /\ Accounted(o)' <= counter[o].filled

\* The counter has an order that has traded, and has not rejected it.
LEMMA TradedAtCounter ==
  ASSUME AccountInv, OrdersInv, NEW o \in Orders, CounterTrue(o), OrderTrue(o),
         counter[o].filled # 0
  PROVE  AtCounter(o) /\ State(o) # "Rejected" /\ State(o) # "Absent"
BY OrderKnown DEF CounterTrue, OrderTrue, AtCounter, Unsent, Status, State

\* Nor of a trade that was executed.
LEMMA TradedOrderTrue ==
  ASSUME AccountInv, OrdersInv, NEW o \in Orders, CounterTrue(o), OrderTrue(o),
         NEW t \in TradeReport, TradedOrder(o, t)
  PROVE  CounterTrue(o)' /\ OrderTrue(o)'
<1> DEFINE b == book.orders[o]
           p == book'.orders[o]
<1>1. /\ t.quantity \in Int /\ b \in Order /\ counter[o] \in CounterOrder
      /\ b.state # "Absent" => /\ Quantity(o) \in Nat \ {0}
                               /\ b.seed.quantity = Quantity(o)
  BY OrderKnown DEF TradeReport, State
<1>2. /\ records'[o].intent = records[o].intent
      /\ \/ records'[o].activeOpen = records[o].activeOpen
         \/ records'[o].activeOpen = FALSE /\ p.state \in Terminal
      /\ counter'[o].status = counter[o].status /\ counter'[o].filled = counter[o].filled
  BY DEF TradedOrder, SlotAfter, SameAtCounter, Status, State
<1>3. CASE SameOrder(b, p)
  <2>1. CounterTrue(o)'
    BY <1>2, <1>3 DEF CounterTrue, AtCounter, State, Quantity, SameOrder
  <2>2. b.state \in Terminal /\ b.state \notin Unsent => counter[o].status \in EndTypes
    BY DEF Terminal, Unsent, EndTypes, OrderTrue, Status
  <2>3. OrderTrue(o)'
    BY <1>2, <1>3, <2>2
    DEF OrderTrue, AtCounter, State, Status, Quantity, SameOrder, SameCounts, Live, EndTypes
  <2> QED BY <2>1, <2>3
<1>4. CASE Fills(b, p, t) /\ Accounted(o)' <= counter[o].filled
  <2>1. /\ b.state # "Absent" /\ t.quantity > 0 /\ p.accounted = b.accounted + t.quantity
        /\ p.accounted <= counter[o].filled /\ b.accounted \in Nat
        /\ p.reported = b.reported /\ p.cancelAck = b.cancelAck
        /\ p.state = IF p.accounted = Quantity(o) THEN "Filled" ELSE "PartiallyFilled"
    BY <1>1, <1>4 DEF Fills, Accounted, Order
  <2>2. counter[o].filled # 0 /\ counter[o].filled \in Nat /\ p.accounted \in Nat
    BY <1>1, <2>1 DEF CounterOrder
  <2>3. AtCounter(o) /\ b.state # "Rejected"
    BY <2>2, TradedAtCounter DEF State
  <2>4. p.state = "Filled" => counter[o].status = "Filled" /\ p.accounted = Quantity(o)
    BY <1>1, <2>1, <2>2 DEF CounterTrue, CounterOrder
  <2>5. p.state \in {"Filled", "PartiallyFilled"}
    BY <2>1
  <2>6. CounterTrue(o)'
    BY <1>2, <2>5 DEF CounterTrue, AtCounter, State, Quantity, Unsent
  <2>7. OrderTrue(o)'
    BY <1>2, <2>1, <2>3, <2>4, <2>5
    DEF OrderTrue, AtCounter, State, Status, Quantity, Live, Unsent, Terminal
  <2> QED BY <2>6, <2>7
<1> QED BY <1>3, <1>4 DEF TradedOrder

\* An order whose counter moves on
AccountAside(o) ==
  /\ records'[o] = records[o] /\ book'.orders[o] = book.orders[o]

\* What the counter may do with an order, at most as much as it is for
MovedOrder(o) ==
  LET c == counter[o]
      d == counter'[o] IN
  \/ d.status = c.status /\ d.filled = c.filled
  \/ c.status = "Live" /\ d.status \in {"Accepted", "None"} /\ d.filled = c.filled
  \/ Live(o) /\ c.filled = 0 /\ d.status = "Rejected" /\ d.filled = 0
  \/ Live(o) /\ d.status = "Canceled" /\ d.filled = c.filled
  \/ /\ Live(o) /\ d.filled \in c.filled + 1 .. Quantity(o)
     /\ d.status = IF d.filled = Quantity(o) THEN "Filled" ELSE "Accepted"

\* And what the counter does leaves true what the book knew.
LEMMA MovedOrderTrue ==
  ASSUME AccountInv, OrdersInv, NEW o \in Orders, CounterTrue(o), OrderTrue(o),
         AccountAside(o), MovedOrder(o)
  PROVE  CounterTrue(o)' /\ OrderTrue(o)'
<1>1. /\ book.orders[o] \in Order /\ counter[o] \in CounterOrder
      /\ State(o) # "Absent" => Quantity(o) \in Nat \ {0}
      /\ Quantity(o) \in Nat
  <2>1. records[o].intent.quantity \in Nat
    BY DEF AccountInv, SessionTypes, Record, Intent
  <2> QED BY <2>1, OrderKnown DEF Quantity
<1>2. counter[o].status # "None" => AtCounter(o) /\ Quantity(o) # 0
  BY <1>1 DEF CounterTrue, AtCounter, Unsent
<1>3. CounterTrue(o)'
  BY <1>1, <1>2
  DEF MovedOrder, AccountAside, CounterTrue, AtCounter, State, Quantity, Live, CounterOrder
<1>4. Live(o)' => Live(o)
  BY DEF MovedOrder, Live
<1>5. /\ counter[o].filled <= counter'[o].filled
      /\ ~Live(o) => counter'[o].status = counter[o].status
  BY <1>1 DEF MovedOrder, Live, CounterOrder
<1>6. OrderTrue(o)'
  <2>1. book.orders[o].reported \in Nat /\ counter[o].filled \in Nat /\ counter'[o].filled \in Nat
    BY <1>1, <1>5 DEF Order, CounterOrder, MovedOrder
  <2> QED BY <1>4, <1>5, <2>1
    DEF AccountAside, OrderTrue, AtCounter, State, Status, Quantity, Live
<1> QED BY <1>3, <1>6

-----------------------------------------------------------------------------
(* Trades at the counter and in the book *)

\* The trades of an order the book has, and those the counter executed
Recorded(o) == {t \in book.trades : t.id = o}
\* The trades of an order that the counter executed
Executed(o) == {t \in Range(executed) : t.id = o}

\* The book and the messages have executed trades only, and what is accounted
\* or filled of an order is the volume of its trades.
TradesTrue ==
  /\ executed \in Seq(Trade)
  /\ \A t \in Range(executed) : t.quantity > 0 /\ t.key[2] <= counter[t.id].filled
  /\ book.trades \subseteq Range(executed) /\ Range(trades) \subseteq Range(executed)
  /\ \A o \in Orders : /\ Accounted(o) = Volume(Recorded(o))
                       /\ counter[o].filled = Volume(Executed(o))

\* Both hold of every order.
OrderFacts == \A o \in Orders : CounterTrue(o) /\ OrderTrue(o)

\* The trades of an order are finitely many, and the book has some of those executed.
LEMMA TradesCounted ==
  ASSUME TradesTrue
  PROVE  /\ Range(executed) \subseteq Trade /\ IsFiniteSet(Range(executed))
         /\ \A o : /\ IsFiniteSet(Executed(o)) /\ Executed(o) \subseteq Trade
                   /\ IsFiniteSet(Recorded(o)) /\ Recorded(o) \subseteq Executed(o)
         /\ \A t \in Trade : /\ t.id \in Orders /\ t.quantity \in Nat /\ t \in TradeReport
                             /\ t.key[2] \in Nat
<1>1. executed \in Seq(Trade) /\ Len(executed) \in Nat /\ DOMAIN executed = 1 .. Len(executed)
  BY DEF TradesTrue
<1>2. Range(executed) \subseteq Trade
  BY <1>1 DEF Range
<1>3. IsFiniteSet(Range(executed))
  <2>1. IsFiniteSet(1 .. Len(executed))
    BY <1>1, FS_Interval
  <2>2. executed \in Surjection(1 .. Len(executed), Range(executed))
    BY <1>1 DEF Range, Surjection
  <2> QED BY <2>1, <2>2, FS_Surjection
<1>4. ASSUME NEW o
      PROVE  /\ IsFiniteSet(Executed(o)) /\ Executed(o) \subseteq Trade
             /\ IsFiniteSet(Recorded(o)) /\ Recorded(o) \subseteq Executed(o)
  <2>1. Executed(o) \subseteq Range(executed) /\ Recorded(o) \subseteq Executed(o)
    BY DEF TradesTrue, Executed, Recorded
  <2>2. Recorded(o) \subseteq Range(executed)
    BY <2>1
  <2> QED BY <1>2, <1>3, <2>1, <2>2, FS_Subset
<1>5. ASSUME NEW t \in Trade
      PROVE  t.id \in Orders /\ t.quantity \in Nat /\ t \in TradeReport /\ t.key[2] \in Nat
  BY TradeFacts DEF Trade
<1> QED BY <1>2, <1>3, <1>4, <1>5

\* What a trade of the counter teaches the book
Learns(c, t) ==
  /\ t \notin book.trades /\ c.trades = book.trades \cup {t}
  /\ Fills(book.orders[t.id], c.orders[t.id], t)
  /\ c.orders[t.id].accounted = Volume(Recorded(t.id) \cup {t})
  /\ c.orders[t.id].accounted <= counter[t.id].filled

\* A trade that was executed enters the book once, or teaches it nothing.
LEMMA TradeBooked ==
  ASSUME AccountInv, TradesTrue, NEW t \in Range(executed)
  PROVE  LET result == ApplyTrade(book, t)
             c == result.book IN
         /\ \A p \in Orders \ {t.id} : SameOrder(book.orders[p], c.orders[p])
         /\ \/ SameBook(book, c, {}) /\ (~result.reconcile => t \in book.trades)
            \/ /\ Learns(c, t)
               /\ ~result.reconcile =>
                    /\ ~Overcloses(book.positions[t.instrument], t)
                    /\ c.positions = RecordTrade(book, t).positions
<1> DEFINE result == ApplyTrade(book, t)
           c == result.book
<1>1. t \in Trade /\ t \in TradeReport /\ t.id \in Orders /\ t.quantity \in Nat
  BY TradesCounted
<1>2. /\ \A p \in Orders \ {t.id} : SameOrder(book.orders[p], c.orders[p])
      /\ \/ SameBook(book, c, {}) /\ (~result.reconcile => t \in book.trades)
         \/ /\ SameKey(book, t) = {} /\ Fills(book.orders[t.id], c.orders[t.id], t)
            /\ c.trades = book.trades \cup {t}
            /\ ~result.reconcile =>
                 ~Overcloses(book.positions[t.instrument], t) /\ c = RecordTrade(book, t)
  BY <1>1, TradeTaken DEF AccountInv, SessionTypes
<1> HIDE DEF result
<1>3. ASSUME SameKey(book, t) = {}, Fills(book.orders[t.id], c.orders[t.id], t),
             c.trades = book.trades \cup {t}
      PROVE  Learns(c, t)
  <2>1. t \notin book.trades
    BY <1>3 DEF SameKey
  <2>2. /\ IsFiniteSet(Recorded(t.id)) /\ Recorded(t.id) \subseteq Trade
        /\ t \notin Recorded(t.id)
    BY <2>1, TradesCounted DEF Recorded
  <2>3. Volume(Recorded(t.id) \cup {t}) = Volume(Recorded(t.id)) + t.quantity
    BY <1>1, <2>2, VolumeAdds
  <2>4. c.orders[t.id].accounted = Volume(Recorded(t.id) \cup {t})
    BY <1>1, <1>3, <2>3 DEF Fills, TradesTrue, Accounted
  <2>5. /\ IsFiniteSet(Executed(t.id)) /\ Executed(t.id) \subseteq Trade
        /\ Recorded(t.id) \cup {t} \subseteq Executed(t.id)
    BY TradesCounted DEF Executed
  <2>6. Volume(Recorded(t.id) \cup {t}) <= Volume(Executed(t.id))
    BY <2>5, VolumeGrows
  <2>7. counter[t.id].filled = Volume(Executed(t.id))
    BY <1>1 DEF TradesTrue
  <2> QED BY <1>3, <2>1, <2>4, <2>6, <2>7 DEF Learns
<1> QED BY <1>2, <1>3 DEF result

\* The trades stay true in a step that executes and records none,
LEMMA TradesTrueKept ==
  ASSUME AccountInv, TradesTrue, AccountInv', executed' = executed, book'.trades = book.trades,
         Range(trades') \subseteq Range(executed),
         \A o \in Orders : Accounted(o)' = Accounted(o) /\ counter'[o].filled = counter[o].filled
  PROVE  TradesTrue'
<1>1. \A o \in Orders : Recorded(o)' = Recorded(o) /\ Executed(o)' = Executed(o)
  BY DEF Recorded, Executed
<1>2. \A t \in Range(executed) : t.id \in Orders
  BY TradesCounted
<1>3. \A S : Volume(S)' = Volume(S)
  BY DEF Volume, Weight
<1> QED BY <1>1, <1>2, <1>3 DEF TradesTrue

\* in one that records a trade executed before,
LEMMA TradesTrueLearnt ==
  ASSUME AccountInv, TradesTrue, executed' = executed, NEW t \in Range(executed),
         Learns(book', t), \A p \in Orders \ {t.id} : Accounted(p)' = Accounted(p),
         Range(trades') \subseteq Range(executed),
         \A o \in Orders : counter'[o].filled = counter[o].filled
  PROVE  TradesTrue'
<1>1. \A o \in Orders : Executed(o)' = Executed(o)
  BY DEF Executed
<1>2. \A o \in Orders : Recorded(o)' = IF o = t.id THEN Recorded(o) \cup {t} ELSE Recorded(o)
  BY DEF Recorded, Learns
<1>3. \A u \in Range(executed) : u.id \in Orders
  BY TradesCounted
<1>4. \A o \in Orders : Accounted(o)' = Volume(Recorded(o)')
  BY <1>2, <1>3 DEF TradesTrue, Learns, Accounted
<1>5. book'.trades \subseteq Range(executed)
  BY DEF TradesTrue, Learns
<1> QED BY <1>1, <1>3, <1>4, <1>5 DEF TradesTrue, Volume, Weight

\* The trade of a fill
FilledBy(o, t) ==
  /\ executed' = Append(executed, t) /\ trades' = Append(trades, t)
  /\ t \in Trade /\ t.id = o /\ t.instrument = Instrument
  /\ t.direction = records[o].intent.direction /\ t.offset = records[o].intent.offset
  /\ t.key[2] = counter'[o].filled /\ t.quantity > 0
  /\ counter'[o].filled = counter[o].filled + t.quantity
  /\ \A p \in Orders \ {o} : counter'[p].filled = counter[p].filled

\* An element appended is the one that is new.
LEMMA RangeAppend ==
  ASSUME NEW R, NEW s \in Seq(R), NEW x
  PROVE  Range(Append(s, x)) = Range(s) \cup {x}
<1>1. /\ DOMAIN Append(s, x) = 1 .. Len(s) + 1 /\ DOMAIN s = 1 .. Len(s) /\ Len(s) \in Nat
      /\ \A i \in 1 .. Len(s) : Append(s, x)[i] = s[i]
      /\ Append(s, x)[Len(s) + 1] = x
  OBVIOUS
<1>2. 1 .. Len(s) + 1 = (1 .. Len(s)) \cup {Len(s) + 1}
  BY <1>1
<1> QED BY <1>1, <1>2 DEF Range

\* and in one that executes a trade.
LEMMA TradesTrueFilled ==
  ASSUME AccountInv, TradesTrue, book' = book, NEW o \in Orders, NEW t, FilledBy(o, t)
  PROVE  TradesTrue'
<1>0. trades \in Seq(Trade) /\ executed \in Seq(Trade)
  BY DEF AccountInv, SessionTypes, TradesTrue
<1>1. Range(executed') = Range(executed) \cup {t} /\ Range(trades') = Range(trades) \cup {t}
  BY <1>0, RangeAppend DEF FilledBy
<1>2. executed' \in Seq(Trade)
  BY <1>0 DEF FilledBy
<1>3. /\ counter[o].filled \in Nat /\ t.quantity \in Nat /\ t.quantity > 0
      /\ counter'[o].filled = counter[o].filled + t.quantity
      /\ t.key[2] = counter'[o].filled /\ t.id = o /\ t \in Trade
  BY TradesCounted DEF FilledBy, AccountInv, SessionTypes, CounterOrder
<1>4. \A u \in Range(executed) : u.id \in Orders /\ u.key[2] \in Nat /\ u.key[2] <= counter[u.id].filled
  BY TradesCounted DEF TradesTrue
<1>5. ASSUME NEW u \in Range(executed)
      PROVE  u.key[2] <= counter'[u.id].filled
  <2>1. CASE u.id = o
    BY <1>3, <1>4, <2>1
  <2>2. CASE u.id # o
    BY <1>4, <2>2 DEF FilledBy
  <2> QED BY <2>1, <2>2
<1>6. \A u \in Range(executed') : u.quantity > 0 /\ u.key[2] <= counter'[u.id].filled
  BY <1>1, <1>3, <1>5 DEF TradesTrue
<1>7. t \notin Executed(o)
  BY <1>3, <1>4 DEF Executed
<1>8. Executed(o)' = Executed(o) \cup {t} /\ \A p \in Orders \ {o} : Executed(p)' = Executed(p)
  BY <1>1, <1>3 DEF Executed
<1>9. Volume(Executed(o) \cup {t}) = Volume(Executed(o)) + t.quantity
  BY <1>3, <1>7, TradesCounted, VolumeAdds
<1>10. \A p \in Orders : counter'[p].filled = Volume(Executed(p)')
  BY <1>3, <1>8, <1>9 DEF TradesTrue, FilledBy
<1>11. \A p \in Orders : Accounted(p)' = Volume(Recorded(p)')
  BY DEF TradesTrue, Accounted, Recorded
<1> QED BY <1>1, <1>2, <1>6, <1>10, <1>11 DEF TradesTrue, Volume, Weight

-----------------------------------------------------------------------------
(* What a step does to the orders and to the trades *)

\* What a step may do to an order: leave it, enter it, tell the account of it,
\* or change it at the counter.
OrderMoves(o) ==
  \/ KeptOrder(o)
  \/ EnteredOrder(o)
  \/ \E r \in OrderReport : ToldOrder(o, r)
  \/ \E t \in TradeReport : TradedOrder(o, t)
  \/ AccountAside(o) /\ MovedOrder(o)

\* The counter fills nothing.
SameFills == \A o \in Orders : counter'[o].filled = counter[o].filled
\* Only this order gets lots accounted.
OthersAccounted(id) == \A o \in Orders \ {id} : Accounted(o)' = Accounted(o)

\* What a step may do to the trades: leave them as they are,
LotsKept ==
  /\ executed' = executed /\ Range(trades') \subseteq Range(executed)
  /\ book'.trades = book.trades
  /\ \A o \in Orders : Accounted(o)' = Accounted(o) /\ counter'[o].filled = counter[o].filled
\* record one that was executed,
LotsLearnt(t) ==
  /\ executed' = executed /\ Range(trades') \subseteq Range(executed)
  /\ t \in Range(executed) /\ Learns(book', t)
  /\ OthersAccounted(t.id) /\ SameFills
\* or execute one, and close no more than is open.
LotsFilled(o, t) ==
  /\ FilledBy(o, t) /\ book' = book /\ records' = records
  /\ t.offset = "Close" => t.quantity <= OpenLots(Opposite(t.direction))
\* One of the three
LotsMove ==
  \/ LotsKept \/ (\E t : LotsLearnt(t)) \/ (\E o \in Orders : \E t : LotsFilled(o, t))

\* What is true of the orders stays true, whatever a step does to them.
LEMMA OrderFactsStay ==
  ASSUME AccountInv, OrdersInv, AccountInv', OrdersInv', OrderFacts,
         \A o \in Orders : OrderMoves(o)
  PROVE  OrderFacts'
<1> SUFFICES ASSUME NEW o \in Orders PROVE CounterTrue(o)' /\ OrderTrue(o)'
  BY DEF OrderFacts
<1>1. CounterTrue(o) /\ OrderTrue(o)
  BY DEF OrderFacts
<1>2. CASE KeptOrder(o)
  BY <1>1, <1>2, KeptOrderTrue
<1>3. CASE EnteredOrder(o)
  BY <1>1, <1>3, EnteredOrderTrue
<1>4. CASE \E r \in OrderReport : ToldOrder(o, r)
  BY <1>1, <1>4, ToldOrderTrue
<1>5. CASE \E t \in TradeReport : TradedOrder(o, t)
  BY <1>1, <1>5, TradedOrderTrue
<1>6. CASE AccountAside(o) /\ MovedOrder(o)
  BY <1>1, <1>6, MovedOrderTrue
<1> QED BY <1>2, <1>3, <1>4, <1>5, <1>6 DEF OrderMoves

\* An intent that is not there yet has no lots.
IntentsStay ==
  \A o \in Orders :
    \/ records'[o].intent = records[o].intent
    \/ Accounted(o) = 0 /\ counter[o].filled = 0

\* An order has its intent before it has lots, and keeps it.
LEMMA IntentsAreKept ==
  ASSUME OrderFacts, \A o \in Orders : OrderMoves(o)
  PROVE  IntentsStay
<1> SUFFICES ASSUME NEW o \in Orders
             PROVE  \/ records'[o].intent = records[o].intent
                    \/ Accounted(o) = 0 /\ counter[o].filled = 0
  BY DEF IntentsStay
<1>1. CASE EnteredOrder(o)
  BY <1>1 DEF EnteredOrder, OrderFacts, CounterTrue, Status
<1>2. CASE ~EnteredOrder(o)
  BY <1>2 DEF OrderMoves, KeptOrder, ToldOrder, TradedOrder, SlotAfter, AccountAside
<1> QED BY <1>1, <1>2

\* What is true of the trades stays true, too.
LEMMA TradesTrueStay ==
  ASSUME AccountInv, AccountInv', TradesTrue, LotsMove
  PROVE  TradesTrue'
<1>1. CASE LotsKept
  BY <1>1, TradesTrueKept DEF LotsKept
<1>2. CASE \E t : LotsLearnt(t)
  BY <1>2, TradesTrueLearnt DEF LotsLearnt, OthersAccounted, SameFills
<1>3. CASE \E o \in Orders : \E t : LotsFilled(o, t)
  BY <1>3, TradesTrueFilled DEF LotsFilled
<1> QED BY <1>1, <1>2, <1>3 DEF LotsMove

\* The counter closes no more than it has open.
NotOversold == \A direction \in Directions : AtMarket(direction) >= 0

\* The counter fills no order that the account does not know.
LEMMA NotFilledUnknown ==
  ASSUME AccountInv, OrdersInv, OrderFacts
  PROVE  \A o \in Orders \ Records : counter[o].filled = 0
BY DEF OrdersInv, OnlyRecords, OrderFacts, CounterTrue

\* What is open is a number,
LEMMA MarketIsNumber ==
  ASSUME AccountInv, NEW direction
  PROVE  AtMarket(direction) \in Int /\ Booked(direction) \in Int
BY KnownTypes, AmountType DEF AtMarket, Booked

\* the same while nothing is filled,
LEMMA MarketKept ==
  ASSUME AccountInv, AccountInv', IntentsStay, SameFills, NEW direction
  PROVE  AtMarket(direction)' = AtMarket(direction)
<1> DEFINE later == Intents'
           more == Filled'
<1>1. \A o \in Orders : Filled[o] \in Int
  BY KnownTypes
<1>2. \A o \in Orders : /\ more[o] = Filled[o]
                        /\ later[o] = Intents[o] \/ Filled[o] = 0
  BY DEF SameFills, IntentsStay, Filled, Intents
<1>3. AtMarket(direction)' = Amount(later, direction, more)
  BY DEF AtMarket, Amount, Amounts
<1> HIDE DEF later, more
<1> QED BY <1>1, <1>2, <1>3, AmountSame DEF AtMarket

\* and changed by the lots of a trade.
LEMMA MarketFilled ==
  ASSUME AccountInv, AccountInv', records' = records, NEW o \in Orders, NEW t,
         FilledBy(o, t), NEW direction
  PROVE  AtMarket(direction)'
           = AtMarket(direction) + Term(records[o].intent, direction, t.quantity)
<1> DEFINE later == Intents'
           more == Filled'
<1>1. t.quantity \in Int
  BY TradeFacts DEF FilledBy
<1>2. \A p \in Orders : Filled[p] \in Int /\ later[p] = Intents[p]
  BY KnownTypes DEF Intents
<1>3. (\A p \in Orders \ {o} : more[p] = Filled[p]) /\ more[o] = Filled[o] + t.quantity
  BY DEF FilledBy, Filled
<1>4. AtMarket(direction)' = Amount(later, direction, more)
  BY DEF AtMarket, Amount, Amounts
<1>5. Intents[o] = records[o].intent
  BY DEF Intents
<1> HIDE DEF later, more
<1>6. Amount(later, direction, more)
        = Amount(Intents, direction, Filled) + Term(Intents[o], direction, t.quantity)
  BY <1>1, <1>2, <1>3, AmountMore
<1> QED BY <1>4, <1>5, <1>6 DEF AtMarket

\* Nothing is ever sold that was not bought.
LEMMA NotOversoldStays ==
  ASSUME AccountInv, AccountInv', OrdersInv, OrderFacts, TradesTrue, NotOversold,
         IntentsStay, LotsMove
  PROVE  NotOversold'
<1> SUFFICES ASSUME NEW direction \in Directions PROVE AtMarket(direction)' >= 0
  BY DEF NotOversold
<1>1. AtMarket(direction) >= 0 /\ AtMarket(direction) \in Int
  BY MarketIsNumber DEF NotOversold
<1>2. CASE SameFills
  BY <1>1, <1>2, MarketKept
<1>3. CASE \E o \in Orders : \E t : LotsFilled(o, t)
  <2>1. PICK o \in Orders : \E t : LotsFilled(o, t)
    BY <1>3
  <2>0. PICK t : LotsFilled(o, t)
    BY <2>1
  <2>2. /\ t.quantity \in Int /\ t.quantity > 0
        /\ t.direction = records[o].intent.direction /\ t.offset = records[o].intent.offset
    BY <2>0, TradeFacts DEF LotsFilled, FilledBy
  <2>3. AtMarket(direction)' = AtMarket(direction) + Term(records[o].intent, direction, t.quantity)
    BY <2>0, MarketFilled DEF LotsFilled
  <2>4. records[o].intent.direction \in Directions
    BY DEF AccountInv, SessionTypes, Record, Intent
  <2>5. CASE t.offset = "Close" /\ t.direction # direction
    <3>1. Opposite(t.direction) = direction
      BY <2>2, <2>4, <2>5 DEF Opposite, Directions
    <3>2. t.quantity <= OpenLots(direction)
      BY <2>0, <2>5, <3>1 DEF LotsFilled
    <3>3. OpenLots(direction) = AtMarket(direction)
      BY OpenLotsIsAmount, NotFilledUnknown
    <3>4. Term(records[o].intent, direction, t.quantity) = -t.quantity
      BY <2>2, <2>5 DEF Term
    <3> QED BY <1>1, <2>2, <2>3, <3>2, <3>3, <3>4
  <2>6. CASE ~(t.offset = "Close" /\ t.direction # direction)
    <3>1. Term(records[o].intent, direction, t.quantity) \in {t.quantity, 0}
      BY <2>2, <2>6 DEF Term
    <3> QED BY <1>1, <2>2, <2>3, <3>1
  <2> QED BY <2>5, <2>6
<1> QED BY <1>2, <1>3 DEF LotsMove, LotsKept, LotsLearnt, SameFills

\* What the counter says is true.
MessagesTrue == \A i \in DOMAIN reports : TrueReport(reports[i])

-----------------------------------------------------------------------------
(* The steps of a session, and what they do to orders, trades and messages *)

\* The steps of the session keep what SessionProofs says of the account.
LEMMA SessionPart ==
  ASSUME AccountInv, Thawed, OrdersInv, UNCHANGED plan,
         Call \/ ReceivePushedReport \/ ReceivePushedTrade \/ CounterActs
  PROVE  AccountInv' /\ Thawed' /\ OrdersInv' /\ (frozen => frozen')
<1>1. [Next]_vars
  BY DEF Call, ReceivePushedReport, ReceivePushedTrade, CounterActs, Next
<1> QED BY <1>1, SessionNextInv, OrdersStep, StepKinds DEF InvStays

\* A queue of which the last or the first message is gone, or all are, has no other.
LEMMA PartOf ==
  ASSUME NEW R, NEW t \in Seq(R), NEW s,
         s \in {<<>>, t} \/ (t # <<>> /\ s \in {Tail(t), Front(t)})
  PROVE  /\ s \in Seq(R) /\ Range(s) \subseteq Range(t)
         /\ \A j \in DOMAIN s : \E i \in DOMAIN t : s[j] = t[i]
<1>1. s \in Seq(R) /\ \A j \in DOMAIN s : \E i \in DOMAIN t : s[j] = t[i]
  <2>0. CASE s = <<>>
    <3>1. s \in Seq(R) /\ DOMAIN s = {}
      BY <2>0
    <3> QED BY <3>1
  <2>1. CASE s = t
    BY <2>1
  <2>2. CASE t # <<>> /\ s = Tail(t)
    <3>1. /\ Len(t) \in Nat \ {0} /\ DOMAIN t = 1 .. Len(t) /\ Tail(t) \in Seq(R)
          /\ DOMAIN Tail(t) = 1 .. Len(t) - 1
          /\ \A j \in 1 .. Len(t) - 1 : Tail(t)[j] = t[j + 1]
      BY <2>2, HeadTailProperties
    <3>2. \A j \in 1 .. Len(t) - 1 : j + 1 \in DOMAIN t
      BY <3>1
    <3>3. \A j \in DOMAIN s : j \in 1 .. Len(t) - 1 /\ s[j] = t[j + 1]
      BY <2>2, <3>1
    <3>4. \A j \in DOMAIN s : \E i \in DOMAIN t : s[j] = t[i]
      BY <3>2, <3>3
    <3> QED BY <2>2, <3>1, <3>4
  <2>3. CASE t # <<>> /\ s = Front(t)
    <3>1. s \in Seq(R)
      BY <2>3 DEF Front
    <3>2. \A j \in DOMAIN s : j \in DOMAIN t /\ s[j] = t[j]
      BY <2>3 DEF Front
    <3> QED BY <3>1, <3>2
  <2> QED BY <2>0, <2>1, <2>2, <2>3
<1> QED BY <1>1 DEF Range

\* The messages stay true when only true ones are added.
LEMMA MessagesStay ==
  ASSUME AccountInv, AccountInv', Forward, MessagesTrue,
         \A j \in DOMAIN reports' : \/ \E i \in DOMAIN reports : reports'[j] = reports[i]
                                    \/ \E m : reports'[j] = m /\ TrueReport(m)'
  PROVE  MessagesTrue'
<1>1. ASSUME NEW j \in DOMAIN reports' PROVE \E m : reports'[j] = m /\ TrueReport(m)'
  <2>1. CASE \E i \in DOMAIN reports : reports'[j] = reports[i]
    <3>1. PICK i \in DOMAIN reports : reports'[j] = reports[i]
      BY <2>1
    <3>2. PICK r : r = reports[i]
      OBVIOUS
    <3>3. r \in Message /\ TrueReport(r)
      BY <3>2 DEF MessagesTrue, AccountInv, SessionTypes
    <3>4. r.id \in Orders /\ r.cum \in Int
      BY <3>3 DEF Message
    <3>5. TrueReport(r)'
      BY <3>3, <3>4, TruthStays
    <3> QED BY <3>1, <3>2, <3>5
  <2> QED BY <2>1
<1> QED BY <1>1 DEF MessagesTrue

\* What one step of the counter does
LEMMA CounterTells ==
  ASSUME AccountInv, OrdersInv, OrderFacts, NEW o \in Orders, CounterStep(o)
  PROVE  /\ \A p \in Orders \ {o} : counter'[p] = counter[p]
         /\ MovedOrder(o) /\ (Status(o)' = "None" => Status(o) = "None")
         /\ UNCHANGED account
         /\ \E m : /\ reports' = Append(reports, m) /\ m.id = o /\ TrueReport(m)'
                   /\ Ended(o)' /\ ~Ended(o) => m.type \in EndTypes
         /\ \/ trades' = trades /\ counter'[o].filled = counter[o].filled
            \/ \E t \in Trade :
                 /\ trades' = Append(trades, t) /\ t.id = o /\ t.instrument = Instrument
                 /\ t.direction = records[o].intent.direction
                 /\ t.offset = records[o].intent.offset
                 /\ t.key[2] = counter'[o].filled /\ t.quantity > 0
                 /\ counter'[o].filled = counter[o].filled + t.quantity
                 /\ t.offset = "Close" => t.quantity <= OpenLots(Opposite(t.direction))
<1>1. /\ counter \in [Orders -> CounterOrder] /\ records \in [Orders -> Record]
      /\ reports \in Seq(Message) /\ trades \in Seq(Trade) /\ CounterTrue(o)
      /\ counter[o] \in CounterOrder /\ counter[o].filled \in Nat
  BY DEF AccountInv, SessionTypes, OrderFacts, CounterOrder
<1>2. CASE CounterAccept(o)
  <2>0. PICK m : m = Report(o, "Order", "Accepted", counter[o].filled)
    OBVIOUS
  <2>1. /\ reports' = Append(reports, m) /\ trades' = trades /\ UNCHANGED account
        /\ counter' = [counter EXCEPT ![o].status = "Accepted"]
        /\ counter[o].status = "Live"
    BY <1>2, <2>0 DEF CounterAccept, Send
  <2>2. /\ \A p \in Orders \ {o} : counter'[p] = counter[p]
        /\ counter'[o].status = "Accepted" /\ counter'[o].filled = counter[o].filled
    BY <1>1, <2>1 DEF CounterOrder
  <2>3. MovedOrder(o) /\ ~Ended(o)'
    BY <2>1, <2>2 DEF MovedOrder, Ended, Status, EndTypes
  <2>4. m.id = o /\ TrueReport(m)'
    BY <1>1, <2>0, <2>2 DEF Report, TrueReport, EndTypes
  <2> QED BY <2>1, <2>2, <2>3, <2>4 DEF Status
<1>3. CASE CounterReject(o)
  <2>0. PICK m : m = Report(o, "Order", "Rejected", 0)
    OBVIOUS
  <2>1. /\ reports' = Append(reports, m) /\ trades' = trades /\ UNCHANGED account
        /\ counter' = [counter EXCEPT ![o].status = "Rejected", ![o].asked = FALSE]
        /\ Live(o) /\ counter[o].filled = 0
    BY <1>3, <2>0 DEF CounterReject, Send
  <2>2. /\ \A p \in Orders \ {o} : counter'[p] = counter[p]
        /\ counter'[o].status = "Rejected" /\ counter'[o].filled = counter[o].filled
    BY <1>1, <2>1 DEF CounterOrder
  <2>3. MovedOrder(o)
    BY <2>1, <2>2 DEF MovedOrder
  <2>4. m.id = o /\ TrueReport(m)' /\ m.type \in EndTypes
    BY <1>1, <2>0, <2>1, <2>2 DEF Report, TrueReport, EndTypes, Status
  <2> QED BY <2>1, <2>2, <2>3, <2>4 DEF Status
<1>4. CASE CounterCancel(o)
  <2>0. PICK m : m = Report(o, "Order", "Canceled", counter[o].filled)
    OBVIOUS
  <2>1. /\ reports' = Append(reports, m) /\ trades' = trades /\ UNCHANGED account
        /\ counter' = [counter EXCEPT ![o].status = "Canceled", ![o].asked = FALSE]
        /\ Live(o)
    BY <1>4, <2>0 DEF CounterCancel, Send
  <2>2. /\ \A p \in Orders \ {o} : counter'[p] = counter[p]
        /\ counter'[o].status = "Canceled" /\ counter'[o].filled = counter[o].filled
    BY <1>1, <2>1 DEF CounterOrder
  <2>3. MovedOrder(o)
    BY <2>1, <2>2 DEF MovedOrder
  <2>4. m.id = o /\ TrueReport(m)' /\ m.type \in EndTypes
    BY <1>1, <2>0, <2>1, <2>2 DEF Report, TrueReport, EndTypes, Status
  <2> QED BY <2>1, <2>2, <2>3, <2>4 DEF Status
<1>5. CASE CounterRefuse(o)
  <2>1. PICK m \in {Report(o, "CancelResponse", "CancelRejected", 0),
                    Report(o, "Order", "CancelRejected", counter[o].filled)} :
          reports' = Append(reports, m)
    BY <1>5 DEF CounterRefuse, Send
  <2>2. /\ trades' = trades /\ UNCHANGED account /\ counter[o].asked
        /\ counter' = [counter EXCEPT ![o].asked = FALSE]
    BY <1>5 DEF CounterRefuse
  <2>3. /\ \A p \in Orders \ {o} : counter'[p] = counter[p]
        /\ counter'[o].status = counter[o].status /\ counter'[o].filled = counter[o].filled
    BY <1>1, <2>2 DEF CounterOrder
  <2>4. MovedOrder(o) /\ (Ended(o)' => Ended(o))
    BY <2>3 DEF MovedOrder, Ended, Status
  <2>5. m.id = o /\ TrueReport(m)'
    BY <1>1, <2>1, <2>3 DEF Report, TrueReport, EndTypes
  <2> QED BY <2>1, <2>2, <2>3, <2>4, <2>5 DEF Status
<1>6. CASE CounterFill(o)
  <2>1. PICK cum \in (counter[o].filled + 1) .. Quantity(o) :
          LET full == cum = Quantity(o)
              volume == cum - counter[o].filled
              intent == records[o].intent IN
          /\ intent.offset = "Close" => volume <= OpenLots(Opposite(intent.direction))
          /\ Send(Report(o, "Order", IF full THEN "Filled" ELSE "PartiallyFilled", cum))
          /\ trades' = Append(trades,
                              [key |-> <<o, cum>>, id |-> o,
                               instrument |-> Instrument,
                               direction |-> intent.direction,
                               offset |-> intent.offset, quantity |-> volume])
          /\ counter' = [counter EXCEPT
                           ![o].filled = cum,
                           ![o].status = IF full THEN "Filled" ELSE "Accepted"]
    BY <1>6 DEF CounterFill
  <2>0. PICK m : m = Report(o, "Order", IF cum = Quantity(o) THEN "Filled" ELSE "PartiallyFilled", cum)
    OBVIOUS
  <2> DEFINE t == [key |-> <<o, cum>>, id |-> o, instrument |-> Instrument,
                   direction |-> records[o].intent.direction,
                   offset |-> records[o].intent.offset,
                   quantity |-> cum - counter[o].filled]
  <2>2. /\ Quantity(o) \in Nat /\ cum \in Nat /\ cum > counter[o].filled /\ cum <= Quantity(o)
        /\ records[o].intent.direction \in Directions /\ records[o].intent.offset \in Offsets
        /\ Instrument \in Instruments
    <3>1. records[o] \in Record
      BY <1>1
    <3>2. records[o].intent \in Intent
      BY <3>1 DEF Record
    <3>3. records[o].intent.quantity \in Nat
      BY <3>2 DEF Intent
    <3>4. Quantity(o) \in Nat
      BY <3>3 DEF Quantity
    <3>5. cum \in Nat /\ cum > counter[o].filled /\ cum <= Quantity(o)
      BY <1>1, <2>1, <3>4
    <3> QED BY <3>2, <3>4, <3>5, SessionAssumption DEF Intent
  <2>3. Live(o) /\ UNCHANGED account
    BY <1>6 DEF CounterFill
  <2>4. /\ \A p \in Orders \ {o} : counter'[p] = counter[p]
        /\ counter'[o].filled = cum
        /\ counter'[o].status = IF cum = Quantity(o) THEN "Filled" ELSE "Accepted"
    BY <1>1, <2>1 DEF CounterOrder
  <2>5. MovedOrder(o)
    BY <1>1, <2>2, <2>3, <2>4 DEF MovedOrder
  <2>6. /\ m.id = o /\ m.cum = cum
        /\ m.type = IF cum = Quantity(o) THEN "Filled" ELSE "PartiallyFilled"
        /\ reports' = Append(reports, m)
    BY <2>0, <2>1 DEF Report, Send
  <2>7. TrueReport(m)' /\ (Ended(o)' => m.type \in EndTypes)
    BY <2>2, <2>4, <2>6 DEF TrueReport, EndTypes, Status, Ended
  <2>8. /\ t.id = o /\ t.instrument = Instrument
        /\ t.direction = records[o].intent.direction /\ t.offset = records[o].intent.offset
        /\ t.key = <<o, cum>> /\ t.quantity = cum - counter[o].filled
    OBVIOUS
  <2>9. t \in Trade
    BY <1>1, <2>2 DEF Trade, TradeReport, TradeKeys
  <2>10. /\ trades' = Append(trades, t)
         /\ t.offset = "Close" => t.quantity <= OpenLots(Opposite(t.direction))
    BY <2>1
  <2> HIDE DEF t
  <2>11. /\ t.key[2] = counter'[o].filled /\ t.quantity > 0
         /\ counter'[o].filled = counter[o].filled + t.quantity
    BY <1>1, <2>2, <2>4, <2>8
  <2> QED BY <2>3, <2>4, <2>5, <2>6, <2>7, <2>8, <2>9, <2>10, <2>11 DEF Status
<1> QED BY <1>2, <1>3, <1>4, <1>5, <1>6 DEF CounterStep

-----------------------------------------------------------------------------
(* What every step does to orders, trades and messages *)

\* The part of the invariant that says what is true, whatever is on its way
TruthInv ==
  /\ AccountInv /\ Thawed /\ OrdersInv /\ AnswerInv /\ RowsInv /\ AskedInv
  /\ OrderFacts /\ MessagesTrue /\ TradesTrue /\ NotOversold

\* What every step of a recovery may do, and leaves true
StepTells ==
  /\ AccountInv' /\ OrdersInv' /\ Forward
  /\ \A o \in Orders : OrderMoves(o)
  /\ LotsMove /\ MessagesTrue'

\* The record of an order, but for what is left out of recovery here
SameRecord(o) ==
  /\ records'[o].occupied = records[o].occupied
  /\ records'[o].intent = records[o].intent
  /\ records'[o].activeOpen = records[o].activeOpen

\* An order of which record, book and counter keep their entries is kept.
LEMMA KeptAside ==
  ASSUME NEW o \in Orders, SameRecord(o), SameOrder(book.orders[o], book'.orders[o]),
         SameAtCounter(o)
  PROVE  KeptOrder(o)
BY DEF KeptOrder, SameRecord, SameOrder, SameAtCounter, State, Status

\* submit, cancel and the auto-close calls are steps of that kind,
LEMMA CallTellsAll ==
  ASSUME TruthInv, Call, UNCHANGED plan PROVE StepTells
<1>1. AccountInv' /\ OrdersInv'
  BY SessionPart DEF TruthInv
<1>2. /\ book'.trades = book.trades /\ \A o \in Orders : KeptOrder(o) \/ EnteredOrder(o)
      /\ UNCHANGED <<reports, trades>> /\ executed' = executed
  BY CallTells DEF TruthInv, Call, world
<1>3. \A o \in Orders : OrderMoves(o)
  BY <1>2 DEF OrderMoves
<1>4. ASSUME NEW o \in Orders
      PROVE  /\ counter[o].filled = counter'[o].filled /\ (Ended(o) => Status(o)' = Status(o))
             /\ Accounted(o)' = Accounted(o) /\ counter[o].filled \in Nat
  <2>1. counter[o].filled \in Nat
    BY DEF TruthInv, AccountInv, SessionTypes, CounterOrder
  <2>2. CASE KeptOrder(o)
    BY <2>1, <2>2 DEF KeptOrder, SameCounts, Accounted
  <2>3. CASE EnteredOrder(o)
    BY <2>1, <2>3 DEF EnteredOrder, Ended, EndTypes
  <2> QED BY <1>2, <2>2, <2>3
<1>5. Forward
  BY <1>2, <1>4 DEF Forward
<1>6. LotsKept
  BY <1>2, <1>4 DEF LotsKept, TruthInv, TradesTrue
<1>7. MessagesTrue'
  BY <1>1, <1>2, <1>5, MessagesStay DEF TruthInv
<1> QED BY <1>1, <1>3, <1>5, <1>6, <1>7 DEF StepTells, LotsMove

\* The counter goes on when it stands still.
LEMMA SameForward ==
  ASSUME AccountInv, executed' = executed, \A o \in Orders : SameAtCounter(o)
  PROVE  Forward
<1>1. \A o \in Orders : counter[o].filled \in Nat
  BY DEF AccountInv, SessionTypes, CounterOrder
<1> QED BY <1>1 DEF Forward, SameAtCounter

\* A report of the order o applied to the book, and the record after it
LEMMA ReportApplied ==
  ASSUME TruthInv, NEW r \in OrderReport, TrueReport(r),
         book' = ApplyOrderReport(book, r).book, counter' = counter,
         \A p \in Orders \ {r.id} : SameRecord(p),
         SlotAfter(r.id)
  PROVE  /\ ToldOrder(r.id, r)
         /\ \A p \in Orders \ {r.id} : KeptOrder(p)
         /\ \A o \in Orders : OrderMoves(o)
         /\ book'.trades = book.trades /\ book'.positions = book.positions
         /\ \A o \in Orders : Accounted(o)' = Accounted(o)
<1>1. /\ r.id \in Orders
      /\ SameBook(book, book', {r.id})
      /\ \/ SameOrder(book.orders[r.id], book'.orders[r.id])
         \/ Merged(book.orders[r.id], book'.orders[r.id], r)
  BY ReportTaken DEF TruthInv, AccountInv, SessionTypes, OrderReport
<1>2. \A p \in Orders : SameAtCounter(p)
  BY DEF SameAtCounter, Status
<1>3. ToldOrder(r.id, r)
  BY <1>1, <1>2 DEF ToldOrder
<1>4. \A p \in Orders \ {r.id} : KeptOrder(p)
  BY <1>1, <1>2, KeptAside DEF SameBook
<1>5. \A o \in Orders : OrderMoves(o)
  BY <1>3, <1>4 DEF OrderMoves
<1>6. \A o \in Orders : Accounted(o)' = Accounted(o)
  BY <1>3, <1>4 DEF ToldOrder, KeptOrder, SameOrder, SameCounts, Merged, Merges, Accounted
<1> QED BY <1>1, <1>3, <1>4, <1>5, <1>6 DEF SameBook

\* A slot is released for the order of a message alone, and only at its end.
LEMMA ReleasedSlots ==
  ASSUME AccountInv, NEW o \in Orders, NEW rs \in [Orders -> Record],
         \A p \in Orders : /\ rs[p].occupied = records[p].occupied
                           /\ rs[p].activeOpen = records[p].activeOpen
                           /\ rs[p].intent = records[p].intent,
         records' = Release(rs, book', o)
  PROVE  SlotAfter(o) /\ \A p \in Orders \ {o} : SameRecord(p)
<1>1. CASE rs[o].activeOpen /\ book'.orders[o].state \in Terminal
  <2>1. records' = [rs EXCEPT ![o].activeOpen = FALSE]
    BY <1>1 DEF Release
  <2>2. /\ \A p \in Orders \ {o} : records'[p] = rs[p]
        /\ records'[o].occupied = rs[o].occupied /\ records'[o].intent = rs[o].intent
        /\ records'[o].activeOpen = FALSE
    BY <2>1 DEF Record
  <2> QED BY <1>1, <2>2 DEF SlotAfter, SameRecord, State
<1>2. CASE ~(rs[o].activeOpen /\ book'.orders[o].state \in Terminal)
  <2>1. records' = rs
    BY <1>2 DEF Release
  <2> QED BY <2>1 DEF SlotAfter, SameRecord
<1> QED BY <1>1, <1>2

\* The report at hand is one of an order, and true.
LEMMA HeadReport ==
  ASSUME AccountInv, MessagesTrue, reports # <<>>
  PROVE  LET m == Head(reports)
             r == [id |-> m.id, type |-> m.type, cum |-> m.cum] IN
         /\ m \in Message /\ m.id \in Orders /\ r \in OrderReport /\ TrueReport(r)
         /\ r.id = m.id /\ r.type = m.type /\ r.cum = m.cum /\ m = reports[1]
<1>1. reports \in Seq(Message) /\ 1 \in DOMAIN reports /\ Head(reports) = reports[1]
  BY DEF AccountInv, SessionTypes
<1>2. PICK m : m = Head(reports)
  OBVIOUS
<1>3. m \in Message /\ TrueReport(m)
  BY <1>1, <1>2 DEF MessagesTrue
<1> QED BY <1>1, <1>2, <1>3 DEF Message, OrderReport, TrueReport

\* so is on_order,
LEMMA PushedReportTells ==
  ASSUME TruthInv, ReceivePushedReport, UNCHANGED plan
  PROVE  /\ StepTells /\ book'.trades = book.trades /\ book'.positions = book.positions
         /\ \E r \in OrderReport : /\ r.id = reports[1].id /\ r.type = reports[1].type
                                   /\ r.cum = reports[1].cum
                                   /\ ToldOrder(r.id, r)
                                   /\ \A p \in Orders \ {r.id} : KeptOrder(p)
                                   /\ book' = ApplyOrderReport(book, r).book
                                   /\ ReportResult(Head(reports)) = ApplyOrderReport(book, r)
                                   /\ records'[r.id].activeOpen => State(r.id)' \notin Terminal
<1>1. AccountInv' /\ OrdersInv'
  BY SessionPart DEF TruthInv
<1>2. PICK m : m = Head(reports)
  OBVIOUS
<1>3. PICK r : r = [id |-> m.id, type |-> m.type, cum |-> m.cum]
  OBVIOUS
<1> DEFINE response == m.kind = "CancelResponse"
           cleared == IF response THEN [records EXCEPT ![m.id].cancelRequested = FALSE]
                      ELSE records
<1>4. /\ reports # <<>> /\ reports' = Tail(reports)
      /\ book' = ApplyOrderReport(book, r).book /\ records' = Release(cleared, book', m.id)
      /\ UNCHANGED <<counter, trades, executed>>
      /\ ReportResult(Head(reports)) = ApplyOrderReport(book, r)
  BY <1>2, <1>3 DEF ReceivePushedReport, ReceiveReport, ReportResult, world
<1>5. /\ m.id \in Orders /\ r \in OrderReport /\ TrueReport(r) /\ m = reports[1]
      /\ r.id = m.id /\ r.type = m.type /\ r.cum = m.cum
  BY <1>2, <1>3, <1>4, HeadReport DEF TruthInv
<1>6. /\ cleared \in [Orders -> Record]
      /\ \A p \in Orders : /\ cleared[p].occupied = records[p].occupied
                           /\ cleared[p].activeOpen = records[p].activeOpen
                           /\ cleared[p].intent = records[p].intent
  BY <1>5 DEF TruthInv, AccountInv, SessionTypes, Record
<1> HIDE DEF cleared
<1>7. SlotAfter(m.id) /\ \A p \in Orders \ {m.id} : SameRecord(p)
  BY <1>4, <1>5, <1>6, ReleasedSlots DEF TruthInv
<1>8. /\ ToldOrder(r.id, r) /\ \A p \in Orders \ {r.id} : KeptOrder(p)
      /\ \A o \in Orders : OrderMoves(o) /\ Accounted(o)' = Accounted(o)
      /\ book'.trades = book.trades /\ book'.positions = book.positions
  BY <1>4, <1>5, <1>7, ReportApplied
<1>9. \A o \in Orders : SameAtCounter(o) /\ counter'[o].filled = counter[o].filled
  BY <1>4 DEF SameAtCounter, Status
<1>10. Forward
  BY <1>4, <1>9, SameForward DEF TruthInv
<1>11. LotsKept
  BY <1>4, <1>8, <1>9 DEF LotsKept, TruthInv, TradesTrue
<1>12. MessagesTrue'
  <2>1. reports \in Seq(Message)
    BY DEF TruthInv, AccountInv, SessionTypes
  <2>2. \A j \in DOMAIN reports' : \E i \in DOMAIN reports : reports'[j] = reports[i]
    BY <1>4, <2>1, PartOf
  <2> QED BY <1>1, <1>10, <2>2, MessagesStay DEF TruthInv
<1>13. records'[r.id].activeOpen => State(r.id)' \notin Terminal
  <2>1. CASE cleared[m.id].activeOpen /\ book'.orders[m.id].state \in Terminal
    BY <1>4, <1>5, <1>6, <2>1 DEF Release, Record
  <2>2. CASE ~(cleared[m.id].activeOpen /\ book'.orders[m.id].state \in Terminal)
    BY <1>4, <1>5, <2>2 DEF Release, State
  <2> QED BY <2>1, <2>2
<1> QED BY <1>1, <1>4, <1>5, <1>8, <1>10, <1>11, <1>12, <1>13 DEF StepTells, LotsMove

\* A trade applied to the book, whatever becomes of the positions then
LEMMA TradeApplied ==
  ASSUME TruthInv, NEW t \in Range(executed), NEW c, c = ApplyTrade(book, t).book,
         book'.orders = c.orders, book'.trades = c.trades,
         counter' = counter, executed' = executed,
         Range(trades') \subseteq Range(executed),
         SlotAfter(t.id), \A p \in Orders \ {t.id} : SameRecord(p)
  PROVE  /\ t \in Trade /\ t.id \in Orders
         /\ TradedOrder(t.id, t) /\ \A p \in Orders \ {t.id} : KeptOrder(p)
         /\ \A o \in Orders : OrderMoves(o) /\ SameAtCounter(o)
         /\ \/ LotsKept /\ SameBook(book, c, {}) /\ (~ApplyTrade(book, t).reconcile => t \in book.trades)
            \/ /\ LotsLearnt(t)
               /\ ~ApplyTrade(book, t).reconcile =>
                    /\ ~Overcloses(book.positions[t.instrument], t)
                    /\ c.positions = RecordTrade(book, t).positions
<1>1. t \in Trade /\ t \in TradeReport /\ t.id \in Orders
  BY TradesCounted DEF TruthInv
<1>2. /\ \A p \in Orders \ {t.id} : SameOrder(book.orders[p], c.orders[p])
      /\ \/ SameBook(book, c, {}) /\ (~ApplyTrade(book, t).reconcile => t \in book.trades)
         \/ /\ Learns(c, t)
            /\ ~ApplyTrade(book, t).reconcile =>
                 /\ ~Overcloses(book.positions[t.instrument], t)
                 /\ c.positions = RecordTrade(book, t).positions
  BY TradeBooked DEF TruthInv
<1>3. \A o \in Orders : SameAtCounter(o) /\ counter'[o].filled = counter[o].filled
  BY DEF SameAtCounter, Status
<1>4. \A p \in Orders \ {t.id} : KeptOrder(p)
  BY <1>2, <1>3, KeptAside
<1>5. CASE SameBook(book, c, {}) /\ (~ApplyTrade(book, t).reconcile => t \in book.trades)
  <2>1. SameOrder(book.orders[t.id], book'.orders[t.id])
    BY <1>1, <1>5 DEF SameBook
  <2>2. TradedOrder(t.id, t)
    BY <1>1, <1>3, <2>1 DEF TradedOrder
  <2>3. \A o \in Orders : Accounted(o)' = Accounted(o)
    BY <1>5 DEF SameBook, SameOrder, SameCounts, Accounted
  <2>4. LotsKept
    BY <1>3, <1>5, <2>3 DEF LotsKept, SameBook
  <2> QED BY <1>1, <1>3, <1>4, <1>5, <2>2, <2>4 DEF OrderMoves
<1>6. CASE Learns(c, t)
  <2>1. Learns(book', t)
    BY <1>6 DEF Learns
  <2>2. TradedOrder(t.id, t)
    BY <1>1, <1>3, <2>1 DEF TradedOrder, Learns, Accounted
  <2>3. OthersAccounted(t.id)
    BY <1>2 DEF OthersAccounted, SameOrder, SameCounts, Accounted
  <2>4. LotsLearnt(t)
    BY <1>3, <2>1, <2>3 DEF LotsLearnt, SameFills
  <2>5. \A o \in Orders : OrderMoves(o)
    BY <1>1, <1>4, <2>2 DEF OrderMoves
  <2>6. \/ SameBook(book, c, {}) /\ (~ApplyTrade(book, t).reconcile => t \in book.trades)
        \/ ~ApplyTrade(book, t).reconcile =>
             /\ ~Overcloses(book.positions[t.instrument], t)
             /\ c.positions = RecordTrade(book, t).positions
    BY <1>2
  <2>7. CASE ~ApplyTrade(book, t).reconcile =>
               /\ ~Overcloses(book.positions[t.instrument], t)
               /\ c.positions = RecordTrade(book, t).positions
    BY <1>1, <1>3, <1>4, <2>2, <2>4, <2>5, <2>7
  <2>8. CASE SameBook(book, c, {})
    BY <1>6, <2>8 DEF SameBook, Learns
  <2> QED BY <2>6, <2>7, <2>8
<1> QED BY <1>2, <1>5, <1>6

\* and so is on_trade.
LEMMA PushedTradeTells ==
  ASSUME TruthInv, ReceivePushedTrade, UNCHANGED plan
  PROVE  /\ StepTells
         /\ \E t \in Range(executed) :
              /\ t = Head(trades) /\ t \in Trade /\ t.id \in Orders
              /\ TradedOrder(t.id, t) /\ \A p \in Orders \ {t.id} : KeptOrder(p)
              /\ \/ /\ LotsKept /\ book'.positions = book.positions
                    /\ ~ApplyTrade(book, t).reconcile => t \in book.trades
                 \/ /\ LotsLearnt(t)
                    /\ ~ApplyTrade(book, t).reconcile =>
                         /\ ~Overcloses(book.positions[t.instrument], t)
                         /\ book'.positions = RecordTrade(book, t).positions
              /\ records'[t.id].activeOpen => State(t.id)' \notin Terminal
<1>1. AccountInv' /\ OrdersInv'
  BY SessionPart DEF TruthInv
<1>2. PICK t : t = Head(trades)
  OBVIOUS
<1>3. PICK c : c = ApplyTrade(book, t).book
  OBVIOUS
<1>4. /\ trades # <<>> /\ trades' = Tail(trades) /\ book' = c
      /\ records' = Release(records, book', t.id)
      /\ UNCHANGED <<counter, reports, executed>>
  BY <1>2, <1>3 DEF ReceivePushedTrade, ReceiveTrade, world
<1>5. /\ trades \in Seq(Trade) /\ reports \in Seq(Message) /\ records \in [Orders -> Record]
      /\ Range(trades) \subseteq Range(executed)
  BY DEF TruthInv, AccountInv, SessionTypes, TradesTrue
<1>6. t \in Range(executed)
  <2>1. 1 \in DOMAIN trades /\ t = trades[1]
    BY <1>2, <1>4, <1>5
  <2> QED BY <1>5, <2>1 DEF Range
<1>7. Range(trades') \subseteq Range(executed)
  BY <1>4, <1>5, PartOf
<1>8. t.id \in Orders
  BY <1>6, TradesCounted DEF TruthInv
<1>9. SlotAfter(t.id) /\ \A p \in Orders \ {t.id} : SameRecord(p)
  BY <1>4, <1>5, <1>8, ReleasedSlots DEF TruthInv
<1>10. /\ t \in Trade
       /\ TradedOrder(t.id, t) /\ \A p \in Orders \ {t.id} : KeptOrder(p)
       /\ \A o \in Orders : OrderMoves(o) /\ SameAtCounter(o)
       /\ \/ LotsKept /\ SameBook(book, c, {}) /\ (~ApplyTrade(book, t).reconcile => t \in book.trades)
          \/ /\ LotsLearnt(t)
             /\ ~ApplyTrade(book, t).reconcile =>
                  /\ ~Overcloses(book.positions[t.instrument], t)
                  /\ c.positions = RecordTrade(book, t).positions
  BY <1>3, <1>4, <1>6, <1>7, <1>9, TradeApplied
<1>11. Forward
  BY <1>4, <1>10, SameForward DEF TruthInv
<1>12. MessagesTrue'
  BY <1>1, <1>4, <1>11, MessagesStay DEF TruthInv
<1>13. LotsMove
  BY <1>10 DEF LotsMove
<1>14. records'[t.id].activeOpen => State(t.id)' \notin Terminal
  <2>1. CASE records[t.id].activeOpen /\ book'.orders[t.id].state \in Terminal
    BY <1>4, <1>5, <1>8, <2>1 DEF Release, Record
  <2>2. CASE ~(records[t.id].activeOpen /\ book'.orders[t.id].state \in Terminal)
    BY <1>4, <2>2 DEF Release, State
  <2> QED BY <2>1, <2>2
<1>15. SameBook(book, c, {}) => book'.positions = book.positions
  BY <1>4 DEF SameBook
<1>16. StepTells
  BY <1>1, <1>10, <1>11, <1>12, <1>13 DEF StepTells
<1>17. /\ TradedOrder(t.id, t) /\ \A p \in Orders \ {t.id} : KeptOrder(p)
       /\ \/ LotsKept /\ book'.positions = book.positions
             /\ (~ApplyTrade(book, t).reconcile => t \in book.trades)
          \/ /\ LotsLearnt(t)
             /\ ~ApplyTrade(book, t).reconcile =>
                  /\ ~Overcloses(book.positions[t.instrument], t)
                  /\ book'.positions = RecordTrade(book, t).positions
  BY <1>4, <1>10, <1>15
<1> QED BY <1>2, <1>6, <1>8, <1>10, <1>14, <1>16, <1>17

\* A step of the counter
LEMMA CounterActsTells ==
  ASSUME TruthInv, CounterActs, UNCHANGED plan
  PROVE  /\ StepTells /\ UNCHANGED account
         /\ \E o \in Orders :
              /\ \A p \in Orders \ {o} : SameAtCounter(p)
              /\ Status(o)' = "None" => Status(o) = "None"
              /\ \E m : /\ reports' = Append(reports, m) /\ m.id = o
                        /\ Ended(o)' /\ ~Ended(o) => m.type \in EndTypes
              /\ \/ trades' = trades /\ executed' = executed /\ LotsKept
                 \/ \E t : LotsFilled(o, t)
<1>1. AccountInv' /\ OrdersInv'
  BY SessionPart DEF TruthInv
<1>2. PICK o \in Orders : CounterStep(o)
  BY DEF CounterActs
<1>3. /\ \A p \in Orders \ {o} : counter'[p] = counter[p]
      /\ MovedOrder(o) /\ (Status(o)' = "None" => Status(o) = "None")
      /\ UNCHANGED account
      /\ \/ trades' = trades /\ counter'[o].filled = counter[o].filled
         \/ \E t \in Trade :
              /\ trades' = Append(trades, t) /\ t.id = o /\ t.instrument = Instrument
              /\ t.direction = records[o].intent.direction
              /\ t.offset = records[o].intent.offset
              /\ t.key[2] = counter'[o].filled /\ t.quantity > 0
              /\ counter'[o].filled = counter[o].filled + t.quantity
              /\ t.offset = "Close" => t.quantity <= OpenLots(Opposite(t.direction))
  BY <1>2, CounterTells DEF TruthInv
<1>4. PICK m : /\ reports' = Append(reports, m) /\ m.id = o /\ TrueReport(m)'
               /\ Ended(o)' /\ ~Ended(o) => m.type \in EndTypes
  BY <1>2, CounterTells DEF TruthInv
<1>5. /\ records' = records /\ book' = book
      /\ executed' = IF trades' # trades THEN Append(executed, trades'[Len(trades')])
                     ELSE executed
  BY <1>3 DEF CounterActs, account
<1>6. /\ reports \in Seq(Message) /\ trades \in Seq(Trade) /\ executed \in Seq(Trade)
      /\ counter \in [Orders -> CounterOrder] /\ counter[o].filled \in Nat
      /\ \A p \in Orders : counter[p].filled \in Nat
  BY DEF TruthInv, AccountInv, SessionTypes, TradesTrue, CounterOrder
<1>7. \A p \in Orders : AccountAside(p) /\ MovedOrder(p)
  BY <1>3, <1>5 DEF AccountAside, MovedOrder
<1>8. \A p \in Orders : OrderMoves(p)
  BY <1>7 DEF OrderMoves
<1>9. \/ trades' = trades /\ executed' = executed /\ LotsKept
      \/ \E t : LotsFilled(o, t)
  <2>1. CASE trades' = trades /\ counter'[o].filled = counter[o].filled
    <3>1. executed' = executed
      BY <1>5, <2>1
    <3>2. \A p \in Orders : Accounted(p)' = Accounted(p) /\ counter'[p].filled = counter[p].filled
      BY <1>3, <1>5, <2>1 DEF Accounted
    <3>3. LotsKept
      BY <1>5, <2>1, <3>1, <3>2 DEF LotsKept, TruthInv, TradesTrue
    <3> QED BY <2>1, <3>1, <3>3
  <2>2. ASSUME NEW t \in Trade,
               trades' = Append(trades, t), t.id = o, t.instrument = Instrument,
               t.direction = records[o].intent.direction,
               t.offset = records[o].intent.offset,
               t.key[2] = counter'[o].filled, t.quantity > 0,
               counter'[o].filled = counter[o].filled + t.quantity,
               t.offset = "Close" => t.quantity <= OpenLots(Opposite(t.direction))
        PROVE  LotsFilled(o, t)
    <3>1. trades' # trades /\ trades'[Len(trades')] = t
      <4>1. Len(trades') = Len(trades) + 1 /\ Len(trades) \in Nat
            /\ Append(trades, t)[Len(trades) + 1] = t
        BY <1>6, <2>2
      <4> QED BY <2>2, <4>1
    <3>2. executed' = Append(executed, t)
      BY <1>5, <3>1
    <3>3. \A p \in Orders \ {o} : counter'[p].filled = counter[p].filled
      BY <1>3
    <3> QED BY <1>5, <2>2, <3>2, <3>3 DEF LotsFilled, FilledBy
  <2> QED BY <1>3, <2>1, <2>2
<1>10. Forward
  <2>1. Range(executed) \subseteq Range(executed')
    <3>1. CASE executed' = executed
      BY <3>1
    <3>2. CASE \E t : LotsFilled(o, t)
      BY <1>6, <3>2, RangeAppend DEF LotsFilled, FilledBy
    <3> QED BY <1>9, <3>1, <3>2
  <2>2. counter[o].filled <= counter'[o].filled
    <3>1. CASE counter'[o].filled = counter[o].filled
      BY <1>6, <3>1
    <3>2. CASE \E t \in Trade : t.quantity > 0 /\ counter'[o].filled = counter[o].filled + t.quantity
      BY <1>6, <3>2, TradeFacts
    <3> QED BY <1>3, <3>1, <3>2
  <2>3. Ended(o) => Status(o)' = Status(o) /\ counter'[o].filled = counter[o].filled
    BY <1>3 DEF MovedOrder, Ended, EndTypes, Status, Live
  <2> QED BY <1>3, <1>6, <2>1, <2>2, <2>3 DEF Forward, Status
<1>11. MessagesTrue'
  <2>1. \A j \in DOMAIN reports' : (\E i \in DOMAIN reports : reports'[j] = reports[i]) \/ reports'[j] = m
    BY <1>4, <1>6
  <2> QED BY <1>1, <1>4, <1>10, <2>1, MessagesStay DEF TruthInv
<1>12. \A p \in Orders \ {o} : SameAtCounter(p)
  BY <1>3 DEF SameAtCounter, Status
<1>13. LotsMove
  BY <1>9 DEF LotsMove
<1>14. StepTells
  BY <1>1, <1>8, <1>10, <1>11, <1>13 DEF StepTells
<1> QED BY <1>3, <1>4, <1>9, <1>12, <1>14

-----------------------------------------------------------------------------
(* The steps of a recovery *)

\* What SessionProofs says of the account stays when intents and names do.
LEMMA AccountLeft ==
  ASSUME AccountInv, OrdersInv, plan' = plan,
         SoundBook(book'), SameNames(book, book'),
         records' \in [Orders -> Record], SameIntents,
         exit' \in Exit, exit'.active => exit'.id \in Orders,
         counter' \in [Orders -> CounterOrder],
         reports' \in Seq(Message), trades' \in Seq(Trade),
         \A o \in Orders : Status(o) = "None" => Status(o)' = "None"
  PROVE  AccountInv' /\ OrdersInv'
<1>1. Records' = Records
  BY DEF SameIntents, Records
<1>2. AccountInv'
  BY <1>1 DEF AccountInv, SessionTypes, UsedInOrder, SoundBook, Book
<1>3. OrdersInv'
  BY OrdersStay DEF Status
<1> QED BY <1>2, <1>3

\* The calls of the reconciliation that set positions leave the book sound.
LEMMA PositionsSound ==
  ASSUME NEW b, SoundBook(b), NEW long \in Nat, NEW short \in Nat
  PROVE  LET set == SetReconciledPosition(b, Instrument, long, short) IN
         /\ SoundBook(BeginPositionReconciliation(b))
         /\ BeginPositionReconciliation(b).orders = b.orders
         /\ BeginPositionReconciliation(b).trades = b.trades
         /\ BeginPositionReconciliation(b).positions[Instrument].long = 0
         /\ BeginPositionReconciliation(b).positions[Instrument].short = 0
         /\ SoundBook(CompleteReconciliation(b))
         /\ CompleteReconciliation(b).orders = b.orders
         /\ CompleteReconciliation(b).trades = b.trades
         /\ CompleteReconciliation(b).positions = b.positions
         /\ SoundBook(set.book) /\ set.book.orders = b.orders /\ set.book.trades = b.trades
         /\ set.code # "CapacityExceeded" =>
              /\ set.book.positions[Instrument].long = long
              /\ set.book.positions[Instrument].short = short
         /\ set.code = "CapacityExceeded" => set.book = b
<1>1. b \in Book /\ Instrument \in Instruments
  BY SessionAssumption DEF SoundBook
<1> DEFINE none == [i \in Instruments |-> NoPosition]
           p == [occupied |-> TRUE, long |-> long, short |-> short, known |-> TRUE]
           moved == [b.positions EXCEPT ![Instrument] = p]
<1>2. NoPosition \in Position /\ NoPosition.long = 0 /\ NoPosition.short = 0
  BY DEF NoPosition, Position
<1>3. p \in Position /\ p.long = long /\ p.short = short
  BY DEF Position
<1>4. none \in [Instruments -> Position] /\ none[Instrument] = NoPosition
  BY <1>1, <1>2
<1> HIDE DEF p
<1>5. moved \in [Instruments -> Position] /\ moved[Instrument] = p
  BY <1>1, <1>3 DEF Book
<1> HIDE DEF none, moved
<1>6. \A q \in [Instruments -> Position] : \A flag \in BOOLEAN :
        LET c == [b EXCEPT !.positions = q, !.reconciliation = flag]
            d == [b EXCEPT !.positions = q] IN
        /\ SoundBook(c) /\ c.orders = b.orders /\ c.trades = b.trades /\ c.positions = q
        /\ SoundBook(d) /\ d.orders = b.orders /\ d.trades = b.trades /\ d.positions = q
  BY <1>1 DEF SoundBook, Book
<1>7. /\ SoundBook(BeginPositionReconciliation(b))
      /\ BeginPositionReconciliation(b).orders = b.orders
      /\ BeginPositionReconciliation(b).trades = b.trades
      /\ BeginPositionReconciliation(b).positions = none
  BY <1>4, <1>6 DEF BeginPositionReconciliation, none
<1>8. /\ SoundBook(CompleteReconciliation(b))
      /\ CompleteReconciliation(b).orders = b.orders
      /\ CompleteReconciliation(b).trades = b.trades
      /\ CompleteReconciliation(b).positions = b.positions
  BY <1>1 DEF CompleteReconciliation, SoundBook, Book
<1>9. ~(long < 0 \/ short < 0)
  OBVIOUS
<1>10. LET set == SetReconciledPosition(b, Instrument, long, short) IN
       \/ set.code = "CapacityExceeded" /\ set.book = b
       \/ set.code # "CapacityExceeded" /\ set.book = [b EXCEPT !.positions = moved]
  <2>1. [b EXCEPT !.positions[Instrument] = p] = [b EXCEPT !.positions = moved]
    BY DEF moved
  <2> QED BY <1>9, <2>1 DEF SetReconciledPosition, Result, p
<1>11. LET c == [b EXCEPT !.positions = moved] IN
       SoundBook(c) /\ c.orders = b.orders /\ c.trades = b.trades /\ c.positions = moved
  BY <1>5, <1>6
<1> QED BY <1>2, <1>3, <1>4, <1>5, <1>7, <1>8, <1>10, <1>11

\* A step that leaves the records and what the book knows of orders and trades
LEMMA QuietStep ==
  ASSUME TruthInv, plan' = plan, UNCHANGED <<records, exit, executed>>,
         SoundBook(book'), book'.orders = book.orders, book'.trades = book.trades,
         counter' \in [Orders -> CounterOrder],
         \A o \in Orders : /\ MovedOrder(o) /\ counter'[o].filled = counter[o].filled
                           /\ Ended(o) => Status(o)' = Status(o)
                           /\ Status(o) = "None" => Status(o)' = "None",
         reports' \in {<<>>, reports} \/ (reports # <<>> /\ reports' = Front(reports)),
         trades' \in {<<>>, trades} \/ (trades # <<>> /\ trades' = Front(trades))
  PROVE  StepTells /\ LotsKept
<1>1. /\ reports \in Seq(Message) /\ trades \in Seq(Trade) /\ records \in [Orders -> Record]
      /\ exit \in Exit /\ (exit.active => exit.id \in Orders)
      /\ Range(trades) \subseteq Range(executed) /\ counter \in [Orders -> CounterOrder]
      /\ \A o \in Orders : counter[o].filled \in Nat
  BY DEF TruthInv, AccountInv, SessionTypes, TradesTrue, CounterOrder
<1>2. /\ reports' \in Seq(Message) /\ trades' \in Seq(Trade)
      /\ \A j \in DOMAIN reports' : \E i \in DOMAIN reports : reports'[j] = reports[i]
      /\ Range(trades') \subseteq Range(trades)
  BY <1>1, PartOf
<1>3. AccountInv' /\ OrdersInv'
  BY <1>1, <1>2, AccountLeft DEF TruthInv, SameNames, SameIntents
<1>4. Forward
  BY <1>1 DEF Forward
<1>5. \A o \in Orders : OrderMoves(o)
  BY DEF OrderMoves, AccountAside
<1>6. LotsKept
  BY <1>1, <1>2 DEF LotsKept, Accounted
<1>7. MessagesTrue'
  BY <1>2, <1>3, <1>4, MessagesStay DEF TruthInv
<1> QED BY <1>3, <1>4, <1>5, <1>6, <1>7 DEF StepTells, LotsMove

\* A step that leaves records, orders and recorded trades as they are
QuietAction ==
  \/ ReceiveLogin \/ ReceiveSettlement \/ ReceivePositionRow \/ ReceiveFunds
  \/ ReceiveFlawed \/ CounterAnswer
  \/ Connected \/ Disconnected \/ Overflow \/ RequestReconciliation
  \/ MarkFault \/ UNCHANGED recoveryVars

\* What such a step leaves alone: orders, trades and records.
Quiet ==
  /\ UNCHANGED <<records, executed>>
  /\ book'.orders = book.orders /\ book'.trades = book.trades

\* What the handlers of positions and funds make of the book
LEMMA QuietBook ==
  ASSUME AccountInv, AnswerInv, RowsInv, ReceivePositionRow \/ ReceiveFunds
  PROVE  SoundBook(book') /\ book'.orders = book.orders /\ book'.trades = book.trades
<1>1. SoundBook(book) /\ book \in Book /\ Instrument \in Instruments
  BY SessionAssumption DEF AccountInv, SessionTypes, SoundBook
<1>2. CASE ReceiveFunds
  <2>1. book' = CompleteReconciliation(book)
    BY <1>2 DEF ReceiveFunds
  <2>2. 0 \in Nat
    OBVIOUS
  <2> QED BY <1>1, <2>1, <2>2, PositionsSound
<1>3. CASE ReceivePositionRow
  <2>1. PICK m : m = Head(answers)
    OBVIOUS
  <2> DEFINE more(side) == IF m.row # <<>> /\ m.row[1].side = side
                           THEN m.row[1].quantity ELSE 0
  <2>2. book' = IF m.row = <<>> THEN book
                ELSE SetReconciledPosition(book, Instrument, Held.long + more("long"),
                                           Held.short + more("short")).book
    BY <1>3, <2>1 DEF ReceivePositionRow
  <2>3. Held.long \in Nat /\ Held.short \in Nat
    BY <1>1 DEF Book, Position, Held
  <2>4. CASE m.row = <<>>
    BY <1>1, <2>2, <2>4
  <2>5. CASE m.row # <<>>
    <3>1. m.phase = "QueryingPositions" /\ answers # <<>>
      BY <1>3, <2>1 DEF ReceivePositionRow, Receives, Expected
    <3>2. 1 \in DOMAIN answers /\ m = answers[1]
      <4>1. PICK R : answers \in Seq(R)
        BY DEF AnswerInv
      <4> QED BY <2>1, <3>1, <4>1
    <3>3. m.row[1].quantity \in Nat
      BY <2>5, <3>1, <3>2 DEF RowsInv, RowTrue
    <3>4. PICK long \in Nat, short \in Nat :
            long = Held.long + more("long") /\ short = Held.short + more("short")
      BY <2>3, <3>3
    <3>5. book' = SetReconciledPosition(book, Instrument, long, short).book
      BY <2>2, <2>5, <3>4
    <3> QED BY <1>1, <3>5, PositionsSound
  <2> QED BY <2>4, <2>5
<1> QED BY <1>2, <1>3

\* Orders and cancel requests on their way may be lost with the connection.
LEMMA LostOrders ==
  ASSUME AccountInv, OrderFacts, Disconnected
  PROVE  /\ counter' \in [Orders -> CounterOrder]
         /\ \A o \in Orders : /\ MovedOrder(o) /\ counter'[o].filled = counter[o].filled
                              /\ Status(o)' = Status(o)
                                   \/ (Status(o) = "Live" /\ Status(o)' = "None")
<1>1. counter \in [Orders -> CounterOrder]
  BY DEF AccountInv, SessionTypes
<1>2. PICK lost \in SUBSET {o \in Orders : counter[o].status = "Live"} :
        counter' = [o \in Orders |-> IF o \in lost THEN NoCounterOrder
                                     ELSE [counter[o] EXCEPT !.asked = FALSE]]
  BY DEF Disconnected
<1>3. NoCounterOrder \in CounterOrder /\ NoCounterOrder.status = "None"
      /\ NoCounterOrder.filled = 0
  BY DEF NoCounterOrder, CounterOrder
<1>4. ASSUME NEW o \in Orders
      PROVE  /\ counter'[o] \in CounterOrder
             /\ MovedOrder(o) /\ counter'[o].filled = counter[o].filled
             /\ Status(o)' = Status(o) \/ (Status(o) = "Live" /\ Status(o)' = "None")
  <2>1. CASE o \in lost
    <3>1. counter'[o] = NoCounterOrder /\ counter[o].status = "Live"
      BY <1>2, <2>1
    <3>2. counter[o].filled = 0
      BY <3>1 DEF OrderFacts, CounterTrue
    <3> QED BY <1>3, <3>1, <3>2 DEF MovedOrder, Status
  <2>2. CASE o \notin lost
    <3>1. counter'[o] = [counter[o] EXCEPT !.asked = FALSE] /\ counter[o] \in CounterOrder
      BY <1>1, <1>2, <2>2
    <3>2. /\ counter'[o] \in CounterOrder /\ counter'[o].status = counter[o].status
          /\ counter'[o].filled = counter[o].filled
      BY <3>1 DEF CounterOrder
    <3> QED BY <3>2 DEF MovedOrder, Status
  <2> QED BY <2>1, <2>2
<1> QED BY <1>2, <1>4

\* Such a step tells the account nothing of an order or a trade.
LEMMA QuietTells ==
  ASSUME TruthInv, UNCHANGED plan, QuietAction
  PROVE  StepTells /\ LotsKept /\ Quiet
<1>1. /\ SoundBook(book) /\ counter \in [Orders -> CounterOrder]
  BY DEF TruthInv, AccountInv, SessionTypes
<1>2. CASE Disconnected
  <2>1. /\ UNCHANGED <<book, records, exit, executed>> /\ reports' = <<>> /\ trades' = <<>>
    BY <1>2 DEF Disconnected
  <2>2. /\ counter' \in [Orders -> CounterOrder]
        /\ \A o \in Orders : /\ MovedOrder(o) /\ counter'[o].filled = counter[o].filled
                             /\ Status(o)' = Status(o)
                                  \/ (Status(o) = "Live" /\ Status(o)' = "None")
    BY <1>2, LostOrders DEF TruthInv
  <2>3. \A o \in Orders : /\ Ended(o) => Status(o)' = Status(o)
                          /\ Status(o) = "None" => Status(o)' = "None"
    BY <2>2 DEF Ended, EndTypes
  <2> QED BY <1>1, <2>1, <2>2, <2>3, QuietStep DEF Quiet
<1>3. CASE ~Disconnected
  <2>1. /\ UNCHANGED <<records, exit, executed, counter>>
        /\ reports' \in {<<>>, reports} \/ (reports # <<>> /\ reports' = Front(reports))
        /\ trades' \in {<<>>, trades} \/ (trades # <<>> /\ trades' = Front(trades))
    <3>1. CASE \/ ReceiveLogin \/ ReceiveSettlement \/ ReceivePositionRow \/ ReceiveFunds
               \/ ReceiveFlawed
      BY <3>1 DEF ReceiveLogin, ReceiveSettlement, ReceivePositionRow, ReceiveFunds,
                  ReceiveFlawed, environment, world
    <3>2. CASE CounterAnswer
      BY <3>2 DEF CounterAnswer, account
    <3>3. CASE Connected \/ RequestReconciliation \/ MarkFault \/ UNCHANGED recoveryVars
      BY <3>3 DEF Connected, RequestReconciliation, MarkFault, recoveryVars, vars,
                  environment, world
    <3>4. CASE Overflow
      BY <3>4 DEF Overflow, world
    <3> QED BY <1>3, <3>1, <3>2, <3>3, <3>4 DEF QuietAction
  <2>2. SoundBook(book') /\ book'.orders = book.orders /\ book'.trades = book.trades
    <3>1. CASE ReceivePositionRow \/ ReceiveFunds
      BY <3>1, QuietBook DEF TruthInv
    <3>2. CASE ~(ReceivePositionRow \/ ReceiveFunds)
      <4>1. book' = book
        BY <1>3, <3>2
        DEF QuietAction, ReceiveLogin, ReceiveSettlement, ReceiveFlawed, CounterAnswer, account,
            Connected, RequestReconciliation, MarkFault, Overflow, recoveryVars, vars
      <4> QED BY <1>1, <4>1
    <3> QED BY <3>1, <3>2
  <2>3. \A o \in Orders : /\ MovedOrder(o) /\ counter'[o].filled = counter[o].filled
                          /\ Status(o)' = Status(o)
    BY <2>1 DEF MovedOrder, Status
  <2>4. counter' \in [Orders -> CounterOrder]
    BY <1>1, <2>1
  <2> QED BY <2>1, <2>2, <2>3, <2>4, QuietStep DEF Quiet
<1> QED BY <1>2, <1>3

\* The row at hand when an answer is received
LEMMA HeadRow ==
  ASSUME AnswerInv, RowsInv, answers # <<>>
  PROVE  /\ 1 \in DOMAIN answers /\ Head(answers) = answers[1]
         /\ DOMAIN answers \subseteq Nat \ {0} /\ RowTrue(answers[1])
<1>1. PICK R : answers \in Seq(R)
  BY DEF AnswerInv
<1>2. 1 \in DOMAIN answers /\ Head(answers) = answers[1] /\ DOMAIN answers \subseteq Nat \ {0}
  BY <1>1
<1> QED BY <1>2 DEF RowsInv

\* Release makes records of records.
LEMMA ReleaseTypes ==
  ASSUME NEW rs \in [Orders -> Record], NEW b, NEW o
  PROVE  Release(rs, b, o) \in [Orders -> Record]
BY DEF Release, Record

\* A row of the order query is a report of the order as it was.
OrderRowTold(r) ==
  LET result == ApplyOrderReport(book, r) IN
  /\ ToldOrder(r.id, r) /\ \A p \in Orders \ {r.id} : KeptOrder(p)
  /\ seen' = seen \cup {r.id}
  /\ \/ result.reconcile /\ phase' = "Frozen"
     \/ /\ ~result.reconcile
        /\ \/ SameOrder(book.orders[r.id], result.book.orders[r.id])
                /\ r.cum < book.orders[r.id].reported
           \/ /\ Merged(book.orders[r.id], result.book.orders[r.id], r)
              /\ ~(r.type = "Filled" /\ book.orders[r.id].state = "Rejected")
        /\ book'.orders[r.id] = result.book.orders[r.id]
        /\ records'[r.id].activeOpen => State(r.id)' \notin Terminal

\* A row of the order query tells of an order what a pushed report does.
LEMMA OrderRowTells ==
  ASSUME TruthInv, ReceiveOrderRow, UNCHANGED plan
  PROVE  /\ StepTells /\ LotsKept /\ UNCHANGED <<counter, reports, trades>>
         /\ \/ answers[1].row = <<>> /\ Quiet /\ book' = book /\ seen' = seen
            \/ /\ answers[1].row # <<>>
               /\ \E r \in OrderReport : r = answers[1].row[1] /\ OrderRowTold(r)
<1>0. /\ SoundBook(book) /\ records \in [Orders -> Record]
      /\ counter \in [Orders -> CounterOrder]
      /\ exit \in Exit /\ (exit.active => exit.id \in Orders)
      /\ reports \in Seq(Message) /\ trades \in Seq(Trade)
      /\ Range(trades) \subseteq Range(executed) /\ counter \in [Orders -> CounterOrder]
      /\ \A o \in Orders : counter[o].filled \in Nat
  BY DEF TruthInv, AccountInv, SessionTypes, TradesTrue, CounterOrder
<1>1. PICK m : m = answers[1]
  OBVIOUS
<1>2. /\ m = Head(answers) /\ RowTrue(m) /\ m.phase = "QueryingOrders"
      /\ UNCHANGED <<exit, counter, reports, trades, executed>>
  BY <1>1, HeadRow DEF ReceiveOrderRow, Receives, Expected, TruthInv, environment, world
<1>3. CASE m.row = <<>>
  <2>1. book' = book /\ records' = records /\ seen' = seen
    BY <1>2, <1>3 DEF ReceiveOrderRow
  <2>2. \A o \in Orders : MovedOrder(o) /\ counter'[o].filled = counter[o].filled
                          /\ Status(o)' = Status(o)
    BY <1>2 DEF MovedOrder, Status
  <2>3. SoundBook(book') /\ counter' \in [Orders -> CounterOrder]
    BY <1>0, <1>2, <2>1
  <2>4. StepTells /\ LotsKept
    BY <1>2, <2>1, <2>2, <2>3, QuietStep
  <2> QED BY <1>1, <1>2, <1>3, <2>1, <2>4 DEF Quiet
<1>4. CASE m.row # <<>>
  <2>1. PICK r : r = m.row[1]
    OBVIOUS
  <2>2. r \in OrderReport /\ r.cum \in Nat /\ TrueReport(r) /\ r.id \in Orders
    BY <1>2, <1>4, <2>1 DEF RowTrue, OrderReport
  <2>3. PICK result : result = ApplyOrderReport(book, r)
    OBVIOUS
  <2>4. /\ book' = result.book /\ seen' = seen \cup {r.id}
        /\ records' = IF result.reconcile THEN records ELSE Release(records, book', r.id)
        /\ result.reconcile => Fail(<<>>)
    BY <1>2, <1>4, <2>1, <2>3 DEF ReceiveOrderRow
  <2>5. SlotAfter(r.id) /\ \A p \in Orders \ {r.id} : SameRecord(p)
    <3>1. CASE result.reconcile
      BY <2>4, <3>1 DEF SlotAfter, SameRecord
    <3>2. CASE ~result.reconcile
      <4>1. records' = Release(records, book', r.id)
        BY <2>4, <3>2
      <4> QED BY <1>0, <2>2, <4>1, ReleasedSlots DEF TruthInv
    <3> QED BY <3>1, <3>2
  <2>6. book' = ApplyOrderReport(book, r).book
    BY <2>3, <2>4
  <2>7. /\ ToldOrder(r.id, r) /\ \A p \in Orders \ {r.id} : KeptOrder(p)
        /\ \A o \in Orders : OrderMoves(o) /\ Accounted(o)' = Accounted(o)
        /\ book'.trades = book.trades
    BY <1>2, <2>2, <2>5, <2>6, ReportApplied
  <2>8. AccountInv' /\ OrdersInv'
    <3>1. SoundBook(book') /\ SameNames(book, book')
      BY <1>0, <2>2, <2>6, OrderReportSound, OrderReportSameLots, LotsAreNames
    <3>2. records' \in [Orders -> Record]
      BY <1>0, <2>4, ReleaseTypes
    <3>3. SameIntents
      BY <2>5 DEF SlotAfter, SameRecord, SameIntents
    <3>4. \A o \in Orders : Status(o) = "None" => Status(o)' = "None"
      BY <1>2 DEF Status
    <3>5. /\ exit' \in Exit /\ (exit'.active => exit'.id \in Orders)
          /\ counter' \in [Orders -> CounterOrder]
          /\ reports' \in Seq(Message) /\ trades' \in Seq(Trade)
      BY <1>0, <1>2
    <3> QED BY <3>1, <3>2, <3>3, <3>4, <3>5, AccountLeft DEF TruthInv
  <2>9. \A o \in Orders : SameAtCounter(o) /\ counter'[o].filled = counter[o].filled
    BY <1>2 DEF SameAtCounter, Status
  <2>10. Forward
    BY <1>2, <2>9, SameForward DEF TruthInv
  <2>11. LotsKept
    BY <1>0, <1>2, <2>7, <2>9 DEF LotsKept
  <2>12. MessagesTrue'
    BY <1>2, <2>8, <2>10, MessagesStay DEF TruthInv
  <2>13. StepTells
    BY <2>7, <2>8, <2>10, <2>11, <2>12 DEF StepTells, LotsMove
  <2>14. OrderRowTold(r)
    <3>1. ~result.reconcile =>
            \/ SameOrder(book.orders[r.id], result.book.orders[r.id])
                 /\ r.cum < book.orders[r.id].reported
            \/ /\ Merged(book.orders[r.id], result.book.orders[r.id], r)
               /\ ~(r.type = "Filled" /\ book.orders[r.id].state = "Rejected")
      BY <1>0, <2>2, <2>3, ReportTaken
    <3>2. ASSUME ~result.reconcile PROVE records'[r.id].activeOpen => State(r.id)' \notin Terminal
      <4>1. records' = Release(records, book', r.id)
        BY <2>4, <3>2
      <4>2. CASE records[r.id].activeOpen /\ book'.orders[r.id].state \in Terminal
        BY <1>0, <2>2, <4>1, <4>2 DEF Release, Record
      <4>3. CASE ~(records[r.id].activeOpen /\ book'.orders[r.id].state \in Terminal)
        BY <4>1, <4>3 DEF Release, State
      <4> QED BY <4>2, <4>3
    <3>3. result.reconcile => phase' = "Frozen"
      BY <2>4 DEF Fail
    <3> QED BY <2>3, <2>4, <2>7, <3>1, <3>2, <3>3 DEF OrderRowTold
  <2> QED BY <1>1, <1>2, <1>4, <2>1, <2>2, <2>11, <2>13, <2>14
<1> QED BY <1>3, <1>4

\* A row of the trade query is applied like a pushed trade.
TradeRowTold(t) ==
  /\ TradedOrder(t.id, t) /\ \A p \in Orders \ {t.id} : KeptOrder(p)
  /\ phase' = "Frozen" \/ t \in book'.trades

\* A row of the trade query tells of a trade what a pushed one does.
LEMMA TradeRowTells ==
  ASSUME TruthInv, ReceiveTradeRow, UNCHANGED plan
  PROVE  /\ StepTells /\ UNCHANGED <<counter, reports, trades, records, executed>>
         /\ book.trades \subseteq book'.trades
         /\ phase' = "QueryingPositions" => Held.long' = 0 /\ Held.short' = 0
         /\ \/ answers[1].row = <<>> /\ Quiet
            \/ /\ answers[1].row # <<>>
               /\ \E t \in Range(executed) : t = answers[1].row[1] /\ TradeRowTold(t)
<1>0. /\ SoundBook(book) /\ records \in [Orders -> Record]
      /\ counter \in [Orders -> CounterOrder]
      /\ exit \in Exit /\ (exit.active => exit.id \in Orders)
      /\ reports \in Seq(Message) /\ trades \in Seq(Trade)
      /\ Range(trades) \subseteq Range(executed) /\ counter \in [Orders -> CounterOrder]
      /\ 0 \in Nat
  BY DEF TruthInv, AccountInv, SessionTypes, TradesTrue
<1>1. PICK m : m = answers[1]
  OBVIOUS
<1>2. /\ m = Head(answers) /\ RowTrue(m) /\ m.phase = "QueryingTrades"
      /\ phase = "QueryingTrades"
      /\ UNCHANGED <<records, counter, reports, trades, executed>>
  BY <1>1, HeadRow DEF ReceiveTradeRow, Receives, Expected, TruthInv, environment, world
<1>3. PICK t : t = m.row[1]
  OBVIOUS
<1>4. PICK result : result = ApplyTrade(book, t)
  OBVIOUS
<1>5. PICK c : c = IF m.row = <<>> THEN book ELSE result.book
  OBVIOUS
<1>6. /\ book' = c \/ book' = BeginPositionReconciliation(c)
      /\ exit' = exit \/ exit' = ExitAfterTrade(t.id, t, result)
      /\ m.row = <<>> => exit' = exit
      /\ \/ phase' = "Frozen"
         \/ /\ ~(m.row # <<>> /\ result.reconcile)
            /\ \/ phase' = "QueryingTrades"
               \/ phase' = "QueryingPositions" /\ book' = BeginPositionReconciliation(c)
  <2> DEFINE refused == m.row # <<>> /\ result.reconcile
             reasons == IF m.row = <<>> THEN <<>> ELSE TradeFaults(t.id, result)
             asks == ~refused /\ Ends(m)
  <2>1. /\ book' = IF asks THEN BeginPositionReconciliation(c) ELSE c
        /\ exit' = IF m.row = <<>> \/ refused THEN exit ELSE ExitAfterTrade(t.id, t, result)
        /\ \/ refused /\ Fail(<<>>)
           \/ ~refused /\ ~Ends(m) /\ Stay(reasons)
           \/ asks /\ Request("QueryingPositions", reasons)
    BY <1>2, <1>3, <1>4, <1>5 DEF ReceiveTradeRow
  <2>2. \/ phase' = "Frozen"
        \/ ~refused /\ phase' = phase
        \/ asks /\ phase' = "QueryingPositions"
    BY <2>1, RequestKinds
  <2> QED BY <1>2, <2>1, <2>2
<1>7. SoundBook(c) => /\ SoundBook(book') /\ book'.orders = c.orders /\ book'.trades = c.trades
                      /\ phase' = "QueryingPositions" => Held.long' = 0 /\ Held.short' = 0
  <2>1. ASSUME SoundBook(c)
        PROVE  LET b == BeginPositionReconciliation(c) IN
               /\ SoundBook(b) /\ b.orders = c.orders /\ b.trades = c.trades
               /\ b.positions[Instrument].long = 0 /\ b.positions[Instrument].short = 0
    BY <1>0, <2>1, PositionsSound
  <2> QED BY <1>6, <2>1 DEF Held
<1>8. CASE m.row = <<>>
  <2>1. c = book /\ exit' = exit
    BY <1>5, <1>6, <1>8
  <2>2. /\ SoundBook(book') /\ book'.orders = book.orders /\ book'.trades = book.trades
        /\ phase' = "QueryingPositions" => Held.long' = 0 /\ Held.short' = 0
    BY <1>0, <1>7, <2>1
  <2>3. \A o \in Orders : MovedOrder(o) /\ counter'[o].filled = counter[o].filled
                          /\ Status(o)' = Status(o)
    BY <1>2 DEF MovedOrder, Status
  <2>4. counter' \in [Orders -> CounterOrder]
    BY <1>0, <1>2
  <2>5. StepTells /\ LotsKept
    BY <1>2, <2>1, <2>2, <2>3, <2>4, QuietStep
  <2> QED BY <1>1, <1>2, <1>8, <2>2, <2>5 DEF Quiet
<1>9. CASE m.row # <<>>
  <2>1. t \in Range(executed)
    BY <1>2, <1>3, <1>9 DEF RowTrue
  <2>2. t \in Trade /\ t \in TradeReport /\ t.id \in Orders
    BY <2>1, TradesCounted DEF TruthInv
  <2>3. c = ApplyTrade(book, t).book
    BY <1>4, <1>5, <1>9
  <2>4. SoundBook(c) /\ SameNames(book, c)
    BY <1>0, <2>2, <2>3, TradeSound, TradeNames
  <2>5. /\ SoundBook(book') /\ book'.orders = c.orders /\ book'.trades = c.trades
        /\ phase' = "QueryingPositions" => Held.long' = 0 /\ Held.short' = 0
    BY <1>7, <2>4
  <2>6. SlotAfter(t.id) /\ \A p \in Orders \ {t.id} : SameRecord(p)
    BY <1>2 DEF SlotAfter, SameRecord
  <2>7. Range(trades') \subseteq Range(executed)
    BY <1>0, <1>2
  <2>8. /\ TradedOrder(t.id, t) /\ \A p \in Orders \ {t.id} : KeptOrder(p)
        /\ \A o \in Orders : OrderMoves(o) /\ SameAtCounter(o)
        /\ \/ LotsKept /\ SameBook(book, c, {}) /\ (~ApplyTrade(book, t).reconcile => t \in book.trades)
           \/ LotsLearnt(t)
    BY <1>2, <2>1, <2>3, <2>5, <2>6, <2>7, TradeApplied
  <2>9. AccountInv' /\ OrdersInv'
    <3>1. SameNames(book, book')
      BY <2>4, <2>5 DEF SameNames
    <3>2. exit' \in Exit /\ (exit'.active => exit'.id \in Orders)
      BY <1>0, <1>6, <2>2, ExitAfterTradeType DEF TruthInv, AccountInv
    <3>3. SameIntents
      BY <1>2 DEF SameIntents
    <3>4. \A o \in Orders : Status(o) = "None" => Status(o)' = "None"
      BY <1>2 DEF Status
    <3>5. /\ counter' \in [Orders -> CounterOrder] /\ records' \in [Orders -> Record]
          /\ reports' \in Seq(Message) /\ trades' \in Seq(Trade)
      BY <1>0, <1>2
    <3> QED BY <2>5, <3>1, <3>2, <3>3, <3>4, <3>5, AccountLeft DEF TruthInv
  <2>10. Forward
    BY <1>2, <2>8, SameForward DEF TruthInv
  <2>11. MessagesTrue'
    BY <1>2, <2>9, <2>10, MessagesStay DEF TruthInv
  <2>12. StepTells
    BY <2>8, <2>9, <2>10, <2>11 DEF StepTells, LotsMove
  <2>13. book.trades \subseteq book'.trades
    BY <2>8 DEF LotsKept, LotsLearnt, Learns
  <2>14. TradeRowTold(t)
    <3>1. CASE result.reconcile
      BY <1>6, <1>9, <2>8, <3>1 DEF TradeRowTold
    <3>2. CASE ~result.reconcile
      <4>1. t \in book'.trades
        BY <1>4, <2>8, <2>13, <3>2 DEF LotsLearnt, Learns
      <4> QED BY <2>8, <4>1 DEF TradeRowTold
    <3> QED BY <3>1, <3>2
  <2> QED BY <1>1, <1>2, <1>3, <1>9, <2>1, <2>5, <2>12, <2>13, <2>14
<1> QED BY <1>8, <1>9

-----------------------------------------------------------------------------
(* What is true stays true *)

\* The steps of the session that go on during a recovery
SessionStep == Call \/ ReceivePushedReport \/ ReceivePushedTrade \/ CounterActs
\* The steps that end a recovery or begin one
LinkChange == Connected \/ Disconnected \/ Overflow \/ RequestReconciliation

\* Every step of a recovery is one of those above.
LEMMA StepsTell ==
  ASSUME TruthInv, [RecoveryNext]_recoveryVars
  PROVE  StepTells /\ UNCHANGED plan
<1>1. UNCHANGED plan
  BY DEF RecoveryNext, recoveryVars, vars
<1>2. CASE RecoveryNext
  <2>1. SessionStep \/ ReceiveOrderRow \/ ReceiveTradeRow \/ QuietAction
    BY <1>2 DEF RecoveryNext, SessionStep, ReceiveAnswer, QuietAction
  <2> QED BY <1>1, <2>1, CallTellsAll, PushedReportTells, PushedTradeTells, CounterActsTells,
             OrderRowTells, TradeRowTells, QuietTells DEF SessionStep
<1>3. CASE UNCHANGED recoveryVars
  BY <1>1, <1>3, QuietTells DEF QuietAction
<1> QED BY <1>1, <1>2, <1>3

\* What the counter has open is what its fills come to.
LEMMA LotsAreNumbersAll ==
  ASSUME AccountInv, OrdersInv, OrderFacts, NEW direction
  PROVE  /\ OpenLots(direction) = AtMarket(direction)
         /\ OpenLots(direction) \in Int /\ Booked(direction) \in Int
BY OpenLotsIsAmount, NotFilledUnknown, MarketIsNumber

\* A step that leaves the answers and what is asked
LEMMA RowsUntouched ==
  ASSUME AnswerInv, UNCHANGED answers PROVE RowsRemain(0)
<1>1. PICK R : answers \in Seq(R)
  BY DEF AnswerInv
<1>2. \A j \in DOMAIN answers' : j \in Nat /\ j + 0 = j
  BY <1>1
<1> QED BY <1>2 DEF RowsRemain

\* The rows of the answers stay true in every step.
LEMMA AnswersStay ==
  ASSUME TruthInv, [RecoveryNext]_recoveryVars, AccountInv', Forward
  PROVE  RowsInv' /\ AskedInv' /\ AnswerInv'
<1>1. AnswerInv'
  BY AnswerGiven, AnswerTaken, AnswerOverLink, AnswerUntouched DEF RecoveryNext, TruthInv
<1>2. CASE CounterAnswer
  <2>1. OpenLots("Buy") \in Int /\ OpenLots("Sell") \in Int
    BY LotsAreNumbersAll DEF TruthInv
  <2> QED BY <1>1, <1>2, <2>1, AskedAfterAnswer DEF TruthInv
<1>3. CASE ReceiveAnswer
  <2>1. answers # <<>> /\ Consume
    BY <1>3, RowKinds
  <2>2. RowsRemain(1)
    BY <2>1, Consumed DEF TruthInv
  <2> QED BY <1>1, <1>3, <2>2, RowsStay, AskedAfterRow DEF TruthInv
<1>4. CASE LinkChange
  <2>1. RowsRemain(0)
    BY <1>4, RowsOverLink DEF TruthInv, LinkChange
  <2> QED BY <1>1, <1>4, <2>1, RowsStay, AskedOverLink DEF TruthInv, LinkChange
<1>5. CASE SessionStep \/ MarkFault \/ UNCHANGED recoveryVars
  <2>1. UNCHANGED <<phase, asked, answers>>
    BY <1>5 DEF SessionStep, Call, ReceivePushedReport, ReceivePushedTrade, MarkFault,
                CounterActs, recoveryVars, recovery
  <2>2. RowsRemain(0)
    BY <2>1, RowsUntouched DEF TruthInv
  <2> QED BY <1>1, <2>1, <2>2, RowsStay, AskedUntouched DEF TruthInv
<1> QED BY <1>2, <1>3, <1>4, <1>5 DEF RecoveryNext, SessionStep, LinkChange

\* Every step leaves true all that the account may be told.
LEMMA TruthStep ==
  ASSUME TruthInv, FrozenUntilReady, [RecoveryNext]_recoveryVars
  PROVE  TruthInv' /\ FrozenUntilReady' /\ StepTells
<1>1. StepTells /\ UNCHANGED plan
  BY StepsTell
<1>2. FrozenUntilReady' /\ Thawed'
  BY StepFrozen DEF FrozenUntilReady, Thawed
<1>3. RowsInv' /\ AskedInv' /\ AnswerInv'
  BY <1>1, AnswersStay DEF StepTells
<1>4. OrderFacts'
  BY <1>1, OrderFactsStay DEF StepTells, TruthInv
<1>5. IntentsStay
  BY <1>1, IntentsAreKept DEF StepTells, TruthInv
<1>6. TradesTrue'
  BY <1>1, TradesTrueStay DEF StepTells, TruthInv
<1>7. NotOversold'
  BY <1>1, <1>5, NotOversoldStays DEF StepTells, TruthInv
<1> QED BY <1>1, <1>2, <1>3, <1>4, <1>6, <1>7 DEF StepTells, TruthInv

\* At the start nothing has happened.
LEMMA TruthAtStart == RecoveryInit => TruthInv
<1> SUFFICES ASSUME RecoveryInit PROVE TruthInv
  OBVIOUS
<1>1. /\ book = EmptyBook /\ records = [o \in Orders |-> NoRecord]
      /\ counter = [o \in Orders |-> NoCounterOrder] /\ reports = <<>> /\ trades = <<>>
      /\ executed = <<>> /\ answers = <<>> /\ asked = "None" /\ phase = "Connecting"
      /\ frozen = TRUE /\ NothingYet
  BY DEF RecoveryInit, NothingYet
<1>2. AccountInv /\ OrdersInv
  BY <1>1, SessionInitInv, OrdersInit DEF SessionInv
<1>3. /\ <<>> \in Seq({}) /\ <<>> \in Seq(Trade) /\ DOMAIN <<>> = {} /\ Range(<<>>) = {}
  BY DEF Range
<1>4. AnswerInv /\ RowsInv /\ AskedInv /\ MessagesTrue /\ Thawed
  BY <1>1, <1>3, PhaseNames DEF AnswerInv, RowsInv, AskedInv, MessagesTrue, Thawed
<1>5. \A o \in Orders :
        /\ counter[o].status = "None" /\ counter[o].filled = 0
        /\ records[o].activeOpen = FALSE /\ Status(o) = "None"
        /\ State(o) = "Absent" /\ Accounted(o) = 0
        /\ book.orders[o].reported = 0 /\ book.orders[o].cancelAck = FALSE
  BY <1>1 DEF NoCounterOrder, NoRecord, State, EmptyBook, NoOrder, Accounted, Status
<1>6. OrderFacts
  BY <1>5 DEF OrderFacts, CounterTrue, OrderTrue, AtCounter, Unsent, Live, State
<1>7. TradesTrue
  <2>1. book.trades = {}
    BY <1>1 DEF EmptyBook
  <2>2. \A o : Recorded(o) = {} /\ Executed(o) = {}
    BY <1>1, <1>3, <2>1 DEF Recorded, Executed
  <2>3. Volume({}) = 0
    BY FS_EmptySet, VolumeGrows
  <2> QED BY <1>1, <1>3, <1>5, <2>1, <2>2, <2>3 DEF TradesTrue
<1>8. NotOversold
  <2>1. SUFFICES ASSUME NEW direction \in Directions PROVE AtMarket(direction) = 0
    BY DEF NotOversold
  <2>2. \A o \in Orders : Filled[o] \in Int /\ Filled[o] = 0
    BY <1>5 DEF Filled
  <2>3. \A o \in Orders : Amounts(Intents, direction, Filled)[o] = 0
    BY <2>2, TermValues DEF Amounts
  <2>4. PICK w : w = Amounts(Intents, direction, Filled)
    OBVIOUS
  <2>5. SumFunctionOnSet(w, Orders) = SumFunctionOnSet(w, {})
    BY <2>3, <2>4, OrdersCounted, SumExtends
  <2>6. SumFunctionOnSet(w, {}) = 0
    BY FS_EmptySet, SumTerm
  <2> QED BY <2>4, <2>5, <2>6 DEF AtMarket, Amount
<1> QED BY <1>2, <1>4, <1>6, <1>7, <1>8 DEF TruthInv

\* The account is told nothing but what happened at the counter, and keeps it so.
LEMMA AlwaysTruthInv == RecoverySpec => [](TruthInv /\ FrozenUntilReady)
<1>1. RecoveryInit => TruthInv /\ FrozenUntilReady
  BY TruthAtStart, InitFrozen
<1>2. TruthInv /\ FrozenUntilReady /\ [RecoveryNext]_recoveryVars
        => (TruthInv /\ FrozenUntilReady)'
  BY TruthStep
<1> QED BY <1>1, <1>2, PTL DEF RecoverySpec

-----------------------------------------------------------------------------
(* What the account has still to be told *)

\* Nothing is expected of an account that does not recover, one that has still
\* to ask for its orders, or one whose recovery will not succeed.
Idle == phase \notin {"Ready"} \cup Querying \/ (phase = "Ready" /\ frozen)
\* The order query is made, and not answered yet.
AskingOrders == phase = "QueryingOrders" /\ asked = phase
\* A fault was raised since, or the answer at hand carries an error.
Spoiled == alarmed \/ \E i \in DOMAIN answers : answers[i].current /\ answers[i].error
\* The account has no complete answer to go by: it does not ask, has only just
\* asked for the orders, or was alarmed.
Excused == Idle \/ AskingOrders \/ Spoiled

\* A recovery begins with no order named.
SeenReset == AskingOrders => seen = {}

\* The recovery is where it was.
SameAsk == UNCHANGED <<phase, asked, answers, seen>>

\* A row of the present query that has yet to be handled
Due(i) ==
  /\ i \in DOMAIN answers /\ answers[i].current
  /\ answers[i].phase = phase /\ answers[i].row # <<>>

\* The queries begin with that of the orders, or fail.
LEMMA QueriesExcused ==
  ASSUME NEW reasons
  PROVE  /\ BeginQueries(reasons) => Excused' /\ SeenReset'
         /\ Fail(reasons) => Idle'
         /\ NotSent(reasons) => Idle'
<1>1. "Frozen" \notin {"Ready"} \cup Querying
  BY DEF Querying
<1>2. BeginQueries(reasons) => /\ seen' = {}
                               /\ \/ phase' = "QueryingOrders" /\ asked' = phase'
                                  \/ phase' = "Frozen"
  BY DEF BeginQueries, Sent, NotSent
<1>3. (Fail(reasons) => phase' = "Frozen") /\ (NotSent(reasons) => phase' = "Frozen")
  BY DEF Fail, NotSent
<1> QED BY <1>1, <1>2, <1>3 DEF Excused, Idle, AskingOrders, SeenReset

\* A change of the link excuses the account.
LEMMA LinkExcuses ==
  ASSUME LinkChange PROVE Excused' /\ (SeenReset => SeenReset')
<1>1. "Authenticating" \notin {"Ready"} \cup Querying
      /\ "Disconnected" \notin {"Ready"} \cup Querying
      /\ "Frozen" \notin {"Ready"} \cup Querying
  BY DEF Querying
<1>2. CASE Connected
  <2>1. phase' \in {"Authenticating", "Frozen"}
    BY <1>2 DEF Connected, Sent, NotSent
  <2> QED BY <1>1, <2>1 DEF Excused, Idle, AskingOrders, SeenReset
<1>3. CASE Disconnected
  <2>1. phase' = "Disconnected"
    BY <1>3 DEF Disconnected
  <2> QED BY <1>1, <2>1 DEF Excused, Idle, AskingOrders, SeenReset
<1>4. CASE RequestReconciliation
  BY <1>4, QueriesExcused DEF RequestReconciliation
<1>5. CASE Overflow
  <2>1. \/ \E reasons : BeginQueries(reasons)
        \/ phase' = "Frozen"
    BY <1>5 DEF Overflow, Fail, Stay
  <2> QED BY <1>1, <2>1, QueriesExcused DEF Excused, Idle, AskingOrders, SeenReset
<1> QED BY <1>2, <1>3, <1>4, <1>5 DEF LinkChange

\* A row of a query is handled: the query goes on, or this was its last row, or
\* the recovery fails.
QueryRow == ReceiveOrderRow \/ ReceiveTradeRow \/ ReceivePositionRow \/ ReceiveFunds

\* A row of a query is one of the phase at hand; the last one makes the next request.
LEMMA QueryRowMoves ==
  ASSUME TruthInv, QueryRow
  PROVE  /\ answers # <<>> /\ Consume /\ 1 \in DOMAIN answers
         /\ Head(answers) = answers[1] /\ RowTrue(answers[1])
         /\ answers[1].current /\ ~answers[1].error /\ answers[1].phase = phase
         /\ asked = "None" /\ phase \in Querying
         /\ UNCHANGED history
         /\ \/ phase' = "Frozen"
            \/ phase' = phase /\ asked' = asked
            \/ /\ answers[1].last
               /\ \/ /\ phase = "QueryingOrders" /\ phase' = "QueryingTrades"
                     /\ asked' = phase'
                  \/ /\ phase = "QueryingTrades" /\ phase' = "QueryingPositions"
                     /\ asked' = phase'
                  \/ /\ phase = "QueryingPositions" /\ phase' = "QueryingFunds"
                     /\ asked' = phase'
                  \/ /\ phase = "QueryingFunds" /\ phase' = "Ready" /\ asked' = asked
<1>1. PICK m : m = Head(answers)
  OBVIOUS
<1>2. /\ answers # <<>> /\ Consume /\ UNCHANGED history
      /\ m.phase = phase /\ m.current /\ ~m.error /\ phase \in Querying
  BY <1>1 DEF QueryRow, ReceiveOrderRow, ReceiveTradeRow, ReceivePositionRow, ReceiveFunds,
              Receives, Expected, Querying
<1>3. 1 \in DOMAIN answers /\ m = answers[1] /\ RowTrue(m)
  BY <1>1, <1>2, HeadRow DEF TruthInv
<1>4. asked = "None"
  BY <1>2, <1>3 DEF TruthInv, AskedInv
<1>5. \/ phase' = "Frozen"
      \/ phase' = phase /\ asked' = asked
      \/ /\ m.last
         /\ \/ phase = "QueryingOrders" /\ phase' = "QueryingTrades" /\ asked' = phase'
            \/ phase = "QueryingTrades" /\ phase' = "QueryingPositions" /\ asked' = phase'
            \/ phase = "QueryingPositions" /\ phase' = "QueryingFunds" /\ asked' = phase'
            \/ phase = "QueryingFunds" /\ phase' = "Ready" /\ asked' = asked
  <2>1. CASE ReceiveOrderRow
    <3>1. /\ phase = "QueryingOrders"
          /\ \/ Fail(<<>>) \/ Stay(<<>>)
             \/ Ends(m) /\ Request("QueryingTrades", <<>>)
      BY <1>1, <2>1 DEF ReceiveOrderRow, Receives
    <3> QED BY <3>1, RequestKinds DEF Ends
  <2>2. CASE ReceiveTradeRow
    <3>1. /\ phase = "QueryingTrades"
          /\ \E reasons : \/ Fail(<<>>) \/ Stay(reasons)
                          \/ Ends(m) /\ Request("QueryingPositions", reasons)
      BY <1>1, <2>2 DEF ReceiveTradeRow, Receives
    <3> QED BY <3>1, RequestKinds DEF Ends
  <2>3. CASE ReceivePositionRow
    <3>1. /\ phase = "QueryingPositions"
          /\ \/ Fail(<<>>) \/ Stay(<<>>)
             \/ Ends(m) /\ Request("QueryingFunds", <<>>)
      BY <1>1, <2>3 DEF ReceivePositionRow, Receives
    <3> QED BY <3>1, RequestKinds DEF Ends
  <2>4. CASE ReceiveFunds
    <3>1. phase = "QueryingFunds" /\ phase' = "Ready" /\ asked' = asked
      BY <2>4 DEF ReceiveFunds, Receives
    <3>2. m.last
      BY <1>2, <1>3, <3>1 DEF RowTrue, AnswerRow
    <3> QED BY <3>1, <3>2
  <2> QED BY <2>1, <2>2, <2>3, <2>4 DEF QueryRow
<1> QED BY <1>1, <1>2, <1>3, <1>4, <1>5

\* What is due after a row
LEMMA RowsAfterRow ==
  ASSUME TruthInv, QueryRow
  PROVE  /\ \A j \in DOMAIN answers' :
              answers'[j].current =>
                phase' = phase /\ j \in Nat \ {0} /\ j + 1 \in DOMAIN answers
                /\ answers'[j] = answers[j + 1]
         /\ phase' = phase =>
              \A i \in DOMAIN answers \ {1} :
                i - 1 \in DOMAIN answers' /\ answers'[i - 1] = answers[i]
         /\ answers[1].last =>
              \A i \in DOMAIN answers : answers[i].current => i = 1
<1>1. /\ answers # <<>> /\ Consume /\ answers[1].current /\ 1 \in DOMAIN answers
  BY QueryRowMoves
<1>2. /\ DOMAIN answers \subseteq Nat \ {0}
      /\ \A i \in DOMAIN answers \ {1} : i - 1 \in DOMAIN answers'
      /\ \A j \in DOMAIN answers' :
           /\ j \in Nat \ {0} /\ j + 1 \in DOMAIN answers
           /\ answers'[j] = IF phase' = phase THEN answers[j + 1] ELSE Old(answers[j + 1])
  BY <1>1, Consumed DEF TruthInv
<1>3. \A i \in DOMAIN answers : Old(answers[i]).current = FALSE
  BY OldRow DEF TruthInv, RowsInv, RowTrue
<1>4. \A j \in DOMAIN answers' :
        answers'[j].current =>
          phase' = phase /\ j \in Nat \ {0} /\ j + 1 \in DOMAIN answers
          /\ answers'[j] = answers[j + 1]
  BY <1>2, <1>3
<1>5. ASSUME phase' = phase, NEW i \in DOMAIN answers \ {1}
      PROVE  i - 1 \in DOMAIN answers' /\ answers'[i - 1] = answers[i]
  <2>1. i \in Nat /\ i - 1 \in DOMAIN answers'
    BY <1>2
  <2>2. answers'[i - 1] = answers[(i - 1) + 1]
    BY <1>2, <1>5, <2>1
  <2> QED BY <2>1, <2>2
<1>6. ASSUME answers[1].last, NEW i \in DOMAIN answers, answers[i].current PROVE i = 1
  <2>1. i \in Nat \ {0}
    BY <1>2
  <2>2. ~(1 < i)
    BY <1>1, <1>6 DEF TruthInv, RowsInv
  <2> QED BY <2>1, <2>2
<1> QED BY <1>4, <1>5, <1>6

\* The rows behind the first k are those of an answer with these payloads.
AnsweredBy(k, payloads) ==
  /\ \A j \in DOMAIN answers' :
       answers'[j].current =>
         \/ answers'[j].row = <<>>
         \/ /\ j \in Nat /\ j - k \in DOMAIN payloads
            /\ answers'[j].row = <<payloads[j - k]>>
  /\ \A i \in DOMAIN payloads :
       /\ i \in Nat /\ k + i \in DOMAIN answers'
       /\ answers'[k + i].current /\ answers'[k + i].phase = asked
       /\ answers'[k + i].row = <<payloads[i]>>

\* The counter answers what was asked, with all that it knows, or with an error.
LEMMA NewAnswer ==
  ASSUME TruthInv, CounterAnswer
  PROVE  /\ asked # "None" /\ asked' = "None"
         /\ UNCHANGED <<account, counter, phase, seen, executed, history>>
         /\ asked # "LoggingIn" => UNCHANGED <<reports, trades>>
         /\ \/ Spoiled'
            \/ \E k \in Nat : \E payloads \in Payloads(asked) : AnsweredBy(k, payloads)
<1>1. /\ asked # "None" /\ asked' = "None"
      /\ UNCHANGED <<account, counter, phase, seen, executed, history>>
      /\ asked # "LoggingIn" => UNCHANGED <<reports, trades>>
  BY DEF CounterAnswer
<1>2. OpenLots("Buy") \in Int /\ OpenLots("Sell") \in Int
  BY LotsAreNumbersAll DEF TruthInv
<1>3. PICK more : /\ answers' = answers \o more /\ Answering(more)
                  /\ \/ \E i \in DOMAIN more : more[i].error
                     \/ \E payloads \in Payloads(asked) : more = RowsOf(asked, payloads)
  BY <1>2, AnswerSent DEF TruthInv
<1>4. PICK k \in Nat : k = Len(answers)
  BY <1>3, AnswerJoins DEF TruthInv
<1>5. /\ DOMAIN answers = 1 .. k /\ DOMAIN more = 1 .. Len(more) /\ Len(more) \in Nat
      /\ DOMAIN answers' = 1 .. k + Len(more)
      /\ \A j \in 1 .. Len(more) : answers'[k + j] = more[j]
      /\ \A j \in DOMAIN answers' :
           \/ j \in DOMAIN answers /\ answers'[j] = answers[j]
           \/ j - k \in DOMAIN more /\ answers'[j] = more[j - k]
  BY <1>3, <1>4, AnswerJoins DEF TruthInv
<1>6. \A i \in DOMAIN more : /\ more[i].current /\ more[i].phase = asked
                             /\ k + i \in DOMAIN answers' /\ i \in Nat
                             /\ answers'[k + i] = more[i]
  BY <1>3, <1>5 DEF Answering
<1>7. CASE \E i \in DOMAIN more : more[i].error
  BY <1>1, <1>6, <1>7 DEF Spoiled
<1>8. CASE \E payloads \in Payloads(asked) : more = RowsOf(asked, payloads)
  <2>1. PICK payloads \in Payloads(asked) : more = RowsOf(asked, payloads)
    BY <1>8
  <2>2. PICK R : payloads \in Seq(R)
    BY <1>1, <2>1, PayloadsSeq DEF TruthInv, AnswerInv
  <2>3. /\ \A i \in DOMAIN more :
             more[i].row = <<>> \/ (i \in DOMAIN payloads /\ more[i].row = <<payloads[i]>>)
        /\ \A i \in DOMAIN payloads : i \in DOMAIN more /\ more[i].row = <<payloads[i]>>
    BY <2>1, <2>2, RowsOfPayloads
  <2>4. ASSUME NEW j \in DOMAIN answers', answers'[j].current
        PROVE  \/ answers'[j].row = <<>>
               \/ /\ j \in Nat /\ j - k \in DOMAIN payloads
                  /\ answers'[j].row = <<payloads[j - k]>>
    <3>1. j \in Nat
      BY <1>5
    <3>2. ~(j \in DOMAIN answers /\ answers'[j] = answers[j])
      BY <1>1, <2>4 DEF TruthInv, AskedInv
    <3>3. j - k \in DOMAIN more /\ answers'[j] = more[j - k]
      BY <1>5, <3>2
    <3> QED BY <2>3, <3>1, <3>3
  <2>5. \A i \in DOMAIN payloads :
          /\ i \in Nat /\ k + i \in DOMAIN answers'
          /\ answers'[k + i].current /\ answers'[k + i].phase = asked
          /\ answers'[k + i].row = <<payloads[i]>>
    BY <1>6, <2>3
  <2>6. AnsweredBy(k, payloads)
    BY <2>4, <2>5 DEF AnsweredBy
  <2> QED BY <1>1, <2>1, <2>6
<1> QED BY <1>1, <1>3, <1>7, <1>8

\* The steps of the session, and a fault, leave the recovery as it is.
LEMMA SessionAside ==
  ASSUME TruthInv, SessionStep \/ MarkFault \/ UNCHANGED recoveryVars, UNCHANGED plan
  PROVE  /\ SameAsk /\ (frozen => frozen') /\ (alarmed => alarmed') /\ (crossed => crossed')
<1>1. CASE SessionStep
  <2>1. frozen => frozen'
    BY <1>1, SessionPart DEF TruthInv, SessionStep
  <2>2. UNCHANGED recovery
    BY <1>1 DEF SessionStep, Call, ReceivePushedReport, ReceivePushedTrade, CounterActs
  <2>3. SameAsk
    BY <2>2 DEF recovery, SameAsk
  <2>4. (alarmed => alarmed') /\ (crossed => crossed')
    <3>1. CASE Call
      BY <3>1 DEF Call, history
    <3>2. CASE ReceivePushedReport
      BY <3>2 DEF ReceivePushedReport
    <3>3. CASE ReceivePushedTrade
      BY <3>3 DEF ReceivePushedTrade
    <3>4. CASE CounterActs
      BY <3>4 DEF CounterActs
    <3> QED BY <1>1, <3>1, <3>2, <3>3, <3>4 DEF SessionStep
  <2> QED BY <2>1, <2>3, <2>4
<1>2. CASE MarkFault
  BY <1>2, SessionFaults DEF MarkFault, recovery, history, SameAsk, TruthInv
<1>3. CASE UNCHANGED recoveryVars
  BY <1>3 DEF recoveryVars, vars, recovery, history, SameAsk
<1> QED BY <1>1, <1>2, <1>3

\* The steps of the session, and those that leave a recovery as it is
Aside == SessionStep \/ MarkFault \/ UNCHANGED recoveryVars

\* The kinds of step a recovery is made of
LEMMA TurnKinds ==
  ASSUME [RecoveryNext]_recoveryVars
  PROVE  /\ UNCHANGED plan
         /\ \/ Aside \/ LinkChange \/ CounterAnswer \/ QueryRow
            \/ ReceiveLogin \/ ReceiveSettlement \/ ReceiveFlawed
<1>1. CASE UNCHANGED recoveryVars
  BY <1>1 DEF recoveryVars, vars, Aside
<1>2. CASE RecoveryNext
  BY <1>2 DEF RecoveryNext, ReceiveAnswer, Aside, SessionStep, LinkChange, QueryRow
<1> QED BY <1>1, <1>2

\* Before the queries, an answer leads on to another request or to them.
LEMMA LoginExcuses ==
  ASSUME ReceiveLogin \/ ReceiveSettlement \/ ReceiveFlawed
  PROVE  Excused' /\ SeenReset'
<1>1. /\ {"LoggingIn", "QueryingSettlementConfirmation", "ConfirmingSettlement", "Frozen"}
           \cap ({"Ready"} \cup Querying) = {}
  BY DEF Querying
<1>2. \/ phase' \in {"LoggingIn", "QueryingSettlementConfirmation",
                     "ConfirmingSettlement", "Frozen"}
      \/ \E reasons : BeginQueries(reasons)
  BY RequestKinds DEF ReceiveLogin, ReceiveSettlement, ReceiveFlawed
<1>3. CASE \E reasons : BeginQueries(reasons)
  BY <1>3, QueriesExcused
<1>4. CASE phase' \in {"LoggingIn", "QueryingSettlementConfirmation",
                       "ConfirmingSettlement", "Frozen"}
  BY <1>1, <1>4 DEF Excused, Idle, AskingOrders, SeenReset
<1> QED BY <1>2, <1>3, <1>4

\* An account of which nothing was expected is expected to know something only
\* when the counter answers the query for its orders.
LEMMA ExcuseEnds ==
  ASSUME TruthInv, [RecoveryNext]_recoveryVars, Excused
  PROVE  Excused' \/ (CounterAnswer /\ AskingOrders)
<1>1. CASE Aside
  <2>1. SameAsk /\ (frozen => frozen') /\ (alarmed => alarmed')
    BY <1>1, TurnKinds, SessionAside DEF Aside
  <2> QED BY <2>1 DEF SameAsk, Excused, Idle, AskingOrders, Spoiled
<1>2. CASE LinkChange
  BY <1>2, LinkExcuses
<1>3. CASE CounterAnswer
  <2>1. asked # "None" /\ UNCHANGED <<phase, frozen, alarmed>>
    BY <1>3, NewAnswer DEF account, history
  <2>3. Spoiled => alarmed
    BY <2>1 DEF Spoiled, TruthInv, AskedInv
  <2> QED BY <1>3, <2>1, <2>3 DEF Excused, Idle, Spoiled
<1>4. CASE QueryRow
  <2>1. /\ phase \in Querying /\ asked = "None" /\ ~answers[1].error /\ 1 \in DOMAIN answers
        /\ alarmed' = alarmed
        /\ phase' = "Frozen" \/ phase' = phase \/ answers[1].last
    BY <1>4, QueryRowMoves DEF history
  <2>2. "Frozen" \notin {"Ready"} \cup Querying
    BY DEF Querying
  <2>3. CASE phase' = "Frozen"
    BY <2>2, <2>3 DEF Excused, Idle
  <2>4. "Ready" \notin Querying /\ "None" # "QueryingOrders"
    BY DEF Querying
  <2>5. Spoiled
    BY <2>1, <2>4 DEF Excused, Idle, AskingOrders
  <2>6. CASE alarmed
    BY <2>1, <2>6 DEF Excused, Spoiled
  <2>7. CASE \E i \in DOMAIN answers : answers[i].current /\ answers[i].error
    <3>1. PICK i \in DOMAIN answers : answers[i].current /\ answers[i].error
      BY <2>7
    <3>2. i # 1
      BY <2>1, <3>1
    <3>3. ~answers[1].last
      BY <1>4, <3>1, <3>2, RowsAfterRow
    <3>4. CASE phase' = phase
      <4>1. i - 1 \in DOMAIN answers' /\ answers'[i - 1] = answers[i]
        BY <1>4, <3>1, <3>2, <3>4, RowsAfterRow
      <4> QED BY <3>1, <4>1 DEF Excused, Spoiled
    <3> QED BY <2>1, <2>3, <3>3, <3>4
  <2> QED BY <2>5, <2>6, <2>7 DEF Spoiled
<1>5. CASE ReceiveLogin \/ ReceiveSettlement \/ ReceiveFlawed
  BY <1>5, LoginExcuses
<1> QED BY <1>1, <1>2, <1>3, <1>4, <1>5, TurnKinds

\* Rows name orders only once the query of the orders is answered.
LEMMA SeenResetStays ==
  ASSUME TruthInv, SeenReset, [RecoveryNext]_recoveryVars
  PROVE  SeenReset'
<1>1. CASE Aside
  <2>1. SameAsk
    BY <1>1, TurnKinds, SessionAside DEF Aside
  <2> QED BY <2>1 DEF SameAsk, SeenReset, AskingOrders
<1>2. CASE LinkChange
  BY <1>2, LinkExcuses
<1>3. CASE CounterAnswer
  BY <1>3, NewAnswer DEF SeenReset, AskingOrders
<1>4. CASE QueryRow
  <2>1. phase' # "QueryingOrders" \/ asked' = "None"
    BY <1>4, QueryRowMoves
  <2> QED BY <2>1 DEF SeenReset, AskingOrders
<1>5. CASE ReceiveLogin \/ ReceiveSettlement \/ ReceiveFlawed
  BY <1>5, LoginExcuses
<1> QED BY <1>1, <1>2, <1>3, <1>4, <1>5, TurnKinds

\* The steps of a recovery, or after one, of which something is expected
LEMMA ExpectedSteps ==
  ASSUME TruthInv, [RecoveryNext]_recoveryVars, ~Excused'
  PROVE  \/ ~Excused /\ Aside
         \/ ~Excused /\ QueryRow /\ phase' # "Frozen"
         \/ CounterAnswer /\ (~Excused \/ AskingOrders)
<1>1. Excused => CounterAnswer /\ AskingOrders
  BY ExcuseEnds
<1>2. "Frozen" \notin {"Ready"} \cup Querying
  BY DEF Querying
<1>3. phase' # "Frozen"
  BY <1>2 DEF Excused, Idle
<1>4. /\ LinkChange => Excused'
      /\ ReceiveLogin \/ ReceiveSettlement \/ ReceiveFlawed => Excused'
  BY LinkExcuses, LoginExcuses
<1>5. CASE Excused
  BY <1>1, <1>5
<1>6. CASE ~Excused
  BY <1>3, <1>4, <1>6, TurnKinds
<1> QED BY <1>5, <1>6

-----------------------------------------------------------------------------
(* The ends of the orders *)

\* The account knows that the order has ended, and holds no open slot for it.
EndKnown(o) ==
  /\ \/ State(o) \in Terminal \/ book.orders[o].cancelAck
     \/ book.orders[o].reported = Quantity(o)
  /\ ~records[o].activeOpen
\* The report of its end has been pushed.
EndPushed(o) ==
  \E i \in DOMAIN reports : reports[i].id = o /\ reports[i].type \in EndTypes
\* Its end stands in the answer to the query of the orders.
EndDue(o) ==
  phase = "QueryingOrders"
    /\ \E i : Due(i) /\ answers[i].row[1].id = o /\ answers[i].row[1].type \in EndTypes
\* Of every order that has ended the account knows, or is about to.
EndsKnown ==
  \A o \in Orders : Ended(o) => EndKnown(o) \/ EndPushed(o) \/ EndDue(o)

\* A report of the end of an order ends it in the book.
LEMMA EndMerged ==
  ASSUME NEW o, NEW p, NEW r, Merged(o, p, r), r.type \in EndTypes,
         o.state \in OrderStates, r.type = "Canceled" => o.state # "Filled"
  PROVE  p.state \in Terminal
<1>1. /\ r.type = "Rejected" => o.state \in ReportSource(r.type) \cup {"Rejected"}
      /\ r.type = "Canceled" => o.state \in ReportSource(r.type)
      /\ r.type = "Filled" => o.state \in ReportSource(r.type)
  BY DEF Merged, Contradicts, ReportSource
<1>2. p.state = StateAfterReport(o, r) /\ r.type \in {"Rejected", "Canceled", "Filled"}
  BY DEF Merged, Merges, EndTypes
<1>3. p.state \in {r.type, "Rejected"}
  BY <1>1, <1>2 DEF StateAfterReport, ReportTarget
<1> QED BY <1>2, <1>3 DEF Terminal

\* After the report of an end was taken in, the account knows of it.
LEMMA EndTaken ==
  ASSUME TruthInv, NEW o \in Orders, NEW r \in OrderReport, ToldOrder(o, r),
         r.type \in EndTypes, Merged(book.orders[o], book'.orders[o], r),
         records'[o].activeOpen => State(o)' \notin Terminal
  PROVE  EndKnown(o)'
<1>1. book.orders[o] \in Order /\ OrderTrue(o) /\ TrueReport(r) /\ r.id = o
  BY OrderKnown DEF TruthInv, OrderFacts, ToldOrder
<1>2. book.orders[o].state \in OrderStates
  BY <1>1 DEF Order, Merged
<1>3. r.type = "Canceled" => book.orders[o].state # "Filled"
  BY <1>1 DEF TrueReport, OrderTrue
<1>4. book'.orders[o].state \in Terminal
  BY <1>2, <1>3, EndMerged
<1> QED BY <1>4 DEF EndKnown, State

\* Such a report is never older than what the book has.
LEMMA EndIsNews ==
  ASSUME TruthInv, NEW r \in OrderReport, TrueReport(r), r.type \in EndTypes
  PROVE  ~(r.cum < book.orders[r.id].reported)
<1>1. r.id \in Orders /\ r.cum \in Int
  BY DEF OrderReport
<1>2. /\ book.orders[r.id] \in Order /\ counter[r.id] \in CounterOrder /\ OrderTrue(r.id)
  BY <1>1, OrderKnown DEF TruthInv, OrderFacts
<1>3. /\ book.orders[r.id].reported \in Nat /\ counter[r.id].filled \in Nat
      /\ r.cum = counter[r.id].filled /\ book.orders[r.id].reported <= counter[r.id].filled
  BY <1>2 DEF Order, CounterOrder, OrderTrue, TrueReport
<1> QED BY <1>3

\* OrderKnown, after a step
LEMMA OrderKnownLater ==
  ASSUME NEW o \in Orders
  PROVE  (AccountInv /\ OrdersInv =>
           (State(o) # "Absent" => /\ book.orders[o].accounted <= Quantity(o)
                                   /\ Accounted(o) = Quantity(o) => State(o) = "Filled"))'
<1>1. AccountInv /\ OrdersInv =>
        (State(o) # "Absent" => /\ book.orders[o].accounted <= Quantity(o)
                                /\ Accounted(o) = Quantity(o) => State(o) = "Filled")
  BY OrderKnown
<1> QED BY <1>1, PTL

\* What the account knows of an end it never forgets.
LEMMA EndStaysKnown ==
  ASSUME TruthInv, AccountInv', OrdersInv', OrderFacts', NEW o \in Orders,
         OrderMoves(o), Ended(o), Ended(o)', EndKnown(o)
  PROVE  EndKnown(o)'
<1>0. /\ CounterTrue(o) /\ OrderTrue(o) /\ CounterTrue(o)' /\ OrderTrue(o)'
      /\ Status(o) \in EndTypes /\ Status(o)' \in EndTypes
  BY DEF TruthInv, OrderFacts, Ended
<1>1. /\ book.orders[o] \in Order /\ counter[o] \in CounterOrder
      /\ AtCounter(o) /\ State(o) # "Absent"
      /\ Quantity(o) \in Nat \ {0} /\ book.orders[o].accounted <= Quantity(o)
      /\ book.orders[o].reported \in Nat /\ counter[o].filled \in Nat
      /\ book.orders[o].cancelAck \in BOOLEAN
  <2>1. AtCounter(o) /\ State(o) # "Absent"
    BY <1>0 DEF CounterTrue, Status, EndTypes, AtCounter, Unsent
  <2> QED BY <2>1, OrderKnown DEF TruthInv, Order, CounterOrder
<1>2. counter[o].filled <= Quantity(o)
  BY <1>0, <1>1 DEF CounterTrue, Status, EndTypes
<1>3. /\ State(o)' # "Absent" => /\ book'.orders[o].accounted <= Quantity(o)'
                                 /\ Accounted(o)' = Quantity(o)' => State(o)' = "Filled"
      /\ book'.orders[o] \in Order /\ AtCounter(o)' /\ State(o)' # "Absent"
  <2>1. AtCounter(o)' /\ State(o)' # "Absent"
    BY <1>0 DEF CounterTrue, Status, EndTypes, AtCounter, Unsent
  <2>2. book'.orders[o] \in Order
    BY DEF AccountInv, SessionTypes, SoundBook, Book
  <2>3. State(o)' # "Absent" => /\ book'.orders[o].accounted <= Quantity(o)'
                                /\ Accounted(o)' = Quantity(o)' => State(o)' = "Filled"
    BY OrderKnownLater
  <2> QED BY <2>1, <2>2, <2>3
<1>4. Terminal \cap Working = {} /\ "Filled" \in Terminal
  BY DEF Terminal, Working
<1>5. CASE KeptOrder(o)
  BY <1>4, <1>5 DEF KeptOrder, SameCounts, EndKnown, Quantity
<1>6. CASE EnteredOrder(o)
  BY <1>0, <1>6 DEF EnteredOrder, EndTypes
<1>7. CASE \E r \in OrderReport : ToldOrder(o, r)
  <2>1. PICK r \in OrderReport : ToldOrder(o, r)
    BY <1>7
  <2>2. Quantity(o)' = Quantity(o) /\ ~records'[o].activeOpen
    BY <2>1 DEF ToldOrder, SlotAfter, Quantity, EndKnown
  <2>3. CASE SameOrder(book.orders[o], book'.orders[o])
    BY <2>2, <2>3 DEF SameOrder, SameCounts, EndKnown, State
  <2>4. CASE Merged(book.orders[o], book'.orders[o], r)
    <3>1. /\ book'.orders[o].reported = r.cum /\ r.cum >= book.orders[o].reported
          /\ r.cum <= counter[o].filled /\ r.cum \in Int
          /\ book.orders[o].cancelAck => book'.orders[o].cancelAck
          /\ book'.orders[o].accounted = book.orders[o].accounted
      BY <1>1, <2>1, <2>4 DEF Merged, Merges, ToldOrder, TrueReport, OrderReport
    <3>2. book.orders[o].reported = Quantity(o) => book'.orders[o].reported = Quantity(o)
      BY <1>1, <1>2, <3>1
    <3>3. State(o) \in {"Canceled"} => book.orders[o].cancelAck
      BY <1>0 DEF OrderTrue, State
    <3>4. State(o) = "Filled" => \/ book.orders[o].reported = Quantity(o)
                                 \/ book'.orders[o].state = "Filled"
      BY <1>0, <1>3, <2>2, <3>1 DEF OrderTrue, State, Accounted
    <3>5. State(o) = "Rejected" => State(o)' = "Rejected"
      <4>1. ASSUME State(o) = "Rejected" PROVE r.type # "Filled"
        BY <1>0, <2>1, <4>1 DEF ToldOrder, TrueReport, OrderTrue, EndTypes, State
      <4>2. ASSUME State(o) = "Rejected" PROVE StateAfterReport(book.orders[o], r) = "Rejected"
        BY <2>4, <4>1, <4>2 DEF StateAfterReport, ReportSource, ReportTarget, Merged,
                                Contradicts, State, OrderReport, ReportTypes
      <4> QED BY <2>4, <4>2 DEF Merged, Merges, State
    <3>6. State(o) \in Terminal => State(o) \in {"Canceled", "Filled", "Rejected"}
      BY <1>0, <1>1 DEF Terminal, AtCounter, Unsent, OrderTrue, State
    <3>7. "Rejected" \in Terminal
      BY DEF Terminal
    <3> QED BY <1>4, <2>2, <3>1, <3>2, <3>3, <3>4, <3>5, <3>6, <3>7 DEF EndKnown, State
  <2> QED BY <2>1, <2>3, <2>4 DEF ToldOrder
<1>8. CASE \E t \in TradeReport : TradedOrder(o, t)
  <2>1. PICK t \in TradeReport : TradedOrder(o, t)
    BY <1>8
  <2>2. Quantity(o)' = Quantity(o) /\ ~records'[o].activeOpen
    BY <2>1 DEF TradedOrder, SlotAfter, Quantity, EndKnown
  <2>3. CASE SameOrder(book.orders[o], book'.orders[o])
    BY <2>2, <2>3 DEF SameOrder, SameCounts, EndKnown, State
  <2>4. CASE /\ Fills(book.orders[o], book'.orders[o], t)
             /\ Accounted(o)' <= counter[o].filled
    <3>1. /\ book'.orders[o].reported = book.orders[o].reported
          /\ book'.orders[o].cancelAck = book.orders[o].cancelAck
          /\ book'.orders[o].accounted = book.orders[o].accounted + t.quantity
          /\ t.quantity > 0 /\ t.quantity \in Int /\ book.orders[o].accounted \in Nat
          /\ book'.orders[o].accounted <= counter[o].filled
      BY <1>1, <2>1, <2>4 DEF Fills, TradeReport, Order, Accounted
    <3>2. State(o) # "Rejected"
      <4>1. counter[o].filled # 0
        BY <1>1, <3>1
      <4> QED BY <4>1, TradedAtCounter, <1>0 DEF TruthInv
    <3>3. book.orders[o].accounted # Quantity(o)
      BY <1>1, <1>2, <3>1
    <3>4. State(o) \in Terminal => State(o) \in {"Canceled", "Filled"}
      BY <1>0, <1>1, <3>2 DEF Terminal, AtCounter, Unsent, OrderTrue, State
    <3>5. State(o) \in Terminal =>
            book.orders[o].cancelAck \/ book.orders[o].reported = Quantity(o)
      BY <1>0, <3>3, <3>4 DEF OrderTrue, State
    <3> QED BY <2>2, <3>1, <3>5 DEF EndKnown
  <2> QED BY <2>1, <2>3, <2>4 DEF TradedOrder
<1>9. CASE AccountAside(o) /\ MovedOrder(o)
  BY <1>9 DEF AccountAside, EndKnown, Quantity, State
<1> QED BY <1>5, <1>6, <1>7, <1>8, <1>9 DEF OrderMoves

\* Something is expected of an account in these phases alone.
LEMMA ExpectedPhase ==
  ASSUME ~Excused
  PROVE  /\ phase = "Ready" \/ phase \in Querying
         /\ phase = "Ready" => ~frozen
         /\ ~alarmed /\ phase # "Frozen"
         /\ ~(phase = "QueryingOrders" /\ asked = phase)
BY DEF Excused, Idle, AskingOrders, Spoiled, Querying

\* An account that asks has been answered about the orders before.
LEMMA ExpectedAsk ==
  ASSUME TruthInv, ~Excused, asked # "None"
  PROVE  asked = phase /\ asked \in Querying \ {"QueryingOrders"}
<1>1. asked = phase /\ asked \in Asking
  BY ExpectedPhase DEF TruthInv, AskedInv
<1>2. "Ready" \notin Asking
  BY PhaseNames
<1> QED BY <1>1, <1>2, ExpectedPhase

\* A pushed message that contradicts the book freezes the account.
LEMMA ConflictFreezes ==
  ASSUME TruthInv
  PROVE  /\ ReceiveReport /\ ReportResult(Head(reports)).reconcile => frozen'
         /\ ReceiveTrade /\ ApplyTrade(book, Head(trades)).reconcile => frozen'
<1>1. ASSUME ReceiveReport, ReportResult(Head(reports)).reconcile PROVE frozen'
  <2> DEFINE m == Head(reports)
             result == ReportResult(m)
             canceled == EndsExit(m, result)
             a == ResultFaults(result)
             b == If(m.kind = "CancelResponse" /\ exit.id = m.id, "CloseCancelRejected")
             c == If(canceled /\ exit.freezeAfterCancel, "CloseRetryExhausted")
             d == If(canceled /\ ~book'.positions[Instrument].occupied, "StateConflict")
             R == {"StateConflict", "CloseCancelRejected", "CloseRetryExhausted"}
  <2>1. SetFaults(a \o b \o c \o d)
    BY <1>1 DEF ReceiveReport
  <2>2. /\ a \in {<<>>} \cup {<<x>> : x \in R} /\ a # <<>>
        /\ b \in {<<>>} \cup {<<x>> : x \in R}
        /\ c \in {<<>>} \cup {<<x>> : x \in R}
        /\ d \in {<<>>} \cup {<<x>> : x \in R}
    BY <1>1 DEF If, ResultFaults
  <2> HIDE DEF a, b, c, d, R
  <2>3. a \o b \o c \o d # <<>>
    BY <2>2, FaultsJoined
  <2> QED BY <2>1, <2>3 DEF SetFaults
<1>2. ASSUME ReceiveTrade, ApplyTrade(book, Head(trades)).reconcile PROVE frozen'
  <2> DEFINE t == Head(trades)
             result == ApplyTrade(book, t)
             a == ResultFaults(result)
             b == TradeFaults(t.id, result)
  <2>1. SetFaults(a \o b)
    BY <1>2 DEF ReceiveTrade
  <2>2. a = <<"StateConflict">> /\ b \in {<<>>, <<"StateConflict">>}
    BY <1>2 DEF If, ResultFaults, TradeFaults
  <2>3. \A s \in {<<>>, <<"StateConflict">>} : <<"StateConflict">> \o s # <<>>
    OBVIOUS
  <2> HIDE DEF a, b
  <2> QED BY <2>1, <2>2, <2>3 DEF SetFaults
<1> QED BY <1>1, <1>2

\* So what a recovering account is told agrees with its book.
LEMMA PushedAgrees ==
  ASSUME TruthInv, UNCHANGED plan, ~Excused, ~Excused'
  PROVE  /\ ReceivePushedReport => ~ReportResult(Head(reports)).reconcile
         /\ ReceivePushedTrade => ~ApplyTrade(book, Head(trades)).reconcile
<1>1. phase = "Ready" \/ phase \in Querying
  BY ExpectedPhase
<1>2. phase' = "Ready" => ~frozen'
  BY DEF Excused, Idle
<1>3. ~alarmed'
  BY DEF Excused, Spoiled
<1>4. ReceivePushedReport \/ ReceivePushedTrade => phase' = phase
  BY SessionAside DEF SessionStep, SameAsk
<1> QED BY <1>1, <1>2, <1>3, <1>4, ConflictFreezes DEF ReceivePushedReport, ReceivePushedTrade

\* Where the others stand when the first is gone
LEMMA TailIndex ==
  ASSUME NEW R, NEW s \in Seq(R), NEW i \in DOMAIN s, i # 1
  PROVE  s # <<>> => i - 1 \in DOMAIN Tail(s) /\ Tail(s)[i - 1] = s[i]
OBVIOUS

\* and where they stand when one is added
LEMMA AppendIndex ==
  ASSUME NEW R, NEW s \in Seq(R), NEW x
  PROVE  /\ \A i \in DOMAIN s : i \in DOMAIN Append(s, x) /\ Append(s, x)[i] = s[i]
         /\ Len(s) + 1 \in DOMAIN Append(s, x) /\ Append(s, x)[Len(s) + 1] = x
OBVIOUS

\* So it is unless the account is excused.
EndsExpected == ~Excused => EndsKnown

\* An end known, pushed or due stays so when the account is told nothing else.
LEMMA EndsGoOn ==
  ASSUME TruthInv, TruthInv', StepTells, NEW o \in Orders, Ended(o)',
         Ended(o) => EndKnown(o) \/ EndPushed(o),
         Ended(o) \/ EndPushed(o)',
         \A i \in DOMAIN reports :
           reports[i].id = o /\ reports[i].type \in EndTypes => EndPushed(o)' \/ EndKnown(o)'
  PROVE  EndKnown(o)' \/ EndPushed(o)'
<1>1. OrderMoves(o) /\ AccountInv' /\ OrdersInv' /\ OrderFacts'
  BY DEF StepTells, TruthInv
<1>2. CASE EndKnown(o) /\ Ended(o)
  BY <1>1, <1>2, EndStaysKnown
<1>3. CASE EndPushed(o)
  BY <1>3 DEF EndPushed
<1> QED BY <1>2, <1>3

\* The status of an order changes only when it is sent and when the counter acts
\* on it, or loses it.
LEMMA EndsElsewhere ==
  ASSUME TruthInv, UNCHANGED plan, NEW o \in Orders, Ended(o)',
         \/ Call \/ ReceivePushedReport \/ ReceivePushedTrade
         \/ UNCHANGED counter
  PROVE  Ended(o)
<1>1. CASE UNCHANGED counter
  BY <1>1 DEF Ended, Status
<1>2. CASE Call
  <2>1. KeptOrder(o) \/ EnteredOrder(o)
    BY <1>2, CallTells DEF TruthInv
  <2> QED BY <2>1 DEF KeptOrder, EnteredOrder, Ended, EndTypes
<1>3. CASE ReceivePushedReport \/ ReceivePushedTrade
  BY <1>1, <1>3 DEF ReceivePushedReport, ReceivePushedTrade, ReceiveReport, ReceiveTrade
<1> QED BY <1>1, <1>2, <1>3

\* It stays so in the steps of the session,
LEMMA EndsAside ==
  ASSUME TruthInv, TruthInv', StepTells, UNCHANGED plan, Aside, ~Excused, ~Excused', EndsKnown
  PROVE  EndsKnown'
<1>1. reports \in Seq(Message) /\ SameAsk
  BY SessionAside DEF TruthInv, AccountInv, SessionTypes, Aside
<1> SUFFICES ASSUME NEW o \in Orders, Ended(o)'
             PROVE  EndKnown(o)' \/ EndPushed(o)' \/ EndDue(o)'
  BY DEF EndsKnown
<1>2. EndDue(o) => EndDue(o)'
  BY <1>1 DEF SameAsk, EndDue, Due
<1>3. Ended(o) => EndKnown(o) \/ EndPushed(o) \/ EndDue(o)
  BY DEF EndsKnown
<1> SUFFICES ASSUME ~EndDue(o) PROVE EndKnown(o)' \/ EndPushed(o)'
  BY <1>2
<1>4. CASE Call \/ ReceivePushedTrade \/ MarkFault \/ UNCHANGED recoveryVars
  <2>1. reports' = reports /\ (UNCHANGED counter \/ Call \/ ReceivePushedTrade)
    <3>1. CASE Call
      BY <3>1, CallTells DEF TruthInv
    <3>2. CASE ReceivePushedTrade
      BY <3>2 DEF ReceivePushedTrade, ReceiveTrade
    <3>3. CASE MarkFault
      BY <3>3 DEF MarkFault, environment
    <3>4. CASE UNCHANGED recoveryVars
      BY <3>4 DEF recoveryVars, vars
    <3> QED BY <1>4, <3>1, <3>2, <3>3, <3>4
  <2>2. Ended(o)
    BY <2>1, EndsElsewhere
  <2> QED BY <1>3, <2>1, <2>2, EndsGoOn DEF EndPushed
<1>5. CASE ReceivePushedReport
  <2>1. PICK r \in OrderReport :
          /\ r.id = reports[1].id /\ r.type = reports[1].type
          /\ ToldOrder(r.id, r)
          /\ book' = ApplyOrderReport(book, r).book
          /\ ReportResult(Head(reports)) = ApplyOrderReport(book, r)
          /\ records'[r.id].activeOpen => State(r.id)' \notin Terminal
    BY <1>5, PushedReportTells
  <2>2. PICK result : result = ApplyOrderReport(book, r)
    OBVIOUS
  <2>3. ~result.reconcile /\ book' = result.book
    BY <1>5, <2>1, <2>2, PushedAgrees
  <2>4. /\ reports # <<>> /\ reports' = Tail(reports) /\ r.id \in Orders
        /\ SoundBook(book) /\ TrueReport(r) /\ Ended(o)
    <3>1. reports # <<>> /\ reports' = Tail(reports)
      BY <1>5 DEF ReceivePushedReport, ReceiveReport
    <3>2. r.id \in Orders
      BY DEF OrderReport
    <3>3. TrueReport(r)
      BY <2>1 DEF ToldOrder
    <3>4. Ended(o)
      BY <1>5, EndsElsewhere
    <3> QED BY <3>1, <3>2, <3>3, <3>4 DEF TruthInv, AccountInv, SessionTypes
  <2>5. ASSUME r.type \in EndTypes PROVE EndKnown(r.id)'
    <3>1. ~(r.cum < book.orders[r.id].reported)
      BY <2>4, <2>5, EndIsNews
    <3>2. Merged(book.orders[r.id], book'.orders[r.id], r)
      BY <2>2, <2>3, <2>4, <3>1, ReportTaken
    <3> QED BY <2>1, <2>4, <2>5, <3>2, EndTaken
  <2>6. ASSUME NEW i \in DOMAIN reports, reports[i].id = o, reports[i].type \in EndTypes
        PROVE  EndPushed(o)' \/ EndKnown(o)'
    <3>1. CASE i = 1
      BY <2>1, <2>5, <2>6, <3>1
    <3>2. CASE i # 1
      <4>1. i - 1 \in DOMAIN reports' /\ reports'[i - 1] = reports[i]
        BY <1>1, <2>4, <3>2, TailIndex
      <4> QED BY <2>6, <4>1 DEF EndPushed
    <3> QED BY <3>1, <3>2
  <2> QED BY <1>3, <2>4, <2>6, EndsGoOn
<1>6. CASE CounterActs
  <2>1. PICK p \in Orders :
          /\ \A q \in Orders \ {p} : SameAtCounter(q)
          /\ \E m : /\ reports' = Append(reports, m) /\ m.id = p
                    /\ Ended(p)' /\ ~Ended(p) => m.type \in EndTypes
    BY <1>6, CounterActsTells
  <2>2. PICK m : /\ reports' = Append(reports, m) /\ m.id = p
                 /\ Ended(p)' /\ ~Ended(p) => m.type \in EndTypes
    BY <2>1
  <2>3. \A i \in DOMAIN reports : i \in DOMAIN reports' /\ reports'[i] = reports[i]
    BY <1>1, <2>2, AppendIndex
  <2>4. EndPushed(o) => EndPushed(o)'
    BY <2>3 DEF EndPushed
  <2>5. Ended(o) \/ EndPushed(o)'
    <3>1. CASE o # p
      BY <2>1, <3>1 DEF SameAtCounter, Ended
    <3>2. CASE o = p
      <4>1. Len(reports) + 1 \in DOMAIN reports' /\ reports'[Len(reports) + 1] = m
        BY <1>1, <2>2, AppendIndex
      <4> QED BY <2>2, <3>2, <4>1 DEF EndPushed
    <3> QED BY <3>1, <3>2
  <2> QED BY <1>3, <2>3, <2>5, EndsGoOn DEF EndPushed
<1> QED BY <1>4, <1>5, <1>6 DEF Aside, SessionStep

\* when a row of a query arrives,
LEMMA EndsAfterRow ==
  ASSUME TruthInv, TruthInv', StepTells, UNCHANGED plan, QueryRow, phase' # "Frozen", EndsKnown
  PROVE  EndsKnown'
<1>1. UNCHANGED <<counter, reports>>
  BY RowKinds DEF QueryRow, ReceiveAnswer, environment
<1> SUFFICES ASSUME NEW o \in Orders, Ended(o)'
             PROVE  EndKnown(o)' \/ EndPushed(o)' \/ EndDue(o)'
  BY DEF EndsKnown
<1>2. Ended(o) /\ (EndKnown(o) \/ EndPushed(o) \/ EndDue(o))
  BY <1>1 DEF Ended, Status, EndsKnown
<1>3. CASE EndKnown(o) \/ EndPushed(o)
  BY <1>1, <1>2, <1>3, EndsGoOn DEF EndPushed
<1>4. CASE EndDue(o)
  <2>1. phase = "QueryingOrders"
    BY <1>4 DEF EndDue
  <2>2. PICK i : Due(i) /\ answers[i].row[1].id = o /\ answers[i].row[1].type \in EndTypes
    BY <1>4 DEF EndDue
  <2>3. CASE i = 1
    <3>1. ReceiveOrderRow
      BY <2>1 DEF QueryRow, ReceiveTradeRow, ReceivePositionRow, ReceiveFunds, Receives
    <3>2. PICK r \in OrderReport : r = answers[1].row[1] /\ OrderRowTold(r)
      BY <2>2, <2>3, <3>1, OrderRowTells DEF Due
    <3>3. PICK result : result = ApplyOrderReport(book, r)
      OBVIOUS
    <3>4. /\ ~result.reconcile /\ ToldOrder(r.id, r) /\ r.id = o /\ r.type \in EndTypes
          /\ \/ r.cum < book.orders[r.id].reported
             \/ Merged(book.orders[r.id], result.book.orders[r.id], r)
          /\ book'.orders[r.id] = result.book.orders[r.id]
          /\ records'[r.id].activeOpen => State(r.id)' \notin Terminal
      BY <2>2, <2>3, <3>2, <3>3 DEF OrderRowTold
    <3>5. TrueReport(r)
      BY <3>4 DEF ToldOrder
    <3>6. ~(r.cum < book.orders[r.id].reported)
      BY <3>4, <3>5, EndIsNews
    <3>7. Merged(book.orders[r.id], book'.orders[r.id], r)
      BY <3>4, <3>6
    <3> QED BY <3>4, <3>7, EndTaken
  <2>4. CASE i # 1
    <3>1. i \in DOMAIN answers /\ answers[i].current
      BY <2>2 DEF Due
    <3>2. ~answers[1].last /\ phase' = phase
      BY <2>4, <3>1, RowsAfterRow, QueryRowMoves
    <3>3. i - 1 \in DOMAIN answers' /\ answers'[i - 1] = answers[i]
      BY <2>4, <3>1, <3>2, RowsAfterRow
    <3> QED BY <2>1, <2>2, <3>2, <3>3 DEF EndDue, Due
  <2> QED BY <2>3, <2>4
<1> QED BY <1>2, <1>3, <1>4

\* and when the counter answers: an answer to the order query names every end.
LEMMA EndsAnswered ==
  ASSUME TruthInv, TruthInv', StepTells, UNCHANGED plan, CounterAnswer, ~Excused',
         (~Excused /\ EndsKnown) \/ AskingOrders
  PROVE  EndsKnown'
<1>1. /\ UNCHANGED <<account, counter, phase>> /\ asked # "None"
      /\ asked # "LoggingIn" => UNCHANGED reports
      /\ \E k \in Nat : \E payloads \in Payloads(asked) : AnsweredBy(k, payloads)
  BY NewAnswer DEF Excused
<1>2. asked # "LoggingIn"
  BY <1>1, ExpectedAsk DEF AskingOrders, Querying
<1>3. UNCHANGED <<counter, reports, book, records>>
  BY <1>1, <1>2 DEF account
<1> SUFFICES ASSUME NEW o \in Orders, Ended(o)'
             PROVE  EndKnown(o)' \/ EndPushed(o)' \/ EndDue(o)'
  BY DEF EndsKnown
<1>4. Ended(o)
  BY <1>3 DEF Ended, Status
<1>5. CASE ~Excused /\ EndsKnown
  <2>1. ~EndDue(o)
    BY <1>1 DEF EndDue, Due, TruthInv, AskedInv
  <2>2. EndKnown(o) \/ EndPushed(o)
    BY <1>4, <1>5, <2>1 DEF EndsKnown
  <2> QED BY <1>3, <2>2 DEF EndKnown, EndPushed, State, Quantity
<1>6. CASE AskingOrders
  <2>1. asked = "QueryingOrders" /\ phase' = "QueryingOrders"
    BY <1>1, <1>6 DEF AskingOrders
  <2>2. PICK k \in Nat, payloads \in Payloads(asked) : AnsweredBy(k, payloads)
    BY <1>1
  <2>3. payloads = [i \in DOMAIN KnownOrders |-> StatusReport(KnownOrders[i])]
    BY <2>1 DEF Payloads
  <2>4. o \in AtHand
    BY <1>4 DEF Ended, EndTypes, AtHand
  <2>5. PICK i \in DOMAIN KnownOrders : KnownOrders[i] = o
    BY <2>4, KnownOrdersAll
  <2>6. payloads[i] = StatusReport(o) /\ i \in DOMAIN payloads
    BY <2>3, <2>5
  <2>7. payloads[i].id = o /\ payloads[i].type \in EndTypes
    BY <1>4, <2>4, <2>6, StatusReportTrue DEF TruthInv
  <2>8. /\ k + i \in DOMAIN answers' /\ answers'[k + i].current
        /\ answers'[k + i].phase = asked /\ answers'[k + i].row = <<payloads[i]>>
    BY <2>2, <2>6 DEF AnsweredBy
  <2>9. answers'[k + i].row # <<>> /\ answers'[k + i].row[1] = payloads[i]
    BY <2>8
  <2>10. Due(k + i)'
    BY <2>1, <2>8, <2>9 DEF Due
  <2> QED BY <2>1, <2>7, <2>9, <2>10 DEF EndDue
<1> QED BY <1>5, <1>6

\* So every step leaves the ends known.
LEMMA EndsStayExpected ==
  ASSUME TruthInv, TruthInv', StepTells, [RecoveryNext]_recoveryVars, EndsExpected
  PROVE  EndsExpected'
<1> SUFFICES ASSUME ~Excused' PROVE EndsKnown'
  BY DEF EndsExpected
<1>1. UNCHANGED plan
  BY TurnKinds
<1> QED BY <1>1, ExpectedSteps, EndsAside, EndsAfterRow, EndsAnswered DEF EndsExpected

-----------------------------------------------------------------------------
(* The orders that were lost on their way *)

\* An order the account sent and the counter does not know
LostOrder(o) == AtCounter(o) /\ Status(o) = "None"
\* The query of the orders is answered, and does not name the lost ones.
LostUnnamed ==
  \A o \in Orders :
    LostOrder(o) =>
      /\ phase = "QueryingOrders" /\ o \notin seen
      /\ \A i : Due(i) => answers[i].row[1].id # o
\* So it is unless the account is excused.
LostExpected == ~Excused => LostUnnamed

\* Only a disconnection loses orders.
LEMMA LostBefore ==
  ASSUME TruthInv, NEW o \in Orders, OrderMoves(o), LostOrder(o)',
         Status(o)' = "None" => Status(o) = "None"
  PROVE  LostOrder(o)
<1>1. Status(o) = "None" /\ State(o)' \notin Unsent
  BY DEF LostOrder, AtCounter
<1>2. State(o) \notin Unsent
  <2>1. CASE KeptOrder(o)
    <3>1. Working \cap Unsent = {}
      BY DEF Working, Unsent
    <3> QED BY <1>1, <2>1, <3>1 DEF KeptOrder
  <2>2. CASE EnteredOrder(o)
    BY <1>1, <2>2 DEF EnteredOrder, LostOrder
  <2>3. CASE \E r \in OrderReport : ToldOrder(o, r)
    <3>1. PICK r \in OrderReport : ToldOrder(o, r)
      BY <2>3
    <3>2. CASE SameOrder(book.orders[o], book'.orders[o])
      BY <1>1, <3>2 DEF SameOrder, State
    <3>3. CASE Merged(book.orders[o], book'.orders[o], r)
      BY <3>3 DEF Merged, Malformed, State, Unsent
    <3> QED BY <3>1, <3>2, <3>3 DEF ToldOrder
  <2>4. CASE \E t \in TradeReport : TradedOrder(o, t)
    <3>1. PICK t \in TradeReport : TradedOrder(o, t)
      BY <2>4
    <3>2. CASE SameOrder(book.orders[o], book'.orders[o])
      BY <1>1, <3>2 DEF SameOrder, State
    <3>3. CASE /\ Fills(book.orders[o], book'.orders[o], t)
               /\ Accounted(o)' <= counter[o].filled
      <4>1. counter[o].filled = 0
        BY <1>1 DEF TruthInv, OrderFacts, CounterTrue, Status
      <4>2. /\ book'.orders[o].accounted = book.orders[o].accounted + t.quantity
            /\ t.quantity > 0 /\ t.quantity \in Int /\ book.orders[o].accounted \in Nat
        BY <3>3, OrderKnown DEF Fills, TradeReport, Order, TruthInv
      <4> QED BY <3>3, <4>1, <4>2 DEF Accounted
    <3> QED BY <3>1, <3>2, <3>3 DEF TradedOrder
  <2>5. CASE AccountAside(o) /\ MovedOrder(o)
    BY <1>1, <2>5 DEF AccountAside, State
  <2> QED BY <2>1, <2>2, <2>3, <2>4, <2>5 DEF OrderMoves
<1> QED BY <1>1, <1>2 DEF LostOrder, AtCounter

\* It stays so in the steps of the session, which lose no order,
LEMMA LostAside ==
  ASSUME TruthInv, StepTells, UNCHANGED plan, Aside, LostUnnamed
  PROVE  LostUnnamed'
<1>1. SameAsk
  BY SessionAside DEF Aside
<1>2. \A o \in Orders : LostOrder(o)' => LostOrder(o)
  <2>1. ASSUME NEW o \in Orders, Status(o)' = "None", AtCounter(o)' PROVE Status(o) = "None"
    <3>1. CASE Call
      <4>1. KeptOrder(o) \/ EnteredOrder(o)
        BY <3>1, CallTells DEF TruthInv
      <4> QED BY <2>1, <4>1 DEF KeptOrder, EnteredOrder
    <3>2. CASE ReceivePushedReport \/ ReceivePushedTrade \/ MarkFault \/ UNCHANGED recoveryVars
      <4>1. counter' = counter
        BY <3>2 DEF ReceivePushedReport, ReceivePushedTrade, ReceiveReport, ReceiveTrade,
                    MarkFault, environment, recoveryVars, vars
      <4> QED BY <2>1, <4>1 DEF Status
    <3>3. CASE CounterActs
      <4>1. PICK p \in Orders : /\ \A q \in Orders \ {p} : SameAtCounter(q)
                                /\ Status(p)' = "None" => Status(p) = "None"
        BY <3>3, CounterActsTells
      <4> QED BY <2>1, <4>1 DEF SameAtCounter
    <3> QED BY <3>1, <3>2, <3>3 DEF Aside, SessionStep
  <2> QED BY <2>1, LostBefore DEF StepTells, LostOrder
<1> QED BY <1>1, <1>2 DEF LostUnnamed, SameAsk, Due

\* when a row arrives, for at the last one an order not seen freezes the account,
LEMMA LostAfterRow ==
  ASSUME TruthInv, TruthInv', StepTells, UNCHANGED plan, QueryRow, phase' # "Frozen",
         LostUnnamed
  PROVE  LostUnnamed'
<1>1. UNCHANGED counter
  BY RowKinds DEF QueryRow, ReceiveAnswer, environment
<1> SUFFICES ASSUME NEW o \in Orders, LostOrder(o)'
             PROVE  /\ phase' = "QueryingOrders" /\ o \notin seen'
                    /\ \A i : Due(i)' => answers'[i].row[1].id # o
  BY DEF LostUnnamed
<1>2. LostOrder(o)
  BY <1>1, LostBefore DEF StepTells, Status
<1>3. /\ phase = "QueryingOrders" /\ o \notin seen
      /\ \A i : Due(i) => answers[i].row[1].id # o
  BY <1>2 DEF LostUnnamed
<1>4. ReceiveOrderRow
  BY <1>3 DEF QueryRow, ReceiveTradeRow, ReceivePositionRow, ReceiveFunds, Receives
<1>5. o \notin seen'
  <2>1. CASE answers[1].row = <<>>
    BY <1>3, <1>4, <2>1, OrderRowTells
  <2>2. CASE answers[1].row # <<>>
    <3>1. PICK r \in OrderReport : r = answers[1].row[1] /\ OrderRowTold(r)
      BY <1>4, <2>2, OrderRowTells
    <3>2. Due(1)
      BY <1>3, <2>2, QueryRowMoves DEF Due
    <3> QED BY <1>3, <3>1, <3>2 DEF OrderRowTold
  <2> QED BY <2>1, <2>2
<1>6. phase' = "QueryingOrders"
  <2>1. /\ o \in Records /\ State(o)' \notin Terminal \cup {"Absent"}
    <3>1. o \in Records
      BY <1>2, OrderKnown DEF LostOrder, AtCounter, Unsent, TruthInv
    <3>2. OrderTrue(o)' /\ State(o)' \notin Unsent /\ Status(o)' = "None"
      BY DEF TruthInv, OrderFacts, LostOrder, AtCounter
    <3> QED BY <3>1, <3>2 DEF OrderTrue, Terminal, Unsent, State
  <2>2. Missing(book', seen')
    BY <1>5, <2>1 DEF Missing, State
  <2>3. \/ Fail(<<>>) \/ Stay(<<>>)
        \/ ~Missing(book', seen')
    BY <1>4 DEF ReceiveOrderRow
  <2> QED BY <1>3, <2>2, <2>3 DEF Fail, Stay
<1>7. ASSUME NEW i, Due(i)' PROVE answers'[i].row[1].id # o
  <2>1. i + 1 \in DOMAIN answers /\ answers'[i] = answers[i + 1]
    BY <1>7, RowsAfterRow DEF Due
  <2>2. Due(i + 1)
    BY <1>3, <1>6, <1>7, <2>1 DEF Due
  <2> QED BY <1>3, <2>1, <2>2
<1> QED BY <1>5, <1>6, <1>7

\* and when the counter answers, which names no order that it does not have.
LEMMA LostAnswered ==
  ASSUME TruthInv, StepTells, UNCHANGED plan, CounterAnswer, ~Excused', SeenReset,
         (~Excused /\ LostUnnamed) \/ AskingOrders
  PROVE  LostUnnamed'
<1>1. /\ UNCHANGED <<account, counter, phase, seen>> /\ asked # "None"
      /\ \E k \in Nat : \E payloads \in Payloads(asked) : AnsweredBy(k, payloads)
  BY NewAnswer DEF Excused
<1> SUFFICES ASSUME NEW o \in Orders, LostOrder(o)'
             PROVE  /\ phase' = "QueryingOrders" /\ o \notin seen'
                    /\ \A i : Due(i)' => answers'[i].row[1].id # o
  BY DEF LostUnnamed
<1>2. LostOrder(o)
  BY <1>1 DEF LostOrder, Status, AtCounter, State, account
<1>3. AskingOrders
  BY <1>1, <1>2, ExpectedAsk DEF LostUnnamed
<1>4. asked = "QueryingOrders" /\ phase' = "QueryingOrders" /\ seen' = {}
  BY <1>1, <1>3 DEF AskingOrders, SeenReset
<1>5. PICK k \in Nat, payloads \in Payloads(asked) : AnsweredBy(k, payloads)
  BY <1>1
<1>6. payloads = [i \in DOMAIN KnownOrders |-> StatusReport(KnownOrders[i])]
  BY <1>4 DEF Payloads
<1>7. ASSUME NEW i, Due(i)' PROVE answers'[i].row[1].id # o
  <2>1. i - k \in DOMAIN payloads /\ answers'[i].row = <<payloads[i - k]>>
    BY <1>5, <1>7 DEF AnsweredBy, Due
  <2>2. PICK p \in AtHand : payloads[i - k] = StatusReport(p)
    BY <1>6, <2>1, KnownOrdersAll
  <2>3. payloads[i - k].id = p
    BY <2>2, StatusReportTrue DEF TruthInv
  <2>4. p # o
    BY <1>2 DEF AtHand, LostOrder
  <2> QED BY <2>1, <2>3, <2>4
<1> QED BY <1>4, <1>7

\* So every step leaves no lost order behind.
LEMMA LostStayExpected ==
  ASSUME TruthInv, TruthInv', StepTells, [RecoveryNext]_recoveryVars, LostExpected, SeenReset
  PROVE  LostExpected'
<1> SUFFICES ASSUME ~Excused' PROVE LostUnnamed'
  BY DEF LostExpected
<1>1. UNCHANGED plan
  BY TurnKinds
<1> QED BY <1>1, ExpectedSteps, LostAside, LostAfterRow, LostAnswered DEF LostExpected

-----------------------------------------------------------------------------
(* The trades *)

\* The trade stands in the answer to the query of the trades.
TradeDue(t) ==
  phase = "QueryingTrades" /\ \E i : Due(i) /\ answers[i].row[1] = t
\* Every trade executed is in the book, on its way, or yet to be asked for.
TradesKnown ==
  \A t \in Range(executed) :
    \/ t \in book.trades \/ t \in Range(trades)
    \/ phase = "QueryingOrders" \/ (phase = "QueryingTrades" /\ asked = phase)
    \/ TradeDue(t)
\* So it is unless the account is excused.
TradesExpected == ~Excused => TradesKnown

\* The book forgets no trade.
LEMMA TradesStayInBook ==
  ASSUME StepTells PROVE book.trades \subseteq book'.trades
<1>1. CASE LotsKept
  BY <1>1 DEF LotsKept
<1>2. CASE \E t : LotsLearnt(t)
  BY <1>2 DEF LotsLearnt, Learns
<1>3. CASE \E o \in Orders : \E t : LotsFilled(o, t)
  BY <1>3 DEF LotsFilled
<1> QED BY <1>1, <1>2, <1>3 DEF StepTells, LotsMove

\* A pushed trade comes into the book, and an executed one is pushed.
LEMMA TradesAside ==
  ASSUME TruthInv, StepTells, UNCHANGED plan, Aside, ~Excused, ~Excused'
  PROVE  \A t \in Range(executed)' :
           \/ t \in Range(executed) /\ t \notin Range(trades)
           \/ t \in book'.trades \/ t \in Range(trades)'
<1>1. trades \in Seq(Trade) /\ executed \in Seq(Trade)
  BY DEF TruthInv, AccountInv, SessionTypes, TradesTrue
<1>2. CASE Call \/ ReceivePushedReport \/ MarkFault \/ UNCHANGED recoveryVars
  <2>1. UNCHANGED <<trades, executed>>
    <3>1. CASE Call
      BY <3>1, CallTells DEF TruthInv, Call, world
    <3>2. CASE ReceivePushedReport
      BY <3>2 DEF ReceivePushedReport, ReceiveReport, world
    <3>3. CASE MarkFault
      BY <3>3 DEF MarkFault, environment, world
    <3>4. CASE UNCHANGED recoveryVars
      BY <3>4 DEF recoveryVars, vars, world
    <3> QED BY <1>2, <3>1, <3>2, <3>3, <3>4
  <2> QED BY <2>1
<1>3. CASE ReceivePushedTrade
  <2>1. PICK t : t = Head(trades)
    OBVIOUS
  <2>2. ~ApplyTrade(book, t).reconcile
    BY <1>3, <2>1, PushedAgrees
  <2>3. t \in book'.trades
    <3>1. \/ LotsKept /\ t \in book.trades
          \/ LotsLearnt(t)
      BY <1>3, <2>1, <2>2, PushedTradeTells
    <3> QED BY <3>1 DEF LotsKept, LotsLearnt, Learns
  <2>4. executed' = executed /\ trades # <<>> /\ trades' = Tail(trades)
    BY <1>3 DEF ReceivePushedTrade, ReceiveTrade, world
  <2>5. ASSUME NEW u \in Range(trades), u # t PROVE u \in Range(trades)'
    <3>1. PICK i \in DOMAIN trades : trades[i] = u
      BY DEF Range
    <3>2. i # 1
      BY <1>1, <2>1, <2>4, <2>5, <3>1
    <3>3. i - 1 \in DOMAIN trades' /\ trades'[i - 1] = u
      BY <1>1, <2>4, <3>1, <3>2, TailIndex
    <3> QED BY <3>3 DEF Range
  <2> QED BY <2>3, <2>4, <2>5
<1>4. CASE CounterActs
  <2>1. \/ UNCHANGED <<trades, executed>>
        \/ \E u : executed' = Append(executed, u) /\ trades' = Append(trades, u)
    BY <1>4, CounterActsTells DEF LotsFilled, FilledBy
  <2>2. CASE \E u : executed' = Append(executed, u) /\ trades' = Append(trades, u)
    <3>1. PICK u : executed' = Append(executed, u) /\ trades' = Append(trades, u)
      BY <2>2
    <3>2. /\ Range(executed)' = Range(executed) \cup {u}
          /\ Range(trades)' = Range(trades) \cup {u}
      BY <1>1, <3>1, RangeAppend
    <3> QED BY <3>2
  <2> QED BY <2>1, <2>2
<1> QED BY <1>2, <1>3, <1>4 DEF Aside, SessionStep

\* It stays so in the steps of the session,
LEMMA TradesKnownAside ==
  ASSUME TruthInv, StepTells, UNCHANGED plan, Aside, ~Excused, ~Excused', TradesKnown
  PROVE  TradesKnown'
<1>1. SameAsk
  BY SessionAside DEF Aside
<1>2. \A t : TradeDue(t)' <=> TradeDue(t)
  BY <1>1 DEF SameAsk, TradeDue, Due
<1>3. book.trades \subseteq book'.trades
  BY TradesStayInBook
<1> SUFFICES ASSUME NEW t \in Range(executed)', t \notin book'.trades, t \notin Range(trades)'
             PROVE  \/ phase' = "QueryingOrders"
                    \/ phase' = "QueryingTrades" /\ asked' = phase'
                    \/ TradeDue(t)'
  BY DEF TradesKnown
<1>4. t \in Range(executed) /\ t \notin Range(trades) /\ t \notin book.trades
  BY <1>3, TradesAside
<1> QED BY <1>1, <1>2, <1>4 DEF TradesKnown, SameAsk

\* A row of the query takes its trade into the book, and leaves the others due.
LEMMA TradesAfterRow ==
  ASSUME TruthInv, StepTells, UNCHANGED plan, ReceiveTradeRow, phase' # "Frozen",
         NEW t, TradeDue(t)
  PROVE  t \in book'.trades \/ (phase' = phase /\ TradeDue(t)')
<1>1. QueryRow /\ phase = "QueryingTrades"
  BY DEF QueryRow, TradeDue
<1>2. PICK i : Due(i) /\ answers[i].row[1] = t
  BY DEF TradeDue
<1>3. CASE i = 1
  <2>1. \E u \in Range(executed) : u = answers[1].row[1] /\ TradeRowTold(u)
    BY <1>2, <1>3, TradeRowTells DEF Due
  <2> QED BY <1>2, <1>3, <2>1 DEF TradeRowTold
<1>4. CASE i # 1
  <2>1. i \in DOMAIN answers /\ answers[i].current
    BY <1>2 DEF Due
  <2>2. ~answers[1].last /\ phase' = phase
    BY <1>1, <1>4, <2>1, RowsAfterRow, QueryRowMoves
  <2>3. i - 1 \in DOMAIN answers' /\ answers'[i - 1] = answers[i]
    BY <1>1, <1>4, <2>1, <2>2, RowsAfterRow
  <2> QED BY <1>1, <1>2, <2>2, <2>3 DEF TradeDue, Due
<1> QED BY <1>3, <1>4

\* when a row of a query arrives,
LEMMA TradesKnownAfterRow ==
  ASSUME TruthInv, StepTells, UNCHANGED plan, QueryRow, phase' # "Frozen", TradesKnown
  PROVE  TradesKnown'
<1>1. UNCHANGED <<executed, trades>> /\ book.trades \subseteq book'.trades
  BY RowKinds, TradesStayInBook DEF QueryRow, ReceiveAnswer, environment
<1> SUFFICES ASSUME NEW t \in Range(executed), t \notin book'.trades, t \notin Range(trades)
             PROVE  \/ phase' = "QueryingOrders"
                    \/ phase' = "QueryingTrades" /\ asked' = phase'
                    \/ TradeDue(t)'
  BY <1>1 DEF TradesKnown
<1>2. \/ phase = "QueryingOrders" \/ (phase = "QueryingTrades" /\ asked = phase)
      \/ TradeDue(t)
  BY <1>1 DEF TradesKnown
<1>3. CASE phase = "QueryingOrders"
  BY <1>3, QueryRowMoves
<1>4. CASE TradeDue(t)
  <2>1. ReceiveTradeRow
    BY <1>4 DEF TradeDue, QueryRow, ReceiveOrderRow, ReceivePositionRow, ReceiveFunds, Receives
  <2> QED BY <1>4, <2>1, TradesAfterRow
<1> QED BY <1>2, <1>3, <1>4, QueryRowMoves

\* The answer to the query of the trades has every trade of the day.
LEMMA TradesAnswered ==
  ASSUME TruthInv, CounterAnswer, ~Excused', asked = "QueryingTrades", NEW t \in Range(executed)
  PROVE  asked = phase => TradeDue(t)'
<1>1. /\ UNCHANGED phase
      /\ \E k \in Nat : \E payloads \in Payloads(asked) : AnsweredBy(k, payloads)
  BY NewAnswer DEF Excused
<1>2. PICK k \in Nat, payloads \in Payloads(asked) : AnsweredBy(k, payloads)
  BY <1>1
<1>3. payloads = executed
  BY <1>2 DEF Payloads
<1>4. PICK i \in DOMAIN payloads : payloads[i] = t
  BY <1>3 DEF Range
<1>5. /\ k + i \in DOMAIN answers' /\ answers'[k + i].current
      /\ answers'[k + i].phase = asked /\ answers'[k + i].row = <<payloads[i]>>
  BY <1>2, <1>4 DEF AnsweredBy
<1>6. answers'[k + i].row # <<>> /\ answers'[k + i].row[1] = t
  BY <1>4, <1>5
<1> QED BY <1>1, <1>5, <1>6 DEF TradeDue, Due

\* and when the counter answers with the trades of the day.
LEMMA TradesKnownAnswered ==
  ASSUME TruthInv, UNCHANGED plan, CounterAnswer, ~Excused',
         (~Excused /\ TradesKnown) \/ AskingOrders
  PROVE  TradesKnown'
<1>1. /\ UNCHANGED <<account, phase, executed>> /\ asked # "None" /\ asked' = "None"
      /\ asked # "LoggingIn" => UNCHANGED trades
  BY NewAnswer
<1>2. CASE AskingOrders
  BY <1>1, <1>2 DEF AskingOrders, TradesKnown
<1>3. CASE ~Excused /\ TradesKnown
  <2>1. asked = phase /\ phase # "QueryingOrders" /\ UNCHANGED <<book, trades>>
    BY <1>1, <1>3, ExpectedAsk DEF account, Querying
  <2>2. \A t : ~TradeDue(t)
    BY <1>1 DEF TradeDue, Due, TruthInv, AskedInv
  <2>3. \A t \in Range(executed) :
          t \in book.trades \/ t \in Range(trades) \/ phase = "QueryingTrades"
    BY <1>3, <2>1, <2>2 DEF TradesKnown
  <2> QED BY <1>1, <2>1, <2>3, TradesAnswered DEF TradesKnown
<1> QED BY <1>2, <1>3

\* So every step leaves the trades known.
LEMMA TradesStayExpected ==
  ASSUME TruthInv, StepTells, [RecoveryNext]_recoveryVars, TradesExpected
  PROVE  TradesExpected'
<1> SUFFICES ASSUME ~Excused' PROVE TradesKnown'
  BY DEF TradesExpected
<1>1. UNCHANGED plan
  BY TurnKinds
<1> QED BY <1>1, ExpectedSteps, TradesKnownAside, TradesKnownAfterRow, TradesKnownAnswered
        DEF TradesExpected

-----------------------------------------------------------------------------
(* The positions, side by side *)

\* The sides of a position,
Sides == {"long", "short"}
\* the direction of the orders that open it,
DirectionOf(side) == IF side = "long" THEN "Buy" ELSE "Sell"
\* and what the book holds on it
HeldOn(side) == IF side = "long" THEN Held.long ELSE Held.short
\* The position the fills the book has counted come to
BookedOn(side) == Booked(DirectionOf(side))

\* A row of the position query for this side is on its way.
DueOn(i, side) == Due(i) /\ answers[i].row[1].side = side
\* The book's position is the one of the counter, less a row that is due.
SideDue(side) ==
  /\ (\A i : ~DueOn(i, side)) => HeldOn(side) = BookedOn(side)
  /\ \A i : DueOn(i, side) => HeldOn(side) + answers[i].row[1].quantity = BookedOn(side)
  /\ \A i, j : DueOn(i, side) /\ DueOn(j, side) => i = j

\* What is held and what is booked are numbers.
LEMMA SidesAreNumbers ==
  ASSUME TruthInv, NEW side
  PROVE  HeldOn(side) \in Nat /\ BookedOn(side) \in Int
<1>1. Held.long \in Nat /\ Held.short \in Nat
  BY SessionAssumption DEF TruthInv, AccountInv, SessionTypes, SoundBook, Book, Position, Held
<1> QED BY <1>1, MarketIsNumber DEF TruthInv, HeldOn, BookedOn

\* While nothing is accounted, what is booked stays.
LEMMA BookedKept ==
  ASSUME AccountInv, IntentsStay, \A o \in Orders : Accounted(o)' = Accounted(o), NEW side
  PROVE  BookedOn(side)' = BookedOn(side)
<1> DEFINE later == Intents'
           more == Known'
           direction == DirectionOf(side)
<1>1. \A o \in Orders : Known[o] \in Int
  BY KnownTypes
<1>2. \A o \in Orders : /\ more[o] = Known[o]
                        /\ later[o] = Intents[o] \/ Known[o] = 0
  BY DEF IntentsStay, Known, Intents
<1>3. Booked(direction)' = Amount(later, direction, more)
  BY DEF Booked, Amount, Amounts, DirectionOf
<1> HIDE DEF later, more
<1>4. Booked(direction)' = Booked(direction)
  BY <1>1, <1>2, <1>3, AmountSame DEF Booked
<1> QED BY <1>4 DEF BookedOn

\* A trade accounted adds its lots to it.
LEMMA BookedLearnt ==
  ASSUME AccountInv, NEW o \in Orders, NEW n \in Int, NEW side,
         \A p \in Orders : records'[p].intent = records[p].intent,
         \A p \in Orders \ {o} : Accounted(p)' = Accounted(p),
         Accounted(o)' = Accounted(o) + n
  PROVE  BookedOn(side)' = BookedOn(side) + Term(records[o].intent, DirectionOf(side), n)
<1> DEFINE later == Intents'
           more == Known'
           direction == DirectionOf(side)
<1>1. \A p \in Orders : Known[p] \in Int /\ later[p] = Intents[p]
  BY KnownTypes DEF Intents
<1>2. (\A p \in Orders \ {o} : more[p] = Known[p]) /\ more[o] = Known[o] + n
  BY DEF Known
<1>3. Booked(direction)' = Amount(later, direction, more)
  BY DEF Booked, Amount, Amounts, DirectionOf
<1>4. Intents[o] = records[o].intent
  BY DEF Intents
<1> HIDE DEF later, more, direction
<1>5. Amount(later, direction, more)
        = Amount(Intents, direction, Known) + Term(Intents[o], direction, n)
  BY ONLY <1>1, <1>2, AmountMore, o \in Orders, n \in Int
<1>6. Booked(direction)' = Booked(direction) + Term(records[o].intent, direction, n)
  BY <1>3, <1>4, <1>5 DEF Booked
<1> QED BY <1>6 DEF BookedOn, direction

\* A trade adds to a side what it adds to the sum of the fills.
LEMMA TradeOnSide ==
  ASSUME NEW p \in Position, NEW t, t.quantity \in Int, ~Overcloses(p, t),
         t.direction \in {"Buy", "Sell"}, t.offset \in {"Open", "Close"}
  PROVE  LET q == PositionAfterTrade(p, t) IN
         /\ q.long = p.long + Term(t, "Buy", t.quantity)
         /\ q.short = p.short + Term(t, "Sell", t.quantity)
<1> DEFINE q == PositionAfterTrade(p, t)
           n == t.quantity
<1>0. p.long \in Int /\ p.short \in Int /\ -n \in Int /\ n \in Int
  BY DEF Position
<1>1. CASE t.offset = "Open" /\ t.direction = "Buy"
  <2>1. Term(t, "Buy", n) = n /\ Term(t, "Sell", n) = 0
    BY <1>1 DEF Term
  <2>2. q.long = p.long + n /\ q.short = p.short
    BY <1>0, <1>1 DEF PositionAfterTrade, Opens, Side, Position
  <2> HIDE DEF q, n
  <2> QED BY <1>0, <2>1, <2>2 DEF q, n
<1>2. CASE t.offset = "Open" /\ t.direction = "Sell"
  <2>1. Term(t, "Buy", n) = 0 /\ Term(t, "Sell", n) = n
    BY <1>2 DEF Term
  <2>2. q.long = p.long /\ q.short = p.short + n
    BY <1>0, <1>2 DEF PositionAfterTrade, Opens, Side, Position
  <2> HIDE DEF q, n
  <2> QED BY <1>0, <2>1, <2>2 DEF q, n
<1>3. CASE t.offset = "Close" /\ t.direction = "Sell"
  <2>1. Term(t, "Buy", n) = -n /\ Term(t, "Sell", n) = 0
    BY <1>3 DEF Term
  <2>2. q.long = p.long + (-n) /\ q.short = p.short
    BY <1>0, <1>3 DEF PositionAfterTrade, Opens, Side, Position
  <2> HIDE DEF q, n
  <2> QED BY <1>0, <2>1, <2>2 DEF q, n
<1>4. CASE t.offset = "Close" /\ t.direction = "Buy"
  <2>1. Term(t, "Buy", n) = 0 /\ Term(t, "Sell", n) = -n
    BY <1>4 DEF Term
  <2>2. q.long = p.long /\ q.short = p.short + (-n)
    BY <1>0, <1>4 DEF PositionAfterTrade, Opens, Side, Position
  <2> HIDE DEF q, n
  <2> QED BY <1>0, <2>1, <2>2 DEF q, n
<1> QED BY <1>1, <1>2, <1>3, <1>4

\* What the book holds and what its fills come to change by the same lots.
MovesTogether(side) ==
  \E n \in Int : /\ HeldOn(side)' = HeldOn(side) + n
                 /\ BookedOn(side)' = BookedOn(side) + n

\* A trade recorded adds the same to what is held and to what is booked,
LEMMA LearntOnSides ==
  ASSUME TruthInv, NEW t \in Trade, LotsLearnt(t),
         ~Overcloses(book.positions[t.instrument], t),
         book'.positions = RecordTrade(book, t).positions,
         \A p \in Orders : records'[p].intent = records[p].intent,
         NEW side \in Sides
  PROVE  MovesTogether(side)
<1>1. /\ t.id \in Orders /\ t.quantity \in Int /\ t.instrument \in Instruments
      /\ t.direction \in {"Buy", "Sell"} /\ t.offset \in {"Open", "Close"}
  BY DEF Trade, TradeReport, Directions, Offsets
<1>2. PICK o : o = t.id
  OBVIOUS
<1>3. PICK n : n = t.quantity
  OBVIOUS
<1>4. PICK intent : intent = records[o].intent
  OBVIOUS
<1>5. Fills(book.orders[o], book'.orders[o], t)
  BY <1>2 DEF LotsLearnt, Learns
<1>6. /\ t.instrument = Instrument /\ t.direction = intent.direction
      /\ t.offset = intent.offset
  <2>1. book.orders[o].seed = SeedOf(intent)
    BY <1>1, <1>2, <1>4, <1>5 DEF TruthInv, OrdersInv, BookNamesRecords, Fills, State
  <2> QED BY <1>5, <2>1 DEF Fills, Mismatched, SeedOf
<1>7. BookedOn(side)' = BookedOn(side) + Term(intent, DirectionOf(side), n)
  <2>1. Accounted(o)' = Accounted(o) + n
    BY <1>3, <1>5 DEF Fills, Accounted
  <2>2. \A p \in Orders \ {o} : Accounted(p)' = Accounted(p)
    BY <1>2 DEF LotsLearnt, OthersAccounted
  <2>3. BookedOn(side)' = BookedOn(side) + Term(records[o].intent, DirectionOf(side), n)
    BY <1>1, <1>2, <1>3, <2>1, <2>2, BookedLearnt DEF TruthInv
  <2> QED BY <1>4, <2>3
<1>8. HeldOn(side)' = HeldOn(side) + Term(t, DirectionOf(side), n)
  <2>1. PICK p : p = Held
    OBVIOUS
  <2>2. p \in Position /\ book.positions \in [Instruments -> Position]
    BY <2>1, SessionAssumption
      DEF TruthInv, AccountInv, SessionTypes, SoundBook, Book, Held
  <2>3. PICK q : q = PositionAfterTrade(p, t)
    OBVIOUS
  <2>4. /\ q.long = p.long + Term(t, "Buy", n)
        /\ q.short = p.short + Term(t, "Sell", n)
    BY <1>1, <1>3, <1>6, <2>1, <2>2, <2>3, TradeOnSide DEF Held
  <2>5. Held' = q
    <3>1. book \in Book
      BY DEF TruthInv, AccountInv, SessionTypes, SoundBook
    <3>2. book'.positions
            = [book.positions EXCEPT ![t.instrument] = PositionAfterTrade(@, t)]
      BY <3>1 DEF RecordTrade, Book
    <3> QED BY <1>1, <1>6, <2>1, <2>2, <2>3, <3>2 DEF Held
  <2> QED BY <2>1, <2>4, <2>5 DEF HeldOn, DirectionOf
<1>9. Term(t, DirectionOf(side), n) = Term(intent, DirectionOf(side), n)
  BY <1>6 DEF Term
<1>10. Term(intent, DirectionOf(side), n) \in Int
  BY <1>1, <1>3, TermValues
<1> QED BY <1>7, <1>8, <1>9, <1>10 DEF MovesTogether

\* and both stay while nothing is recorded.
LEMMA KeptOnSides ==
  ASSUME TruthInv, StepTells, \A o \in Orders : Accounted(o)' = Accounted(o),
         book'.positions = book.positions, NEW side
  PROVE  /\ MovesTogether(side)
         /\ HeldOn(side)' = HeldOn(side) /\ BookedOn(side)' = BookedOn(side)
<1>1. IntentsStay
  BY IntentsAreKept DEF TruthInv, StepTells
<1>2. BookedOn(side)' = BookedOn(side)
  BY <1>1, BookedKept DEF TruthInv
<1>3. HeldOn(side)' = HeldOn(side)
  BY DEF HeldOn, Held
<1>4. /\ HeldOn(side)' = HeldOn(side) + 0 /\ BookedOn(side)' = BookedOn(side) + 0
  BY <1>2, <1>3, SidesAreNumbers
<1> QED BY <1>2, <1>3, <1>4 DEF MovesTogether

\* The steps of the session move them together.
LEMMA SidesAside ==
  ASSUME TruthInv, StepTells, UNCHANGED plan, Aside, ~Excused, ~Excused'
  PROVE  /\ \A side \in Sides : MovesTogether(side)
         /\ Range(executed) \subseteq book.trades => book'.positions = book.positions
<1>1. CASE /\ book'.positions = book.positions
           /\ \A o \in Orders : Accounted(o)' = Accounted(o)
  BY <1>1, KeptOnSides
<1>2. CASE Call
  <2>1. book'.positions = book.positions /\ \A o \in Orders : KeptOrder(o) \/ EnteredOrder(o)
    BY <1>2, CallTells DEF TruthInv
  <2>2. \A o \in Orders : Accounted(o)' = Accounted(o)
    BY <2>1 DEF KeptOrder, EnteredOrder, SameCounts, Accounted
  <2> QED BY <1>1, <2>1, <2>2
<1>3. CASE ReceivePushedReport
  <2>1. PICK r \in OrderReport : ToldOrder(r.id, r) /\ \A p \in Orders \ {r.id} : KeptOrder(p)
    BY <1>3, PushedReportTells
  <2>2. ASSUME NEW o \in Orders PROVE Accounted(o)' = Accounted(o)
    <3>1. CASE o # r.id
      BY <2>1, <3>1 DEF KeptOrder, SameCounts, Accounted
    <3>2. CASE o = r.id
      BY <2>1, <3>2 DEF ToldOrder, SameOrder, SameCounts, Merged, Merges, Accounted
    <3> QED BY <3>1, <3>2
  <2> QED BY <1>1, <1>3, <2>2, PushedReportTells
<1>4. CASE ReceivePushedTrade
  <2>1. PICK t \in Range(executed) :
          /\ t = Head(trades) /\ t \in Trade /\ t.id \in Orders
          /\ TradedOrder(t.id, t) /\ \A p \in Orders \ {t.id} : KeptOrder(p)
          /\ \/ LotsKept /\ book'.positions = book.positions
             \/ /\ LotsLearnt(t)
                /\ ~ApplyTrade(book, t).reconcile =>
                     /\ ~Overcloses(book.positions[t.instrument], t)
                     /\ book'.positions = RecordTrade(book, t).positions
    BY <1>4, PushedTradeTells
  <2>2. ~ApplyTrade(book, t).reconcile
    BY <1>4, <2>1, PushedAgrees
  <2>3. CASE LotsKept /\ book'.positions = book.positions
    BY <1>1, <2>3 DEF LotsKept
  <2>4. CASE /\ LotsLearnt(t)
             /\ ~Overcloses(book.positions[t.instrument], t)
             /\ book'.positions = RecordTrade(book, t).positions
    <3>1. \A p \in Orders : records'[p].intent = records[p].intent
      BY <2>1 DEF TradedOrder, SlotAfter, KeptOrder
    <3>2. t \notin book.trades
      BY <2>4 DEF LotsLearnt, Learns
    <3> QED BY <2>1, <2>4, <3>1, <3>2, LearntOnSides
  <2> QED BY <2>1, <2>2, <2>3, <2>4
<1>5. CASE CounterActs \/ MarkFault \/ UNCHANGED recoveryVars
  <2>1. book' = book
    BY <1>5 , CounterActsTells DEF MarkFault, recoveryVars, vars, account
  <2> QED BY <1>1, <2>1 DEF Accounted
<1> QED BY <1>2, <1>3, <1>4, <1>5 DEF Aside, SessionStep

\* A row of the position query adds to its side.
LEMMA PositionRowAdds ==
  ASSUME TruthInv, ReceivePositionRow, phase' # "Frozen", NEW side \in Sides
  PROVE  IF answers[1].row # <<>> /\ answers[1].row[1].side = side
         THEN HeldOn(side)' = HeldOn(side) + answers[1].row[1].quantity
         ELSE HeldOn(side)' = HeldOn(side)
<1>1. PICK m : m = answers[1]
  OBVIOUS
<1>2. /\ m = Head(answers) /\ RowTrue(m) /\ m.phase = "QueryingPositions"
      /\ Held.long \in Nat /\ Held.short \in Nat
  <2>1. m = Head(answers) /\ RowTrue(m) /\ m.phase = "QueryingPositions"
    BY <1>1, HeadRow DEF ReceivePositionRow, Receives, Expected, TruthInv
  <2>2. Held.long \in Nat /\ Held.short \in Nat
    BY SessionAssumption DEF TruthInv, AccountInv, SessionTypes, SoundBook, Book, Position, Held
  <2> QED BY <2>1, <2>2
<1>3. CASE m.row = <<>>
  <2>1. book' = book
    BY <1>2, <1>3 DEF ReceivePositionRow
  <2> QED BY <1>1, <1>3, <2>1 DEF HeldOn, Held
<1>4. CASE m.row # <<>>
  <2> DEFINE more(s) == IF m.row # <<>> /\ m.row[1].side = s THEN m.row[1].quantity ELSE 0
  <2>1. m.row[1].quantity \in Nat
    BY <1>2, <1>4 DEF RowTrue
  <2>2. PICK long \in Nat, short \in Nat :
          long = Held.long + more("long") /\ short = Held.short + more("short")
    BY <1>2, <2>1
  <2>3. PICK result : result = SetReconciledPosition(book, Instrument, long, short)
    OBVIOUS
  <2>4. /\ book' = result.book
        /\ result.code = "CapacityExceeded" => Fail(<<>>)
    BY <1>2, <1>4, <2>2, <2>3 DEF ReceivePositionRow
  <2>5. result.code # "CapacityExceeded"
    BY <2>4 DEF Fail
  <2>6. Held.long' = long /\ Held.short' = short
    <3>1. SoundBook(book)
      BY DEF TruthInv, AccountInv, SessionTypes
    <3> HIDE DEF more
    <3>2. /\ result.book.positions[Instrument].long = long
          /\ result.book.positions[Instrument].short = short
      BY <2>3, <2>5, <3>1, PositionsSound
    <3> QED BY <2>4, <3>2 DEF Held
  <2>7. more(side) = IF m.row[1].side = side THEN m.row[1].quantity ELSE 0
    BY <1>4
  <2>8. HeldOn(side)' = HeldOn(side) + more(side)
    BY <2>2, <2>6 DEF HeldOn, Sides
  <2>9. HeldOn(side) \in Nat
    BY SidesAreNumbers
  <2> QED BY <1>1, <1>4, <2>7, <2>8, <2>9
<1> QED BY <1>3, <1>4

\* After the last row of the position query what is held is what is booked.
LEMMA SideAfterRow ==
  ASSUME TruthInv, UNCHANGED plan, ReceivePositionRow, phase' # "Frozen",
         NEW side \in Sides, SideDue(side)
  PROVE  /\ phase' = phase => SideDue(side)'
         /\ answers[1].last => HeldOn(side)' = BookedOn(side)'
<1>1. QueryRow /\ phase = "QueryingPositions" /\ 1 \in DOMAIN answers /\ answers[1].current
      /\ answers[1].phase = phase
  BY QueryRowMoves DEF QueryRow, ReceivePositionRow, Receives
<1>2. BookedOn(side)' = BookedOn(side)
  <2>1. Quiet /\ StepTells
    BY QuietTells DEF QuietAction
  <2>2. IntentsStay
    BY <2>1, IntentsAreKept DEF StepTells, TruthInv
  <2>3. \A o \in Orders : Accounted(o)' = Accounted(o)
    BY <2>1 DEF Quiet, Accounted
  <2> QED BY <2>2, <2>3, BookedKept DEF TruthInv
<1>3. ASSUME NEW j, DueOn(j, side)', phase' = phase
      PROVE  /\ j \in Nat \ {0} /\ DueOn(j + 1, side) /\ j + 1 # 1
             /\ answers'[j] = answers[j + 1]
  <2>1. /\ j \in Nat \ {0} /\ j + 1 \in DOMAIN answers /\ answers'[j] = answers[j + 1]
    BY <1>1, <1>3, RowsAfterRow DEF DueOn, Due
  <2> QED BY <1>3, <2>1 DEF DueOn, Due
<1>4. ASSUME NEW i, DueOn(i, side), i # 1 PROVE ~answers[1].last
  BY <1>1, <1>4, RowsAfterRow DEF DueOn, Due
<1>5. ASSUME NEW i, DueOn(i, side), i # 1, phase' = phase PROVE DueOn(i - 1, side)'
  <2>1. i - 1 \in DOMAIN answers' /\ answers'[i - 1] = answers[i]
    BY <1>1, <1>5, RowsAfterRow DEF DueOn, Due
  <2> QED BY <1>5, <2>1 DEF DueOn, Due
<1>6. CASE answers[1].row # <<>> /\ answers[1].row[1].side = side
  <2>1. DueOn(1, side)
    BY <1>1, <1>6 DEF DueOn, Due
  <2>2. HeldOn(side)' = BookedOn(side)'
    BY <1>2, <1>6, <2>1, PositionRowAdds DEF SideDue
  <2>3. \A j : phase' = phase => ~DueOn(j, side)'
    BY <1>3, <2>1 DEF SideDue
  <2> QED BY <2>2, <2>3 DEF SideDue
<1>7. CASE ~(answers[1].row # <<>> /\ answers[1].row[1].side = side)
  <2>1. HeldOn(side)' = HeldOn(side)
    BY <1>7, PositionRowAdds
  <2>2. ~DueOn(1, side)
    BY <1>7 DEF DueOn, Due
  <2>3. answers[1].last => HeldOn(side)' = BookedOn(side)'
    BY <1>2, <1>4, <2>1, <2>2 DEF SideDue
  <2>4. ASSUME phase' = phase PROVE SideDue(side)'
    <3>1. (\A j : ~DueOn(j, side)') => HeldOn(side)' = BookedOn(side)'
      BY <1>2, <1>5, <2>1, <2>2, <2>4 DEF SideDue
    <3>2. \A j : DueOn(j, side)' =>
                   HeldOn(side)' + answers'[j].row[1].quantity = BookedOn(side)'
      BY <1>2, <1>3, <2>1, <2>4 DEF SideDue
    <3>3. ASSUME NEW i, NEW j, DueOn(i, side)', DueOn(j, side)' PROVE i = j
      <4>1. i \in Nat /\ j \in Nat /\ i + 1 = j + 1
        BY <1>3, <2>4, <3>3 DEF SideDue
      <4> QED BY <4>1
    <3> QED BY <3>1, <3>2, <3>3 DEF SideDue
  <2> QED BY <2>3, <2>4
<1> QED BY <1>6, <1>7

\* When the book has counted every trade, its fills come to what the counter
\* has open.
LEMMA AllCounted ==
  ASSUME TruthInv, Range(executed) \subseteq book.trades
  PROVE  /\ \A o \in Orders : Accounted(o) = counter[o].filled
         /\ \A side \in Sides : /\ BookedOn(side) = OpenLots(DirectionOf(side))
                                /\ BookedOn(side) >= 0
<1>1. ASSUME NEW o \in Orders PROVE Accounted(o) = counter[o].filled
  <2>1. Recorded(o) = Executed(o)
    BY DEF Recorded, Executed, TruthInv, TradesTrue
  <2> QED BY <2>1 DEF TruthInv, TradesTrue
<1>2. Known = Filled
  BY <1>1 DEF Known, Filled
<1>3. ASSUME NEW side \in Sides
      PROVE  BookedOn(side) = OpenLots(DirectionOf(side)) /\ BookedOn(side) >= 0
  <2>1. PICK direction \in Directions : direction = DirectionOf(side)
    BY DEF DirectionOf, Directions
  <2>2. OpenLots(direction) = AtMarket(direction)
    BY LotsAreNumbersAll DEF TruthInv
  <2>3. AtMarket(direction) >= 0
    BY DEF TruthInv, NotOversold
  <2>4. Booked(direction) = AtMarket(direction)
    BY <1>2 DEF Booked, AtMarket
  <2> QED BY <2>1, <2>2, <2>3, <2>4 DEF BookedOn
<1> QED BY <1>1, <1>3

\* The answer to the position query has the position on each side.
LEMMA PositionsAnswered ==
  ASSUME TruthInv, CounterAnswer, ~Excused', asked = phase, asked = "QueryingPositions",
         Range(executed) \subseteq book.trades,
         NEW side \in Sides, HeldOn(side) = 0
  PROVE  SideDue(side)'
<1>1. /\ UNCHANGED <<account, phase>>
      /\ \E k \in Nat : \E payloads \in Payloads(asked) : AnsweredBy(k, payloads)
  BY NewAnswer DEF Excused
<1>2. PICK k \in Nat, payloads \in Payloads(asked) : AnsweredBy(k, payloads)
  BY <1>1
<1>3. payloads = SideRows
  BY <1>2 DEF Payloads
<1>4. PICK lots : lots = LotsOn(side)
  OBVIOUS
<1>5. HeldOn(side)' = 0 /\ BookedOn(side)' = lots /\ lots >= 0 /\ lots \in Int
  <2>1. BookedOn(side) = lots /\ BookedOn(side) >= 0
    BY <1>4, AllCounted DEF LotsOn, DirectionOf, Sides
  <2>2. HeldOn(side)' = HeldOn(side) /\ BookedOn(side)' = BookedOn(side)
    BY <1>1 DEF account, HeldOn, Held, BookedOn, Booked, Intents, Known, Accounted, Amount,
                Amounts, DirectionOf
  <2> QED BY <2>1, <2>2, SidesAreNumbers
<1>6. /\ OpenLots("Buy") \in Int /\ OpenLots("Sell") \in Int
  BY LotsAreNumbersAll DEF TruthInv
<1>7. /\ \A i \in DOMAIN payloads : payloads[i].quantity = LotsOn(payloads[i].side)
      /\ \A i, j \in DOMAIN payloads : payloads[i].side = payloads[j].side => i = j
      /\ lots > 0 => \E i \in DOMAIN payloads : payloads[i].side = side
  BY <1>3, <1>4, <1>6, SideRowsAll DEF Sides
<1>8. ASSUME NEW i, DueOn(i, side)'
      PROVE  /\ i \in Nat /\ i - k \in DOMAIN payloads /\ payloads[i - k].side = side
             /\ answers'[i].row[1] = payloads[i - k]
  <2>1. /\ i \in Nat /\ i - k \in DOMAIN payloads
        /\ answers'[i].row = <<payloads[i - k]>>
    BY <1>2, <1>8 DEF AnsweredBy, DueOn, Due
  <2> QED BY <1>8, <2>1 DEF DueOn
<1>9. ASSUME NEW i \in DOMAIN payloads, payloads[i].side = side
      PROVE  DueOn(k + i, side)'
  <2>1. /\ k + i \in DOMAIN answers' /\ answers'[k + i].current
        /\ answers'[k + i].phase = asked /\ answers'[k + i].row = <<payloads[i]>>
    BY <1>2 DEF AnsweredBy
  <2>2. answers'[k + i].row # <<>> /\ answers'[k + i].row[1].side = side
    BY <1>9, <2>1
  <2> QED BY <1>1, <2>1, <2>2 DEF DueOn, Due
<1>10. (\A i : ~DueOn(i, side)') => HeldOn(side)' = BookedOn(side)'
  <2>1. (\A i : ~DueOn(i, side)') => ~(lots > 0)
    BY <1>7, <1>9
  <2> QED BY <1>5, <2>1
<1>11. ASSUME NEW i, DueOn(i, side)'
       PROVE  HeldOn(side)' + answers'[i].row[1].quantity = BookedOn(side)'
  <2>1. answers'[i].row[1].quantity = lots
    BY <1>4, <1>7, <1>8, <1>11
  <2> QED BY <1>5, <2>1
<1>12. ASSUME NEW i, NEW j, DueOn(i, side)', DueOn(j, side)' PROVE i = j
  <2>1. i \in Nat /\ j \in Nat /\ i - k = j - k
    BY <1>7, <1>8, <1>12
  <2> QED BY <2>1
<1> QED BY <1>10, <1>11, <1>12 DEF SideDue

\* What the book holds while no trade crosses the queries: every trade of the
\* day once that query is answered, nothing until the positions arrive, and
\* from then on what its fills come to.
BooksAgree ==
  /\ phase = "QueryingTrades" /\ asked = "None" =>
       \A t \in Range(executed) : t \in book.trades \/ TradeDue(t)
  /\ phase = "QueryingPositions" /\ asked = phase =>
       Range(executed) \subseteq book.trades /\ \A side \in Sides : HeldOn(side) = 0
  /\ phase = "QueryingPositions" /\ asked = "None" => \A side \in Sides : SideDue(side)
  /\ phase \in {"QueryingFunds", "Ready"} =>
       \A side \in Sides : HeldOn(side) = BookedOn(side)
\* So it is unless the account is excused or a trade crossed the queries.
BooksExpected == ~Excused /\ ~crossed => BooksAgree

\* Nothing is executed between the two answers, or it crosses them.
LEMMA NothingCrosses ==
  ASSUME TruthInv, UNCHANGED plan, Aside, BetweenAnswers, ~crossed'
  PROVE  executed' = executed
<1>1. CASE CounterActs
  BY <1>1 DEF CounterActs
<1>2. CASE Call \/ ReceivePushedReport \/ ReceivePushedTrade \/ MarkFault
             \/ UNCHANGED recoveryVars
  BY <1>2 DEF Call, ReceivePushedReport, ReceivePushedTrade, MarkFault, recoveryVars, world
<1> QED BY <1>1, <1>2 DEF Aside, SessionStep

\* It stays so in the steps of the session, which execute nothing meanwhile,
LEMMA BooksAside ==
  ASSUME TruthInv, TruthInv', StepTells, UNCHANGED plan, Aside, ~Excused, ~Excused', ~crossed',
         BooksAgree
  PROVE  BooksAgree'
<1>1. SameAsk
  BY SessionAside DEF Aside
<1>2. \A side \in Sides : MovesTogether(side)
  BY SidesAside
<1>3. \A i : Due(i)' <=> Due(i)
  BY <1>1 DEF SameAsk, Due
<1>4. ASSUME phase = "QueryingTrades", asked = "None"
      PROVE  \A t \in Range(executed)' : t \in book'.trades \/ TradeDue(t)'
  <2>1. executed' = executed
    BY <1>4, NothingCrosses DEF BetweenAnswers
  <2>2. book.trades \subseteq book'.trades
    BY TradesStayInBook
  <2>3. \A t : TradeDue(t) => TradeDue(t)'
    BY <1>1, <1>3 DEF TradeDue, SameAsk
  <2> QED BY <1>4, <2>1, <2>2, <2>3 DEF BooksAgree
<1>5. ASSUME phase = "QueryingPositions", asked = phase
      PROVE  Range(executed)' \subseteq book'.trades /\ \A side \in Sides : HeldOn(side)' = 0
  <2>1. executed' = executed
    <3>1. asked # "None"
      BY <1>5
    <3> QED BY <1>5, <3>1, NothingCrosses DEF BetweenAnswers
  <2>2. book.trades \subseteq book'.trades
    BY TradesStayInBook
  <2>3. book'.positions = book.positions
    BY <1>5, SidesAside DEF BooksAgree
  <2> QED BY <1>5, <2>1, <2>2, <2>3 DEF BooksAgree, HeldOn, Held
<1>6. ASSUME phase = "QueryingPositions", NEW side \in Sides, SideDue(side)
      PROVE  SideDue(side)'
  <2>1. PICK n \in Int : /\ HeldOn(side)' = HeldOn(side) + n
                         /\ BookedOn(side)' = BookedOn(side) + n
    BY <1>2, <1>6 DEF MovesTogether
  <2>2. HeldOn(side) \in Int /\ BookedOn(side) \in Int
    BY SidesAreNumbers
  <2>3. \A i : DueOn(i, side)' <=> DueOn(i, side)
    BY <1>1, <1>3 DEF DueOn, SameAsk
  <2>4. ASSUME NEW i, DueOn(i, side)
        PROVE  answers'[i].row[1].quantity = answers[i].row[1].quantity
               /\ answers[i].row[1].quantity \in Int
    <3>1. RowTrue(answers[i]) /\ answers[i].phase = "QueryingPositions" /\ answers[i].row # <<>>
      BY <1>6, <2>4 DEF DueOn, Due, TruthInv, RowsInv
    <3>2. answers[i].row[1].quantity \in Int
      BY <3>1 DEF RowTrue
    <3> QED BY <1>1, <3>2 DEF SameAsk
  <2>5. (\A i : ~DueOn(i, side)') => HeldOn(side)' = BookedOn(side)'
    BY <1>6, <2>1, <2>3 DEF SideDue
  <2>6. ASSUME NEW i, DueOn(i, side)'
        PROVE  HeldOn(side)' + answers'[i].row[1].quantity = BookedOn(side)'
    <3>1. HeldOn(side) + answers[i].row[1].quantity = BookedOn(side)
      BY <1>6, <2>3, <2>6 DEF SideDue
    <3> QED BY <2>1, <2>2, <2>3, <2>4, <2>6, <3>1
  <2>7. \A i, j : DueOn(i, side)' /\ DueOn(j, side)' => i = j
    BY <1>6, <2>3 DEF SideDue
  <2> QED BY <2>5, <2>6, <2>7 DEF SideDue
<1>7. ASSUME phase \in {"QueryingFunds", "Ready"}, NEW side \in Sides
      PROVE  HeldOn(side)' = BookedOn(side)'
  BY <1>2, <1>7 DEF BooksAgree, MovesTogether
<1>8. ASSUME phase = "QueryingPositions", asked = "None", NEW side \in Sides
      PROVE  SideDue(side)'
  BY <1>6, <1>8 DEF BooksAgree
<1> HIDE DEF SideDue, HeldOn, BookedOn, TradeDue
<1> QED BY <1>1, <1>4, <1>5, <1>7, <1>8 DEF BooksAgree, SameAsk

\* when a row of a query arrives,
LEMMA BooksAfterRow ==
  ASSUME TruthInv, StepTells, UNCHANGED plan, QueryRow, phase' # "Frozen", BooksAgree
  PROVE  BooksAgree'
<1>1. /\ asked = "None" /\ executed' = executed
      /\ "None" \notin {"QueryingTrades", "QueryingPositions", "QueryingFunds"}
  BY QueryRowMoves, RowKinds DEF QueryRow, ReceiveAnswer
<1>2. CASE ReceiveOrderRow
  <2>1. phase = "QueryingOrders"
    BY <1>2 DEF ReceiveOrderRow, Receives
  <2>2. phase' = "QueryingOrders" \/ (phase' = "QueryingTrades" /\ asked' = phase')
    BY <2>1, QueryRowMoves
  <2> QED BY <2>2 DEF BooksAgree
<1>3. CASE ReceiveTradeRow
  <2>1. phase = "QueryingTrades"
    BY <1>3 DEF ReceiveTradeRow, Receives
  <2>2. \/ phase' = "QueryingTrades" /\ asked' = "None"
        \/ phase' = "QueryingPositions" /\ asked' = phase'
    BY <1>1, <2>1, QueryRowMoves
  <2>3. ASSUME NEW t \in Range(executed) PROVE t \in book'.trades \/ (phase' = phase /\ TradeDue(t)')
    <3>1. t \in book.trades \/ TradeDue(t)
      BY <1>1, <2>1 DEF BooksAgree
    <3>2. book.trades \subseteq book'.trades
      BY TradesStayInBook
    <3> QED BY <1>3, <3>1, <3>2, TradesAfterRow
  <2>4. phase' = "QueryingPositions" => \A side \in Sides : HeldOn(side)' = 0
    BY <1>3, TradeRowTells DEF HeldOn
  <2>5. CASE phase' = "QueryingTrades" /\ asked' = "None"
    BY <1>1, <2>3, <2>5 DEF BooksAgree
  <2>6. CASE phase' = "QueryingPositions" /\ asked' = phase'
    <3>1. Range(executed)' \subseteq book'.trades
      BY <1>1, <2>1, <2>3, <2>6
    <3> QED BY <2>4, <2>6, <3>1 DEF BooksAgree
  <2> QED BY <2>2, <2>5, <2>6
<1>4. CASE ReceivePositionRow
  <2>1. phase = "QueryingPositions"
    BY <1>4 DEF ReceivePositionRow, Receives
  <2>2. \/ phase' = phase /\ asked' = "None"
        \/ phase' = "QueryingFunds" /\ answers[1].last
    BY <1>1, <2>1, QueryRowMoves
  <2>3. \A side \in Sides : /\ phase' = phase => SideDue(side)'
                            /\ answers[1].last => HeldOn(side)' = BookedOn(side)'
    BY <1>1, <1>4, <2>1, SideAfterRow DEF BooksAgree
  <2>4. CASE phase' = phase /\ asked' = "None"
    BY <2>1, <2>3, <2>4 DEF BooksAgree
  <2>5. CASE phase' = "QueryingFunds" /\ answers[1].last
    BY <2>3, <2>5 DEF BooksAgree
  <2> QED BY <2>2, <2>4, <2>5
<1>5. CASE ReceiveFunds
  <2>1. phase = "QueryingFunds" /\ phase' = "Ready"
    BY <1>5 DEF ReceiveFunds, Receives
  <2>2. \A o \in Orders : Accounted(o)' = Accounted(o)
    BY <1>5, QuietTells DEF QuietAction, Quiet, Accounted
  <2>3. book'.positions = book.positions
    <3>1. SoundBook(book) /\ book' = CompleteReconciliation(book) /\ 0 \in Nat
      BY <1>5 DEF ReceiveFunds, TruthInv, AccountInv, SessionTypes
    <3> QED BY <3>1, PositionsSound
  <2>4. ASSUME NEW side \in Sides PROVE HeldOn(side)' = BookedOn(side)'
    BY <2>1, <2>2, <2>3, KeptOnSides DEF BooksAgree
  <2> QED BY <2>1, <2>4 DEF BooksAgree
<1> QED BY <1>2, <1>3, <1>4, <1>5 DEF QueryRow

\* and when the counter answers with the positions it has.
LEMMA BooksAnswered ==
  ASSUME TruthInv, UNCHANGED plan, StepTells, CounterAnswer, ~Excused',
         (~Excused /\ BooksAgree) \/ AskingOrders
  PROVE  BooksAgree'
<1>1. /\ UNCHANGED <<account, phase, executed>> /\ asked # "None" /\ asked' = "None"
  BY NewAnswer
<1>2. CASE AskingOrders
  BY <1>1, <1>2 DEF AskingOrders, BooksAgree
<1>3. CASE ~Excused /\ BooksAgree
  <2>1. asked = phase /\ phase \in Querying \ {"QueryingOrders"}
    BY <1>1, <1>3, ExpectedAsk
  <2>2. CASE phase = "QueryingTrades"
    <3>1. \A t \in Range(executed)' : TradeDue(t)'
      BY <1>1, <2>1, <2>2, TradesAnswered
    <3> QED BY <1>1, <2>2, <3>1 DEF BooksAgree
  <2>3. CASE phase = "QueryingPositions"
    <3>1. \A side \in Sides : SideDue(side)'
      BY <1>3, <2>1, <2>3, PositionsAnswered DEF BooksAgree
    <3> QED BY <1>1, <2>3, <3>1 DEF BooksAgree
  <2>4. CASE phase = "QueryingFunds"
    <3>1. book' = book
      BY <1>1 DEF account
    <3>2. ASSUME NEW side \in Sides PROVE HeldOn(side)' = BookedOn(side)'
      BY <1>3, <2>4, <3>1, KeptOnSides DEF BooksAgree, Accounted
    <3> QED BY <1>1, <2>4, <3>2 DEF BooksAgree
  <2> QED BY <2>1, <2>2, <2>3, <2>4 DEF Querying
<1> QED BY <1>2, <1>3

\* So every step leaves the positions in agreement.
LEMMA BooksStayExpected ==
  ASSUME TruthInv, TruthInv', StepTells, [RecoveryNext]_recoveryVars, BooksExpected
  PROVE  BooksExpected'
<1> SUFFICES ASSUME ~Excused', ~crossed' PROVE BooksAgree'
  BY DEF BooksExpected
<1>1. UNCHANGED plan
  BY TurnKinds
<1>2. CASE ~Excused /\ Aside
  <2>1. ~crossed
    BY <1>1, <1>2, SessionAside DEF Aside
  <2> QED BY <1>1, <1>2, <2>1, BooksAside DEF BooksExpected
<1>3. CASE ~Excused /\ QueryRow /\ phase' # "Frozen"
  <2>1. ~crossed
    BY <1>3, QueryRowMoves DEF history
  <2> QED BY <1>1, <1>3, <2>1, BooksAfterRow DEF BooksExpected
<1>4. CASE CounterAnswer /\ (~Excused \/ AskingOrders)
  <2>1. ~crossed
    BY <1>4, NewAnswer DEF history
  <2> QED BY <1>1, <1>4, <2>1, BooksAnswered DEF BooksExpected
<1> QED BY <1>2, <1>3, <1>4, ExpectedSteps

-----------------------------------------------------------------------------
(* The recovered account *)

\* The inductive invariant of a recovery: what the account is told is true, and
\* what it was not told is on its way, unless it is excused.
RecoveredInv ==
  /\ TruthInv /\ FrozenUntilReady /\ SeenReset
  /\ EndsExpected /\ LostExpected /\ TradesExpected /\ BooksExpected

\* It holds at the start, where the account is excused, and every step keeps it
\* (on_order_query, on_trade_query and on_position_query in trading.cpp).
LEMMA AlwaysRecoveredInv == RecoverySpec => []RecoveredInv
<1>1. RecoveryInit => RecoveredInv
  <2> SUFFICES ASSUME RecoveryInit PROVE RecoveredInv
    OBVIOUS
  <2>1. TruthInv /\ FrozenUntilReady
    BY TruthAtStart, InitFrozen
  <2>2. "Connecting" \notin {"Ready"} \cup Querying
    BY DEF Querying
  <2>3. Idle
    BY <2>2 DEF RecoveryInit, Idle
  <2>4. SeenReset
    BY DEF RecoveryInit, SeenReset
  <2> QED BY <2>1, <2>3, <2>4
             DEF RecoveredInv, Excused, EndsExpected, LostExpected, TradesExpected, BooksExpected
<1>2. RecoveredInv /\ [RecoveryNext]_recoveryVars => RecoveredInv'
  <2> SUFFICES ASSUME RecoveredInv, [RecoveryNext]_recoveryVars PROVE RecoveredInv'
    OBVIOUS
  <2>1. TruthInv /\ TruthInv' /\ FrozenUntilReady' /\ StepTells
    BY TruthStep DEF RecoveredInv
  <2>2. SeenReset'
    BY <2>1, SeenResetStays DEF RecoveredInv
  <2>3. EndsExpected'
    BY <2>1, EndsStayExpected DEF RecoveredInv
  <2>4. LostExpected'
    BY <2>1, LostStayExpected DEF RecoveredInv
  <2>5. TradesExpected'
    BY <2>1, TradesStayExpected DEF RecoveredInv
  <2>6. BooksExpected'
    BY <2>1, BooksStayExpected DEF RecoveredInv
  <2> QED BY <2>1, <2>2, <2>3, <2>4, <2>5, <2>6 DEF RecoveredInv
<1> QED BY <1>1, <1>2, PTL DEF RecoverySpec

\* A recovered account to which everything was delivered has counted every
\* trade of the day.
LEMMA DeliveredAll ==
  ASSUME RecoveredInv, phase = "Ready", ~frozen, Delivered, ~alarmed
  PROVE  ~Excused /\ Range(executed) \subseteq book.trades
<1>1. \A i \in DOMAIN answers : answers[i].current = FALSE
  BY NoneCurrent DEF RecoveredInv, TruthInv
<1>2. ~Spoiled
  BY <1>1 DEF Spoiled
<1>3. ~Excused
  BY <1>2 DEF Excused, Idle, AskingOrders
<1>4. Range(trades) = {}
  BY DEF Delivered, Range
<1> QED BY <1>3, <1>4 DEF RecoveredInv, TradesExpected, TradesKnown, TradeDue

\* Then the account agrees with the counter about this order.
LEMMA RecoveredOrder ==
  ASSUME RecoveredInv, phase = "Ready", ~frozen, Delivered, ~alarmed,
         NEW o \in Orders, AtCounter(o)
  PROVE  /\ counter[o].status # "None"
         /\ book.orders[o].accounted = counter[o].filled
         /\ State(o) \in Terminal \/ book.orders[o].cancelAck <=> ~Live(o)
         /\ records[o].activeOpen <=> Live(o) /\ records[o].intent.offset = "Open"
<1>1. ~Excused /\ Range(executed) \subseteq book.trades
  BY DeliveredAll
<1>2. TruthInv /\ CounterTrue(o) /\ OrderTrue(o)
  BY DEF RecoveredInv, TruthInv, OrderFacts
<1>3. Accounted(o) = counter[o].filled
  BY <1>1, <1>2, AllCounted
<1>4. Status(o) # "None"
  BY <1>1 DEF RecoveredInv, LostExpected, LostUnnamed, LostOrder
<1>5. /\ counter[o] \in CounterOrder /\ book.orders[o] \in Order
      /\ Quantity(o) \in Nat \ {0} /\ book.orders[o].reported <= Quantity(o)
      /\ Accounted(o) = Quantity(o) => State(o) = "Filled"
  BY <1>2, OrderKnown DEF TruthInv, AtCounter, Unsent
<1>6. Live(o) <=> ~Ended(o)
  BY <1>4, <1>5 DEF CounterOrder, Live, Ended, Status, EndTypes
<1>7. Ended(o) => EndKnown(o)
  <2>1. ~EndPushed(o)
    BY DEF EndPushed, Delivered
  <2>2. ~EndDue(o)
    BY DEF EndDue
  <2> QED BY <1>1, <2>1, <2>2 DEF RecoveredInv, EndsExpected, EndsKnown
<1>8. Ended(o) => State(o) \in Terminal \/ book.orders[o].cancelAck
  <2>1. ASSUME Ended(o), book.orders[o].reported = Quantity(o) PROVE State(o) = "Filled"
    <3>1. counter[o].filled \in Nat /\ book.orders[o].reported <= counter[o].filled
      BY <1>2, <1>5 DEF CounterOrder, OrderTrue
    <3>2. Status(o) \in EndTypes
      BY <2>1 DEF Ended
    <3>3. CounterTrue(o) /\ Quantity(o) \in Nat \ {0}
      BY <1>2, <1>5
    <3>4. counter[o].filled <= Quantity(o)
      BY ONLY <3>1, <3>2, <3>3 DEF CounterTrue, EndTypes, Status
    <3>5. book.orders[o].reported \in Nat /\ Accounted(o) = Quantity(o)
      BY <1>3, <1>5, <2>1, <3>1, <3>4 DEF Order
    <3> QED BY <1>5, <3>5
  <2>2. "Filled" \in Terminal
    BY DEF Terminal
  <2> QED BY <1>7, <2>1, <2>2 DEF EndKnown
<1>9. State(o) \in Terminal \/ book.orders[o].cancelAck => Ended(o)
  BY <1>2 DEF Terminal, AtCounter, Unsent, OrderTrue, Ended, EndTypes, State
<1>10. records[o].activeOpen <=> Live(o) /\ records[o].intent.offset = "Open"
  <2>1. records[o].activeOpen => Live(o) /\ records[o].intent.offset = "Open"
    BY <1>2, <1>6, <1>7 DEF OrderTrue, EndKnown
  <2>2. Live(o) /\ records[o].intent.offset = "Open" => records[o].activeOpen
    BY <1>2 DEF OrderTrue
  <2> QED BY <2>1, <2>2
<1> QED BY <1>3, <1>4, <1>6, <1>8, <1>9, <1>10 DEF Accounted, Status

\* Whatever was lost while it was away, a recovered account agrees with the
\* counter about every order once what is under way has arrived (README.md:51
\* and the handlers of the order and trade queries in trading.cpp).
THEOREM RecoveryRestoresOrders == RecoverySpec => []RecoveredOrders
<1>1. RecoveredInv => RecoveredOrders
  <2> SUFFICES ASSUME RecoveredInv, NEW o \in Records,
                      phase = "Ready", ~frozen, Delivered, ~alarmed,
                      State(o) \notin {"Absent", "RiskRejected", "SubmitRejectedLocally"}
               PROVE  /\ counter[o].status # "None"
                      /\ book.orders[o].accounted = counter[o].filled
                      /\ State(o) \in Terminal \/ book.orders[o].cancelAck <=> ~Live(o)
                      /\ records[o].activeOpen <=>
                           Live(o) /\ records[o].intent.offset = "Open"
    BY DEF RecoveredOrders, State
  <2>1. o \in Orders /\ AtCounter(o)
    BY DEF Records, AtCounter, Unsent
  <2> QED BY <2>1, RecoveredOrder
<1> QED BY <1>1, AlwaysRecoveredInv, PTL

\* The positions of a recovered account are those of the counter, unless a trade
\* crossed the position query or the book refused a pushed one.
THEOREM RecoveryRestoresPosition == RecoverySpec => []RecoveredPosition
<1>1. RecoveredInv => RecoveredPosition
  <2> SUFFICES ASSUME RecoveredInv, phase = "Ready", ~frozen, Delivered, ~crossed, ~alarmed
               PROVE  PositionsAgree
    BY DEF RecoveredPosition
  <2>1. ~Excused /\ Range(executed) \subseteq book.trades /\ TruthInv
    BY DeliveredAll DEF RecoveredInv
  <2>2. \A side \in Sides : HeldOn(side) = BookedOn(side)
    BY <2>1 DEF RecoveredInv, BooksExpected, BooksAgree
  <2>3. \A side \in Sides : BookedOn(side) = OpenLots(DirectionOf(side))
    BY <2>1, AllCounted
  <2>4. Held.long = OpenLots("Buy") /\ Held.short = OpenLots("Sell")
    BY <2>2, <2>3 DEF Sides, HeldOn, DirectionOf
  <2> QED BY <2>4 DEF PositionsAgree
<1> QED BY <1>1, AlwaysRecoveredInv, PTL

\* Both hold of a worker that judges an acceptance, whatever its verdict and its
\* final query (update_acceptance of engine.cpp).
THEOREM AcceptedAccountRecovers ==
  AcceptanceSpec => [](RecoveredOrders /\ RecoveredPosition)
BY AcceptanceImplementsRecovery, RecoveryRestoresOrders, RecoveryRestoresPosition, PTL

-----------------------------------------------------------------------------
(* A round trip of one lot *)

\* Lots of which one at most was opened
OneLot(intents, known) ==
  /\ \A o \in Orders : known[o] \in Nat /\ intents[o] \in Intent
  /\ \A o \in Orders : intents[o].offset = "Open" => known[o] <= 1
  /\ \A o, p \in Orders :
       /\ intents[o].offset = "Open" /\ known[o] > 0
       /\ intents[p].offset = "Open" /\ known[p] > 0
       => o = p

\* The term of an order: only an entry in the direction adds to the sum.
LEMMA TripTerm ==
  ASSUME NEW intents, NEW known, OneLot(intents, known), NEW o \in Orders,
         NEW direction \in Directions
  PROVE  LET w == Amounts(intents, direction, known) IN
         /\ w[o] \in Int
         /\ intents[o].offset = "Open" \/ intents[o].offset = "Close"
         /\ (intents[o].offset = "Open" /\ intents[o].direction = direction) =>
               w[o] = known[o]
         /\ ~(intents[o].offset = "Open" /\ intents[o].direction = direction) => w[o] <= 0
         /\ intents[o].offset = "Close" /\ intents[o].direction # direction =>
               w[o] = -known[o]
         /\ intents[o].offset = "Close" /\ intents[o].direction = direction => w[o] = 0
         /\ intents[o].offset = "Open" /\ intents[o].direction # direction => w[o] = 0
         /\ known[o] = 0 => w[o] = 0
<1>1. known[o] \in Nat /\ intents[o].offset \in Offsets
  BY DEF OneLot, Intent
<1>2. PICK n \in Nat : n = known[o]
  BY <1>1
<1>3. Amounts(intents, direction, known)[o] = Term(intents[o], direction, n)
  BY <1>2 DEF Amounts
<1>4. intents[o].offset = "Open" \/ intents[o].offset = "Close"
  BY <1>1 DEF Offsets
<1> QED BY <1>2, <1>3, <1>4 DEF Term

\* One lot at most is held.
LEMMA TripBound ==
  ASSUME NEW intents, NEW known, OneLot(intents, known), NEW direction \in Directions
  PROVE  Amount(intents, direction, known) \in Int /\ Amount(intents, direction, known) <= 1
<1>1. PICK w : w = Amounts(intents, direction, known)
  OBVIOUS
<1>2. Amount(intents, direction, known) = SumFunctionOnSet(w, Orders)
  BY <1>1 DEF Amount
<1>3. \A o \in Orders : w[o] \in Int /\ known[o] \in Nat /\ (known[o] = 0 => w[o] = 0)
  BY <1>1, TripTerm DEF OneLot
<1>4. CASE \E o \in Orders : w[o] > 0
  <2>1. PICK o \in Orders : w[o] > 0
    BY <1>4
  <2>2. intents[o].offset = "Open" /\ w[o] = known[o] /\ known[o] <= 1 /\ known[o] > 0
    BY <1>1, <1>3, <2>1, TripTerm DEF OneLot
  <2>3. ASSUME NEW p \in Orders \ {o} PROVE w[p] <= 0
    <3>1. ~(intents[p].offset = "Open" /\ known[p] > 0)
      BY <2>2 DEF OneLot
    <3> QED BY <1>1, <1>3, <3>1, TripTerm
  <2>4. SumFunctionOnSet(w, Orders) \in Int /\ SumFunctionOnSet(w, Orders) <= w[o]
    BY <1>3, <2>3, OrdersCounted, SumBound
  <2> QED BY <1>2, <1>3, <2>2, <2>4
<1>5. CASE \A o \in Orders : w[o] <= 0
  <2>1. CASE Orders = {}
    <3>1. SumFunctionOnSet(w, Orders) = 0
      BY <1>3, <2>1, OrdersCounted, SumTerm
    <3> QED BY <1>2, <3>1
  <2>2. CASE Orders # {}
    <3>1. PICK o \in Orders : TRUE
      BY <2>2
    <3>2. SumFunctionOnSet(w, Orders) \in Int /\ SumFunctionOnSet(w, Orders) <= w[o]
      BY <1>3, <1>5, OrdersCounted, SumBound
    <3> QED BY <1>2, <1>3, <1>5, <3>2
  <2> QED BY <2>1, <2>2
<1>6. (\E o \in Orders : w[o] > 0) \/ \A o \in Orders : w[o] <= 0
  BY <1>3
<1> QED BY <1>4, <1>5, <1>6

\* When a lot was closed, one was opened before, no more was closed, and
\* nothing is left.
LEMMA TripDone ==
  ASSUME NEW intents, NEW known, OneLot(intents, known),
         \A direction \in Directions : Amount(intents, direction, known) >= 0,
         NEW c \in Orders, intents[c].offset = "Close", known[c] > 0
  PROVE  /\ known[c] = 1
         /\ \A p \in Orders : intents[p].offset = "Close" /\ known[p] > 0 => p = c
         /\ \E e \in Orders : intents[e].offset = "Open" /\ known[e] = 1
         /\ \A direction \in Directions : Amount(intents, direction, known) = 0
<1>1. PICK d \in Directions : d # intents[c].direction
  BY DEF Directions
<1>2. PICK w : w = Amounts(intents, d, known)
  OBVIOUS
<1>3. Amount(intents, d, known) = SumFunctionOnSet(w, Orders)
  BY <1>2 DEF Amount
<1>4. \A o \in Orders : w[o] \in Int /\ known[o] \in Nat /\ (known[o] = 0 => w[o] = 0)
  BY <1>2, TripTerm DEF OneLot
<1>5. w[c] = -known[c] /\ w[c] < 0
  BY <1>1, <1>2, <1>4, TripTerm
<1>6. \E e \in Orders : w[e] > 0
  <2>1. SUFFICES ASSUME \A o \in Orders : w[o] <= 0 PROVE FALSE
    BY <1>4
  <2>2. SumFunctionOnSet(w, Orders) \in Int /\ SumFunctionOnSet(w, Orders) <= w[c]
    BY <1>4, <2>1, OrdersCounted, SumBound
  <2>3. SumFunctionOnSet(w, Orders) >= 0
    BY <1>3
  <2> QED BY <1>4, <1>5, <2>2, <2>3
<1>7. PICK e \in Orders : w[e] > 0
  BY <1>6
<1>8. /\ intents[e].offset = "Open" /\ intents[e].direction = d
      /\ w[e] = known[e] /\ known[e] = 1
  <2>1. intents[e].offset = "Open" /\ intents[e].direction = d
    BY <1>2, <1>4, <1>7, TripTerm
  <2>2. w[e] = known[e]
    BY <1>2, <2>1, TripTerm
  <2>3. known[e] <= 1
    BY <2>1 DEF OneLot
  <2> QED BY <1>4, <1>7, <2>1, <2>2, <2>3
<1>9. ASSUME NEW p \in Orders \ {e}, intents[p].offset = "Open" PROVE known[p] = 0
  BY <1>4, <1>8, <1>9 DEF OneLot
<1>10. \A p \in Orders \ {e} : w[p] <= 0
  BY <1>2, <1>4, <1>9, TripTerm
<1>11. \A p \in Orders \ {e} : SumFunctionOnSet(w, Orders) <= 1 + w[p]
  BY <1>4, <1>8, <1>10, OrdersCounted, SumBound
<1>12. SumFunctionOnSet(w, Orders) \in Int /\ SumFunctionOnSet(w, Orders) >= 0
  BY <1>3, <1>4, <1>10, OrdersCounted, SumBound
<1>13. c # e
  BY <1>5, <1>7, <1>4
<1>14. known[c] = 1 /\ w[c] = -1 /\ SumFunctionOnSet(w, Orders) = 0
  BY <1>4, <1>5, <1>11, <1>12, <1>13
<1>15. \A p \in Orders \ {c, e} : w[p] = 0
  <2> SUFFICES ASSUME NEW p \in Orders \ {c, e} PROVE w[p] >= 0
    BY <1>4, <1>10
  <2>1. PICK v : v = [o \in Orders |-> IF o = c THEN 0 ELSE w[o]]
    OBVIOUS
  <2>2. \A o \in Orders : v[o] \in Int
    BY <1>4, <2>1
  <2>3. v[c] = 0 /\ v[e] = 1 /\ v[p] = w[p] /\ \A o \in Orders \ {e} : v[o] <= 0
    BY <1>8, <1>10, <1>13, <2>1
  <2>4. SumFunctionOnSet(v, Orders) = SumFunctionOnSet(w, Orders) + v[c] - w[c]
    BY <1>4, <2>1, <2>2, OrdersCounted, SumChange
  <2>5. SumFunctionOnSet(v, Orders) <= v[e] + v[p]
    BY <2>2, <2>3, OrdersCounted, SumBound
  <2> QED BY <1>4, <1>12, <1>14, <2>2, <2>3, <2>4, <2>5
<1>16. ASSUME NEW d2 \in Directions, d2 # d PROVE /\ Amount(intents, d2, known) = 0
                                                  /\ \A o \in Orders : Amounts(intents, d2, known)[o] = 0
  <2>1. PICK v : v = Amounts(intents, d2, known)
    OBVIOUS
  <2>2. Amount(intents, d2, known) = SumFunctionOnSet(v, Orders)
    BY <2>1 DEF Amount
  <2>3. \A o \in Orders : v[o] \in Int /\ v[o] <= 0
    <3> SUFFICES ASSUME NEW o \in Orders PROVE v[o] \in Int /\ v[o] <= 0
      OBVIOUS
    <3>1. CASE o = e
      BY <1>8, <1>16, <2>1, <3>1, TripTerm
    <3>2. CASE o # e
      BY <1>4, <1>9, <2>1, <3>2, TripTerm
    <3> QED BY <3>1, <3>2
  <2>4. ASSUME NEW o \in Orders PROVE v[o] = 0
    <3>1. SumFunctionOnSet(v, Orders) \in Int /\ SumFunctionOnSet(v, Orders) <= v[o]
      BY <2>3, OrdersCounted, SumBound
    <3>2. SumFunctionOnSet(v, Orders) >= 0
      BY <2>2
    <3> QED BY <2>3, <3>1, <3>2
  <2>5. SumFunctionOnSet(v, Orders) = 0
    BY <2>4, OrdersCounted, SumZero
  <2> QED BY <2>1, <2>2, <2>4, <2>5
<1>17. ASSUME NEW p \in Orders, intents[p].offset = "Close", known[p] > 0 PROVE p = c
  <2>1. CASE intents[p].direction # d
    <3>1. PICK v : v = Amounts(intents, d, known)
      OBVIOUS
    <3>2. w[p] = -known[p] /\ p # e
      BY <1>2, <1>8, <1>17, <2>1, TripTerm
    <3> QED BY <1>4, <1>15, <1>17, <3>2
  <2>2. CASE intents[p].direction = d
    <3>1. PICK d2 \in Directions : d2 # d
      BY DEF Directions
    <3>2. Amounts(intents, d2, known)[p] = -known[p]
      BY <1>17, <2>2, <3>1, TripTerm
    <3>3. Amounts(intents, d2, known)[p] = 0
      BY <1>16, <3>1
    <3> QED BY <1>4, <1>17, <3>2, <3>3
  <2> QED BY <2>1, <2>2
<1>18. \A direction \in Directions : Amount(intents, direction, known) = 0
  BY <1>3, <1>14, <1>16
<1> QED BY <1>8, <1>14, <1>17, <1>18

-----------------------------------------------------------------------------
(* The trip of an account under acceptance *)

\* The orders that open, and those that close
Entries == {o \in Records : records[o].intent.offset = "Open"}
Closes == {o \in Records : records[o].intent.offset = "Close"}

\* The account opens as planned, and its plan is one signal of one lot.
Planned == OneSignal /\ \A o \in Entries : records[o].intent \in plan.entries

\* The book accounts for a lot opened and for a lot closed.
TripTold ==
  (\E o \in Entries : Accounted(o) >= 1) /\ (\E o \in Closes : Accounted(o) >= 1)

\* There is one entry at most, of one lot.
LEMMA OneEntry ==
  ASSUME AccountInv, OrdersInv, Planned
  PROVE  /\ \A o \in Entries : Quantity(o) = 1
         /\ \A o, p \in Entries : o = p
<1>1. \A o \in Entries : records[o].intent \in plan.entries /\ o \in Records
  BY DEF Planned, Entries
<1>2. \A i, j \in plan.entries : i = j /\ i.quantity = 1
  BY DEF Planned, OneSignal
<1>3. \A o, p \in Entries : SameKeyAs(records[o].intent, records[p].intent)
  BY <1>1, <1>2 DEF SameKeyAs
<1> QED BY <1>1, <1>2, <1>3 DEF Quantity, OrdersInv, KeysApart

\* What is known of the fills of an order, by the book or the counter
LEMMA FillsKnown ==
  ASSUME TruthInv, NEW o \in Orders
  PROVE  /\ Accounted(o) \in Nat /\ counter[o].filled \in Nat
         /\ Accounted(o) <= counter[o].filled
         /\ o \in Records => counter[o].filled <= Quantity(o) /\ Quantity(o) \in Nat
         /\ o \notin Records => Accounted(o) = 0 /\ counter[o].filled = 0
         /\ records[o].intent \in Intent
         /\ o \in Records => o \in Entries \/ o \in Closes
<1>1. /\ AccountInv /\ OrdersInv /\ CounterTrue(o) /\ TradesTrue
  BY DEF TruthInv, OrderFacts
<1>2. /\ counter[o] \in CounterOrder /\ book.orders[o] \in Order /\ records[o] \in Record
      /\ o \notin Records => Status(o) = "None" /\ State(o) = "Absent"
      /\ State(o) = "Absent" => Accounted(o) = 0
  BY <1>1, OrderKnown
<1>3. /\ Accounted(o) \in Nat /\ counter[o].filled \in Nat /\ records[o].intent \in Intent
  BY <1>2 DEF Order, CounterOrder, Record, Accounted
<1>4. Accounted(o) <= counter[o].filled
  <2>1. Accounted(o) = Volume(Recorded(o)) /\ counter[o].filled = Volume(Executed(o))
    BY <1>1 DEF TradesTrue
  <2>2. /\ IsFiniteSet(Executed(o)) /\ Executed(o) \subseteq Trade
        /\ Recorded(o) \in SUBSET Executed(o)
    BY <1>1, TradesCounted
  <2> QED BY <2>1, <2>2, VolumeGrows
<1>5. Quantity(o) \in Nat
  BY <1>3 DEF Quantity, Intent
<1>6. o \in Records => counter[o].filled <= Quantity(o)
  BY <1>1, <1>2, <1>3, <1>5 DEF CounterTrue, CounterOrder
<1>7. o \notin Records => counter[o].filled = 0
  BY <1>1, <1>2 DEF CounterTrue, Status
<1>8. o \in Records => o \in Entries \/ o \in Closes
  BY <1>3 DEF Entries, Closes, Intent, Offsets
<1> QED BY <1>2, <1>3, <1>4, <1>5, <1>6, <1>7, <1>8

\* So one lot at most is opened, at the counter and in the book.
LEMMA OneLotOpened ==
  ASSUME TruthInv, Planned
  PROVE  /\ OneLot(Intents, Filled) /\ OneLot(Intents, Known)
         /\ \A o \in Orders : /\ Intents[o] = records[o].intent
                              /\ Filled[o] = counter[o].filled /\ Known[o] = Accounted(o)
<1>1. \A o \in Orders : /\ Intents[o] = records[o].intent
                        /\ Filled[o] = counter[o].filled /\ Known[o] = Accounted(o)
  BY DEF Intents, Filled, Known
<1>2. AccountInv /\ OrdersInv
  BY DEF TruthInv
<1>3. \A o \in Orders : /\ Filled[o] \in Nat /\ Known[o] \in Nat /\ Known[o] <= Filled[o]
                        /\ Intents[o] \in Intent
                        /\ o \notin Records => Filled[o] = 0
                        /\ o \in Records => Filled[o] <= Quantity(o)
  BY <1>1, FillsKnown
<1>4. ASSUME NEW o \in Orders, Intents[o].offset = "Open", Filled[o] > 0
      PROVE  o \in Entries
  BY <1>1, <1>3, <1>4 DEF Entries
<1>5. ASSUME NEW o \in Orders, Intents[o].offset = "Open"
      PROVE  Filled[o] <= 1
  <2>1. CASE Filled[o] > 0
    <3>1. o \in Entries /\ o \in Records
      BY <1>4, <1>5, <2>1 DEF Entries
    <3>2. Quantity(o) = 1
      BY <1>2, <3>1, OneEntry
    <3> QED BY <1>3, <3>1, <3>2
  <2> QED BY <1>3, <2>1
<1>6. ASSUME NEW o \in Orders, Known[o] > 0 PROVE Filled[o] > 0
  BY <1>3, <1>6
<1>7. \A o \in Orders : Intents[o].offset = "Open" => Known[o] <= 1
  BY <1>3, <1>5
<1>8. ASSUME NEW o \in Orders, NEW p \in Orders,
             Intents[o].offset = "Open", Filled[o] > 0,
             Intents[p].offset = "Open", Filled[p] > 0
      PROVE  o = p
  <2>1. o \in Entries /\ p \in Entries
    BY <1>4, <1>8
  <2> QED BY <1>2, <2>1, OneEntry
<1>9. OneLot(Intents, Filled)
  BY <1>3, <1>5, <1>8 DEF OneLot
<1>10. OneLot(Intents, Known)
  BY <1>3, <1>6, <1>7, <1>8 DEF OneLot
<1> QED BY <1>1, <1>9, <1>10

\* A lot closed at the counter is the one of the trip.
LEMMA TripAtCounter ==
  ASSUME TruthInv, Planned, NEW c \in Closes, counter[c].filled > 0
  PROVE  /\ counter[c].filled = 1
         /\ \A p \in Closes : counter[p].filled > 0 => p = c
         /\ \E e \in Entries : counter[e].filled = 1
         /\ \A direction \in Directions : AtMarket(direction) = 0
<1>1. /\ OneLot(Intents, Filled)
      /\ \A o \in Orders : /\ Intents[o] = records[o].intent
                           /\ Filled[o] = counter[o].filled
  BY OneLotOpened
<1>2. \A direction \in Directions : Amount(Intents, direction, Filled) >= 0
  BY DEF TruthInv, NotOversold, AtMarket
<1>3. c \in Orders /\ Intents[c].offset = "Close" /\ Filled[c] > 0
  BY <1>1 DEF Closes, Records
<1>4. /\ Filled[c] = 1
      /\ \A p \in Orders : Intents[p].offset = "Close" /\ Filled[p] > 0 => p = c
      /\ \E e \in Orders : Intents[e].offset = "Open" /\ Filled[e] = 1
      /\ \A direction \in Directions : Amount(Intents, direction, Filled) = 0
  BY <1>1, <1>2, <1>3, TripDone
<1>5. PICK e \in Orders : Intents[e].offset = "Open" /\ Filled[e] = 1
  BY <1>4
<1>6. e \in Entries
  <2>1. counter[e].filled # 0
    BY <1>1, <1>5
  <2>2. e \in Records
    BY <2>1, FillsKnown
  <2> QED BY <1>1, <1>5, <2>2 DEF Entries
<1>7. \A p \in Closes : p \in Orders /\ Intents[p].offset = "Close"
  BY <1>1 DEF Closes, Records
<1> QED BY <1>1, <1>3, <1>4, <1>5, <1>6, <1>7 DEF AtMarket

\* And one the book knows of, while it holds no less than nothing
LEMMA TripInBook ==
  ASSUME TruthInv, Planned, \A direction \in Directions : Booked(direction) >= 0,
         NEW c \in Closes, Accounted(c) > 0
  PROVE  /\ TripTold
         /\ \A direction \in Directions : Booked(direction) = 0
<1>1. /\ OneLot(Intents, Known)
      /\ \A o \in Orders : /\ Intents[o] = records[o].intent
                           /\ Known[o] = Accounted(o)
  BY OneLotOpened
<1>2. \A direction \in Directions : Amount(Intents, direction, Known) >= 0
  BY DEF Booked
<1>3. c \in Orders /\ Intents[c].offset = "Close" /\ Known[c] > 0
  BY <1>1 DEF Closes, Records
<1>4. /\ Known[c] = 1
      /\ \E e \in Orders : Intents[e].offset = "Open" /\ Known[e] = 1
      /\ \A direction \in Directions : Amount(Intents, direction, Known) = 0
  BY <1>1, <1>2, <1>3, TripDone
<1>5. PICK e \in Orders : Intents[e].offset = "Open" /\ Known[e] = 1
  BY <1>4
<1>6. e \in Entries
  <2>1. Accounted(e) # 0
    BY <1>1, <1>5
  <2>2. e \in Records
    BY <2>1, FillsKnown
  <2> QED BY <1>1, <1>5, <2>2 DEF Entries
<1>7. Accounted(e) = 1 /\ Accounted(c) = 1
  BY <1>1, <1>3, <1>4, <1>5
<1> QED BY <1>4, <1>6, <1>7 DEF Booked, TripTold

\* The book holds one lot at most.
LEMMA OneLotBooked ==
  ASSUME TruthInv, Planned, NEW direction \in Directions
  PROVE  Booked(direction) \in Int /\ Booked(direction) <= 1
BY OneLotOpened, TripBound DEF Booked

\* A trip the book knows of is all there is: nothing more is to be learnt, and
\* nothing is held.
LEMMA TripIsAll ==
  ASSUME TruthInv, Planned, TripTold
  PROVE  /\ \A o \in Orders : Accounted(o) = counter[o].filled
         /\ \A direction \in Directions : Booked(direction) = 0
         /\ RoundTripDone
         /\ \A o \in Entries : ~Live(o)
<1>1. PICK e \in Entries : Accounted(e) >= 1
  BY DEF TripTold
<1>2. PICK c \in Closes : Accounted(c) >= 1
  BY DEF TripTold
<1>3. e \in Orders /\ c \in Orders /\ e \in Records /\ c \in Records /\ AccountInv /\ OrdersInv
  BY DEF Entries, Closes, Records, TruthInv
<1>4. /\ Accounted(e) \in Nat /\ counter[e].filled \in Nat /\ Accounted(e) <= counter[e].filled
      /\ counter[e].filled <= Quantity(e) /\ Quantity(e) = 1
  BY <1>3, FillsKnown, OneEntry
<1>5. Accounted(e) = 1 /\ counter[e].filled = 1
  BY <1>1, <1>4
<1>6. Accounted(c) \in Nat /\ counter[c].filled \in Nat /\ Accounted(c) <= counter[c].filled
  BY <1>3, FillsKnown
<1>7. counter[c].filled > 0
  BY <1>2, <1>6
<1>8. /\ counter[c].filled = 1
      /\ \A p \in Closes : counter[p].filled > 0 => p = c
      /\ \A direction \in Directions : AtMarket(direction) = 0
  BY <1>7, TripAtCounter
<1>9. Accounted(c) = 1
  BY <1>2, <1>6, <1>8
<1>10. \A p \in Entries : p = e
  BY <1>3, OneEntry
<1>11. ASSUME NEW o \in Orders PROVE Accounted(o) = counter[o].filled
  <2>1. CASE o \in Entries
    BY <1>5, <1>10, <2>1
  <2>2. CASE o \in Closes
    <3>1. CASE o = c
      BY <1>8, <1>9, <3>1
    <3>2. CASE o # c
      <4>1. ~(counter[o].filled > 0)
        BY <1>8, <2>2, <3>2
      <4> QED BY <4>1, FillsKnown
    <3> QED BY <3>1, <3>2
  <2> QED BY <2>1, <2>2, FillsKnown
<1>12. Known = Filled
  BY <1>11 DEF Known, Filled
<1>13. \A direction \in Directions : Booked(direction) = 0
  BY <1>8, <1>12 DEF Booked, AtMarket
<1>14. \A direction \in Directions : OpenLots(direction) = 0
  BY <1>3, <1>8, LotsAreNumbersAll DEF TruthInv
<1>15. RoundTripDone
  <2>1. {counter[o].filled : o \in {p \in Records : records[p].intent.offset = "Open"}}
           \subseteq {0, 1}
    <3>1. {p \in Records : records[p].intent.offset = "Open"} = Entries
      BY DEF Entries
    <3> QED BY <1>5, <1>10, <3>1
  <2>2. \A offset \in Offsets :
          \E o \in Records : records[o].intent.offset = offset /\ counter[o].filled = 1
    <3>1. \E o \in Records : records[o].intent.offset = "Open" /\ counter[o].filled = 1
      BY <1>3, <1>5 DEF Entries
    <3>2. \E o \in Records : records[o].intent.offset = "Close" /\ counter[o].filled = 1
      BY <1>3, <1>8 DEF Closes
    <3> QED BY <3>1, <3>2 DEF Offsets
  <2> QED BY <1>14, <2>1, <2>2 DEF RoundTripDone
<1>16. ~Live(e)
  <2>1. CounterTrue(e)
    BY <1>3 DEF TruthInv, OrderFacts
  <2> QED BY <1>4, <1>5, <2>1 DEF CounterTrue, Live
<1> QED BY <1>10, <1>11, <1>13, <1>15, <1>16

\* No step takes back what an account has been told of its orders, and an order
\* that was not sent never is.
LEMMA OrdersGoOn ==
  ASSUME TruthInv, StepTells, NEW o \in Records
  PROVE  /\ o \in Records' /\ records'[o].intent = records[o].intent
         /\ Accounted(o) <= Accounted(o)' /\ Accounted(o) \in Nat /\ Accounted(o)' \in Nat
         /\ State(o) \in Unsent => State(o)' \in Unsent
<1>1. /\ o \in Orders /\ records[o].occupied /\ OrderMoves(o) /\ AccountInv /\ OrdersInv
      /\ CounterTrue(o) /\ AccountInv'
  BY DEF Records, StepTells, TruthInv, OrderFacts
<1>2. /\ book.orders[o] \in Order /\ book'.orders[o] \in Order
  BY <1>1 DEF AccountInv, SessionTypes, SoundBook, Book
<1>3. Accounted(o) \in Nat /\ Accounted(o)' \in Nat
  BY <1>2 DEF Accounted, Order
<1>4. State(o) \in Unsent => Status(o) = "None" /\ counter[o].filled = 0
  BY <1>1 DEF CounterTrue, AtCounter, Status
<1>5. State(o) = book.orders[o].state /\ State(o)' = book'.orders[o].state
      /\ Accounted(o) = book.orders[o].accounted /\ Accounted(o)' = book'.orders[o].accounted
  BY DEF State, Accounted
<1>6. Unsent \cap Working = {}
  BY DEF Unsent, Working
<1>7. CASE KeptOrder(o)
  <2>1. /\ records'[o].occupied /\ records'[o].intent = records[o].intent
        /\ Accounted(o)' = Accounted(o)
    BY <1>1, <1>5, <1>7 DEF KeptOrder, SameCounts
  <2>2. State(o)' = State(o) \/ {State(o), State(o)'} \subseteq Working
    BY <1>7 DEF KeptOrder
  <2>3. State(o) \in Unsent => State(o)' \in Unsent
    BY <1>6, <2>2
  <2> QED BY <1>1, <1>3, <2>1, <2>3 DEF Records
<1>8. CASE EnteredOrder(o)
  BY <1>8 DEF EnteredOrder
<1>9. CASE \E r \in OrderReport : ToldOrder(o, r)
  <2>1. PICK r \in OrderReport : ToldOrder(o, r)
    BY <1>9
  <2>2. records'[o].occupied /\ records'[o].intent = records[o].intent
    BY <1>1, <2>1 DEF ToldOrder, SlotAfter
  <2>3. CASE SameOrder(book.orders[o], book'.orders[o])
    BY <1>1, <1>3, <1>5, <2>2, <2>3 DEF SameOrder, SameCounts, Records
  <2>4. CASE Merged(book.orders[o], book'.orders[o], r)
    <3>1. book.orders[o].state \notin Unsent
      BY <2>4 DEF Merged, Malformed, Unsent
    <3>2. book'.orders[o].accounted = book.orders[o].accounted
      BY <2>4 DEF Merged, Merges
    <3> QED BY <1>1, <1>3, <1>5, <2>2, <3>1, <3>2 DEF Records
  <2> QED BY <2>1, <2>3, <2>4 DEF ToldOrder
<1>10. CASE \E t \in TradeReport : TradedOrder(o, t)
  <2>1. PICK t \in TradeReport : TradedOrder(o, t)
    BY <1>10
  <2>2. records'[o].occupied /\ records'[o].intent = records[o].intent
    BY <1>1, <2>1 DEF TradedOrder, SlotAfter
  <2>3. CASE SameOrder(book.orders[o], book'.orders[o])
    BY <1>1, <1>3, <1>5, <2>2, <2>3 DEF SameOrder, SameCounts, Records
  <2>4. CASE /\ Fills(book.orders[o], book'.orders[o], t)
             /\ Accounted(o)' <= counter[o].filled
    <3>1. /\ Accounted(o)' = Accounted(o) + t.quantity /\ t.quantity > 0 /\ t.quantity \in Nat
      BY <1>5, <2>4 DEF Fills, TradeReport
    <3>2. State(o) \notin Unsent
      BY <1>3, <1>4, <2>4, <3>1
    <3> QED BY <1>1, <1>3, <2>2, <3>1, <3>2 DEF Records
  <2> QED BY <2>1, <2>3, <2>4 DEF TradedOrder
<1>11. CASE AccountAside(o) /\ MovedOrder(o)
  BY <1>1, <1>3, <1>5, <1>11 DEF AccountAside, Records
<1> QED BY <1>1, <1>7, <1>8, <1>9, <1>10, <1>11 DEF OrderMoves

\* So a trip that was told of stays so.
LEMMA TripGoesOn ==
  ASSUME TruthInv, StepTells
  PROVE  /\ TripTold => TripTold'
         /\ (\E o \in Entries : Accounted(o) >= 1) => \E o \in Entries' : Accounted(o)' >= 1
         /\ (\E o \in Closes : Accounted(o) >= 1) => \E o \in Closes' : Accounted(o)' >= 1
<1>1. ASSUME NEW o \in Entries, Accounted(o) >= 1
      PROVE  o \in Entries' /\ Accounted(o)' >= 1
  BY <1>1, OrdersGoOn DEF Entries
<1>2. ASSUME NEW o \in Closes, Accounted(o) >= 1
      PROVE  o \in Closes' /\ Accounted(o)' >= 1
  BY <1>2, OrdersGoOn DEF Closes
<1>3. (\E o \in Entries : Accounted(o) >= 1) => \E o \in Entries' : Accounted(o)' >= 1
  BY <1>1
<1>4. (\E o \in Closes : Accounted(o) >= 1) => \E o \in Closes' : Accounted(o)' >= 1
  BY <1>2
<1> QED BY <1>3, <1>4 DEF TripTold

-----------------------------------------------------------------------------
(* What acceptance_snapshot counts *)

\* A trade is counted at most once each way, and is one the book accounts for.
ToldTrue ==
  /\ told \in [entry : {0, 1}, exit : {0, 1}, failed : BOOLEAN]
  /\ told.entry = 1 => \E o \in Entries : Accounted(o) >= 1
  /\ told.exit = 1 => \E o \in Closes : Accounted(o) >= 1

\* A trade that is counted is accounted for.
LEMMA CountedTrade ==
  ASSUME NEW b, SoundBook(b), NEW t \in TradeReport, ApplyTrade(b, t).code = "Applied"
  PROVE  /\ ApplyTrade(b, t).book = RecordTrade(b, t) /\ t.quantity > 0
         /\ ApplyTrade(b, t).book.orders[t.id].accounted = b.orders[t.id].accounted + t.quantity
<1>1. /\ t.quantity > 0 /\ ApplyTrade(b, t).book = RecordTrade(b, t)
  BY DEF ApplyTrade, Conflict, Refused, Ignored, Result, TradeReport
<1>2. t.id \in Orders /\ b.orders \in [Orders -> Order]
  BY DEF SoundBook, Book, TradeReport
<1>3. RecordTrade(b, t).orders[t.id] = OrderAfterTrade(b.orders[t.id], t)
  BY <1>2 DEF RecordTrade, SoundBook, Book
<1>4. OrderAfterTrade(b.orders[t.id], t).accounted = b.orders[t.id].accounted + t.quantity
  BY <1>2 DEF OrderAfterTrade, Order
<1> QED BY <1>1, <1>3, <1>4

\* The worker hears of the trade of an entry, or of an exit, once.
LEMMA TradeHeard ==
  ASSUME TruthInv, Planned, ToldTrue, StepTells, HearTrade, UNCHANGED plan
  PROVE  ToldTrue'
<1>1. ReceivePushedTrade /\ UNCHANGED <<counter>> /\ trades # <<>>
  BY DEF HearTrade, ReceivePushedTrade, ReceiveTrade
<1>2. PICK t \in Range(executed) :
              /\ t = Head(trades) /\ t \in Trade /\ t.id \in Orders
              /\ TradedOrder(t.id, t)
  BY <1>1, PushedTradeTells
<1>3. t \in TradeReport /\ t.quantity \in Nat /\ SoundBook(book) /\ AccountInv /\ OrdersInv
  BY <1>2, TradesCounted DEF TruthInv, AccountInv, SessionTypes
<1>4. /\ book' = ApplyTrade(book, t).book
      /\ told' = LET volume == IF CountsTrade(ApplyTrade(book, t)) THEN t.quantity ELSE 0 IN
                 IF records[t.id].intent.offset = "Open"
                 THEN [told EXCEPT !.entry = @ + volume]
                 ELSE [told EXCEPT !.exit = @ + volume]
  BY <1>1, <1>2 DEF HearTrade, ReceivePushedTrade, ReceiveTrade
<1>5. /\ (\E o \in Entries : Accounted(o) >= 1) => \E o \in Entries' : Accounted(o)' >= 1
      /\ (\E o \in Closes : Accounted(o) >= 1) => \E o \in Closes' : Accounted(o)' >= 1
  BY TripGoesOn
<1>6. CASE ~CountsTrade(ApplyTrade(book, t))
  <2>1. told' = told
    BY <1>4, <1>6 DEF ToldTrue
  <2> QED BY <1>5, <2>1 DEF ToldTrue
<1>7. CASE CountsTrade(ApplyTrade(book, t))
  <2>1. /\ t.quantity > 0 /\ Accounted(t.id)' = Accounted(t.id) + t.quantity
    BY <1>3, <1>4, <1>7, CountedTrade DEF CountsTrade, Accounted
  <2>2. /\ Accounted(t.id) \in Nat /\ counter[t.id].filled \in Nat
        /\ Accounted(t.id) <= counter[t.id].filled
        /\ t.id \notin Records => counter[t.id].filled = 0
        /\ t.id \in Records => t.id \in Entries \/ t.id \in Closes
        /\ t.id \in Records => counter[t.id].filled <= Quantity(t.id)
    BY <1>2, FillsKnown
  <2>3. Accounted(t.id)' <= counter[t.id].filled
    <3>1. CASE SameOrder(book.orders[t.id], book'.orders[t.id])
      BY <2>2, <3>1 DEF SameOrder, SameCounts, Accounted
    <3> QED BY <1>2, <3>1 DEF TradedOrder
  <2>4. t.id \in Records /\ counter[t.id].filled > 0
    BY <1>3, <2>1, <2>2, <2>3
  <2>5. t.id \in Records'
    BY <2>4, OrdersGoOn
  <2>6. records'[t.id].intent = records[t.id].intent
    BY <2>4, OrdersGoOn
  <2>7. CASE t.id \in Entries
    <3>1. records[t.id].intent.offset = "Open" /\ t.id \in Entries'
      BY <2>5, <2>6, <2>7 DEF Entries
    <3>2. Quantity(t.id) = 1 /\ \A p \in Entries : p = t.id
      BY <1>3, <2>7, OneEntry
    <3>3. Accounted(t.id) = 0 /\ t.quantity = 1 /\ Accounted(t.id)' = 1
      BY <1>3, <2>1, <2>2, <2>3, <2>4, <3>2
    <3>4. ~ \E o \in Entries : Accounted(o) >= 1
      BY <3>2, <3>3
    <3>5. told.entry = 0
      BY <3>4 DEF ToldTrue
    <3>6. told' = [told EXCEPT !.entry = @ + t.quantity]
      BY <1>4, <1>7, <3>1
    <3>7. told'.exit = told.exit /\ told' \in [entry : {0, 1}, exit : {0, 1}, failed : BOOLEAN]
      BY <3>3, <3>5, <3>6 DEF ToldTrue
    <3> QED BY <1>5, <3>1, <3>3, <3>7 DEF ToldTrue
  <2>8. CASE t.id \in Closes
    <3>1. records[t.id].intent.offset # "Open" /\ t.id \in Closes'
      BY <2>5, <2>6, <2>8 DEF Closes
    <3>2. counter[t.id].filled = 1 /\ \A p \in Closes : counter[p].filled > 0 => p = t.id
      BY <2>4, <2>8, TripAtCounter
    <3>3. Accounted(t.id) = 0 /\ t.quantity = 1 /\ Accounted(t.id)' = 1
      BY <1>3, <2>1, <2>2, <2>3, <3>2
    <3>4. ASSUME NEW o \in Closes, Accounted(o) >= 1 PROVE FALSE
      <4>1. o \in Orders
        BY DEF Closes, Records
      <4>2. counter[o].filled > 0
        BY <3>4, <4>1, FillsKnown
      <4> QED BY <3>2, <3>3, <3>4, <4>2
    <3>5. told.exit = 0
      BY <3>4 DEF ToldTrue
    <3>6. told' = [told EXCEPT !.exit = @ + t.quantity]
      BY <1>4, <1>7, <3>1
    <3>7. told'.entry = told.entry /\ told' \in [entry : {0, 1}, exit : {0, 1}, failed : BOOLEAN]
      BY <3>3, <3>5, <3>6 DEF ToldTrue
    <3> QED BY <1>5, <3>1, <3>3, <3>7 DEF ToldTrue
  <2> QED BY <2>2, <2>4, <2>7, <2>8
<1> QED BY <1>6, <1>7

-----------------------------------------------------------------------------
(* An account without a fault *)

\* The faults a handler may find
Faults == {"StateConflict", "PriceOverflow", "CapacityExceeded", "CloseCancelRejected",
           "CloseRetryExhausted", "CallbackQueueOverflow", "RecoveryFailed",
           "Disconnected", "MarketQueueOverflow"}

\* A condition that is met is a fault.
LEMMA FaultIf ==
  ASSUME NEW condition, NEW reason \in Faults
  PROVE  /\ If(condition, reason) \in Seq(Faults)
         /\ If(condition, reason) = <<>> => ~condition
<1>1. <<reason>> \in Seq(Faults) /\ <<reason>> # <<>> /\ <<>> \in Seq(Faults)
  OBVIOUS
<1> QED BY <1>1 DEF If

\* Faults found one after the other are none when each is none.
LEMMA FaultsTwo ==
  ASSUME NEW a \in Seq(Faults), NEW b \in Seq(Faults)
  PROVE  /\ a \o b \in Seq(Faults)
         /\ a \o b = <<>> => a = <<>> /\ b = <<>>
<1>1. a \o b \in Seq(Faults) /\ Len(a \o b) = Len(a) + Len(b) /\ Len(a) \in Nat /\ Len(b) \in Nat
  OBVIOUS
<1>2. ASSUME a \o b = <<>> PROVE a = <<>> /\ b = <<>>
  <2>1. Len(a) = 0 /\ Len(b) = 0
    BY <1>1, <1>2
  <2> QED BY <2>1
<1> QED BY <1>1, <1>2

\* An account that has no fault afterwards had none before, and found none.
LEMMA NoFaultFound ==
  ASSUME NEW reasons \in Seq(Faults), SetFaults(reasons), fault' = "None"
  PROVE  fault = "None" /\ reasons = <<>> /\ (Thawed => frozen' = frozen)
<1>1. ASSUME reasons # <<>> PROVE Head(reasons) \in Faults
  BY <1>1
<1>2. "None" \notin Faults
  BY DEF Faults
<1>3. reasons = <<>>
  BY <1>1, <1>2 DEF SetFaults
<1>4. fault = "None"
  BY <1>3 DEF SetFaults
<1>5. Thawed => frozen' = frozen
  BY <1>3 DEF SetFaults, Thawed
<1> QED BY <1>3, <1>4, <1>5

\* Nor did it fail to ask.
LEMMA AsksWithoutFault ==
  ASSUME NEW reasons \in Seq(Faults), fault' = "None"
  PROVE  /\ ~Fail(reasons) \/ phase = "Frozen"
         /\ ~NotSent(reasons)
         /\ \A p : Request(p, reasons) => Sent(p) /\ SetFaults(reasons)
         /\ BeginQueries(reasons) =>
              /\ fault = "None" /\ reasons = <<>> /\ Sent("QueryingOrders")
              /\ crossed' = FALSE /\ alarmed' = FALSE
<1>1. "RecoveryFailed" \in Faults /\ "None" \notin Faults
  BY DEF Faults
<1>2. ~NotSent(reasons)
  <2>1. Append(reasons, "RecoveryFailed") \in Seq(Faults) /\ Append(reasons, "RecoveryFailed") # <<>>
    BY <1>1
  <2> QED BY <2>1, NoFaultFound DEF NotSent
<1>3. ASSUME Fail(reasons), phase # "Frozen" PROVE FALSE
  <2>1. If(phase # "Frozen", "RecoveryFailed") = <<"RecoveryFailed">>
    BY <1>3 DEF If
  <2>2. /\ reasons \o <<"RecoveryFailed">> \in Seq(Faults)
        /\ reasons \o <<"RecoveryFailed">> # <<>>
    BY <1>1
  <2>3. SetFaults(reasons \o <<"RecoveryFailed">>)
    BY <1>3, <2>1 DEF Fail
  <2> QED BY <2>2, <2>3, NoFaultFound
<1>4. \A p : Request(p, reasons) => Sent(p) /\ SetFaults(reasons)
  BY <1>2 DEF Request
<1>5. ASSUME BeginQueries(reasons)
      PROVE  /\ fault = "None" /\ reasons = <<>> /\ Sent("QueryingOrders")
             /\ crossed' = FALSE /\ alarmed' = FALSE
  <2>1. /\ Sent("QueryingOrders") /\ crossed' = FALSE /\ alarmed' = FALSE
        /\ fault' = IF fault = "None" /\ reasons # <<>> THEN Head(reasons) ELSE fault
    BY <1>2, <1>5 DEF BeginQueries
  <2>2. reasons # <<>> => Head(reasons) \in Faults
    OBVIOUS
  <2> QED BY <1>1, <2>1, <2>2
<1> QED BY <1>2, <1>3, <1>4, <1>5

\* The order is at the counter, or filled.
AtWork(o) == Status(o) \in {"Live", "Accepted", "Filled"}

\* An exit at work of which the book knows no fill is the one the account waits for.
ExitNamed ==
  \A o \in Closes : AtWork(o) /\ Accounted(o) = 0 => exit.active /\ exit.id = o

\* The first lot closed ends the trip and the exit.
TripEnds ==
  \A o \in Closes :
    Accounted(o) >= 1 => TripTold /\ ~exit.pending /\ ~exit.active /\ exit.id = 0

ExitsClean == ExitNamed /\ TripEnds /\ \A o \in Closes : Quantity(o) = 1

\* The account asks before its first order and for the final query only, and
\* no trade of the trip crosses that.
AsksClean ==
  /\ phase # "Frozen" /\ (phase = "Ready" => ~frozen)
  /\ link = "Down" => phase = "Connecting"
  /\ phase # "Ready" => Records = {} \/ TripTold
  /\ ~alarmed /\ (crossed => TripTold)
  /\ Held.known

\* What holds of an account under acceptance that has had no fault
CleanInv == fault = "None" => AsksClean /\ ExitsClean

\* Steps that leave the exit and what is known of the exit orders
LEMMA ExitsStay ==
  ASSUME ExitsClean, TripTold => TripTold',
         \A o \in Closes' : /\ o \in Closes /\ Quantity(o)' = Quantity(o)
                            /\ Accounted(o)' = Accounted(o)
                            /\ AtWork(o)' => AtWork(o),
         exit'.pending = exit.pending, exit'.active = exit.active, exit'.id = exit.id
  PROVE  ExitsClean'
<1>1. ASSUME NEW o \in Closes', AtWork(o)', Accounted(o)' = 0
      PROVE  exit'.active /\ exit'.id = o
  BY <1>1 DEF ExitsClean, ExitNamed
<1>2. ASSUME NEW o \in Closes', Accounted(o)' >= 1
      PROVE  TripTold' /\ ~exit'.pending /\ ~exit'.active /\ exit'.id = 0
  BY <1>2 DEF ExitsClean, TripEnds
<1>3. \A o \in Closes' : Quantity(o)' = 1
  BY DEF ExitsClean
<1> QED BY <1>1, <1>2, <1>3 DEF ExitsClean, ExitNamed, TripEnds

\* So do those that enter and change no order.
LEMMA ExitsKept ==
  ASSUME ExitsClean, TripTold => TripTold', SameIntents,
         \A o \in Orders : Accounted(o)' = Accounted(o) /\ (AtWork(o)' => AtWork(o)),
         exit'.pending = exit.pending, exit'.active = exit.active, exit'.id = exit.id
  PROVE  ExitsClean' /\ Closes' = Closes /\ Records' = Records
<1>1. \A o \in Orders : /\ records'[o].intent = records[o].intent
                        /\ records'[o].occupied = records[o].occupied
  BY DEF SameIntents
<1>2. Closes' = Closes /\ Closes \subseteq Orders /\ Records' = Records
  BY <1>1 DEF Closes, Records
<1>3. \A o \in Orders : Quantity(o)' = Quantity(o)
  BY <1>1 DEF Quantity
<1> QED BY <1>2, <1>3, ExitsStay

\* What the book accounts for was filled.
FillsCover == \A o \in Orders : Accounted(o) \in Nat /\ Accounted(o) <= counter[o].filled

LEMMA FillsCoverThen == TruthInv' => FillsCover'
<1>1. TruthInv => FillsCover
  BY FillsKnown DEF FillsCover
<1> QED BY <1>1, PTL

\* A row of an answer that leaves the account without a fault
LEMMA RowAsks ==
  ASSUME fault' = "None", ReceiveAnswer
  PROVE  /\ fault = "None" /\ link' = link
         /\ \/ phase = "Frozen"
            \/ /\ phase \in Asking /\ phase' \in Asking \cup {"Ready"}
               /\ phase' = "Ready" => frozen' = FALSE
               /\ UNCHANGED history \/ (crossed' = FALSE /\ alarmed' = FALSE)
               /\ ~ReceiveFlawed
<1> DEFINE Goes == /\ phase \in Asking /\ phase' \in Asking \cup {"Ready"}
                   /\ phase' = "Ready" => frozen' = FALSE
                   /\ UNCHANGED history \/ (crossed' = FALSE /\ alarmed' = FALSE)
<1>1. <<>> \in Seq(Faults) /\ "RecoveryFailed" \in Faults
  BY DEF Faults
<1>2. /\ Fail(<<>>) => phase = "Frozen"
      /\ \A p : Request(p, <<>>) => Sent(p) /\ SetFaults(<<>>)
      /\ BeginQueries(<<>>) =>
           /\ fault = "None" /\ Sent("QueryingOrders")
           /\ crossed' = FALSE /\ alarmed' = FALSE
  BY <1>1, AsksWithoutFault
<1>3. SetFaults(<<>>) => fault = "None"
  BY <1>1, NoFaultFound
<1>4. ASSUME NEW reasons \in Seq(Faults), Fail(reasons) PROVE fault = "None"
  <2>1. If(phase # "Frozen", "RecoveryFailed") \in Seq(Faults)
    BY <1>1, FaultIf
  <2>2. reasons \o If(phase # "Frozen", "RecoveryFailed") \in Seq(Faults)
    BY <2>1, FaultsTwo
  <2>3. SetFaults(reasons \o If(phase # "Frozen", "RecoveryFailed"))
    BY <1>4 DEF Fail
  <2> QED BY <2>2, <2>3, NoFaultFound
<1>13. Fail(<<>>) => fault = "None"
  BY <1>1, <1>4
<1>5. /\ Querying \subseteq Asking /\ "Authenticating" \in Asking /\ "LoggingIn" \in Asking
      /\ "QueryingSettlementConfirmation" \in Asking /\ "ConfirmingSettlement" \in Asking
      /\ "QueryingOrders" \in Asking /\ "QueryingTrades" \in Asking
      /\ "QueryingPositions" \in Asking /\ "QueryingFunds" \in Asking /\ "Ready" \notin Asking
  BY PhaseNames DEF Asking, Querying
<1>6. CASE ReceiveLogin
  <2>1. link' = link
    BY <1>6 DEF ReceiveLogin, world
  <2>2. fault = "None" /\ Goes
    BY <1>2, <1>3, <1>5, <1>6 DEF ReceiveLogin, Receives, Sent
  <2>3. ~ReceiveFlawed
    BY <1>6 DEF ReceiveLogin, ReceiveFlawed, Receives
  <2> QED BY <2>1, <2>2, <2>3
<1>7. CASE ReceiveSettlement
  <2>1. link' = link
    BY <1>7 DEF ReceiveSettlement, world
  <2>2. fault = "None" /\ Goes
    BY <1>2, <1>3, <1>5, <1>7 DEF ReceiveSettlement, Receives, Sent
  <2>3. ~ReceiveFlawed
    BY <1>7 DEF ReceiveSettlement, ReceiveFlawed, Receives
  <2> QED BY <2>1, <2>2, <2>3
<1>8. CASE ReceiveOrderRow
  <2>1. link' = link /\ UNCHANGED history /\ phase \in Asking /\ ~ReceiveFlawed
    BY <1>5, <1>8 DEF ReceiveOrderRow, world, ReceiveFlawed, Receives
  <2>2. Fail(<<>>) \/ Stay(<<>>) \/ Request("QueryingTrades", <<>>)
    BY <1>8 DEF ReceiveOrderRow
  <2>3. CASE Fail(<<>>)
    BY <1>2, <1>13, <2>1, <2>3
  <2>4. CASE Stay(<<>>)
    BY <1>3, <1>5, <2>1, <2>4 DEF Stay
  <2>5. CASE Request("QueryingTrades", <<>>)
    BY <1>2, <1>3, <1>5, <2>1, <2>5 DEF Sent
  <2> QED BY <2>2, <2>3, <2>4, <2>5
<1>9. CASE ReceiveTradeRow
  <2>1. link' = link /\ UNCHANGED history /\ phase \in Asking /\ ~ReceiveFlawed
    BY <1>5, <1>9 DEF ReceiveTradeRow, world, ReceiveFlawed, Receives
  <2>2. PICK reasons : /\ reasons \in Seq(Faults)
                       /\ Fail(<<>>) \/ Stay(reasons) \/ Request("QueryingPositions", reasons)
    <3>1. PICK t, result : t = Head(answers).row[1] /\ result = ApplyTrade(book, t)
      OBVIOUS
    <3>2. PICK reasons : reasons = IF Head(answers).row = <<>> THEN <<>> ELSE TradeFaults(t.id, result)
      OBVIOUS
    <3>3. "StateConflict" \in Faults
      BY DEF Faults
    <3>4. reasons \in Seq(Faults)
      BY <1>1, <3>2, <3>3, FaultIf DEF TradeFaults
    <3>5. Fail(<<>>) \/ Stay(reasons) \/ Request("QueryingPositions", reasons)
      BY <1>9, <3>1, <3>2 DEF ReceiveTradeRow
    <3> QED BY <3>4, <3>5
  <2>3. SetFaults(reasons) => fault = "None"
    BY <2>2, NoFaultFound
  <2>4. Request("QueryingPositions", reasons) => Sent("QueryingPositions") /\ SetFaults(reasons)
    BY <2>2, AsksWithoutFault
  <2> QED BY <1>1, <1>2, <1>4, <1>5, <2>1, <2>2, <2>3, <2>4 DEF Stay, Sent
<1>10. CASE ReceivePositionRow
  <2>1. link' = link /\ UNCHANGED history /\ phase \in Asking /\ ~ReceiveFlawed
    BY <1>5, <1>10 DEF ReceivePositionRow, world, ReceiveFlawed, Receives
  <2>2. Fail(<<>>) \/ Stay(<<>>) \/ Request("QueryingFunds", <<>>)
    BY <1>10 DEF ReceivePositionRow
  <2>3. CASE Fail(<<>>)
    BY <1>2, <1>13, <2>1, <2>3
  <2>4. CASE Stay(<<>>)
    BY <1>3, <1>5, <2>1, <2>4 DEF Stay
  <2>5. CASE Request("QueryingFunds", <<>>)
    BY <1>2, <1>3, <1>5, <2>1, <2>5 DEF Sent
  <2> QED BY <2>2, <2>3, <2>4, <2>5
<1>11. CASE ReceiveFunds
  BY <1>5, <1>11 DEF ReceiveFunds, world, ReceiveFlawed, Receives
<1>12. CASE ReceiveFlawed
  <2>1. Fail(<<>>) /\ link' = link
    BY <1>12 DEF ReceiveFlawed, world
  <2> QED BY <1>1, <1>2, <1>4, <2>1
<1> QED BY <1>6, <1>7, <1>8, <1>9, <1>10, <1>11, <1>12 DEF ReceiveAnswer

\* While the account asks, it knows all there is of the trip.
LEMMA NothingToLearn ==
  ASSUME TruthInv, Planned, Records = {} \/ TripTold
  PROVE  \A o \in Orders : Accounted(o) = counter[o].filled
<1>1. CASE TripTold
  BY <1>1, TripIsAll
<1>2. CASE Records = {}
  BY <1>2, FillsKnown
<1> QED BY <1>1, <1>2

\* So a trade it is told of teaches it nothing.
LEMMA NothingLearnt ==
  ASSUME TruthInv, \A o \in Orders : Accounted(o) = counter[o].filled,
         NEW t \in Range(executed)
  PROVE  /\ ApplyTrade(book, t).code # "Applied"
         /\ ApplyTrade(book, t).book.positions = book.positions
<1>1. t \in Trade /\ t \in TradeReport /\ t.id \in Orders /\ t.quantity \in Nat
  BY TradesCounted DEF TruthInv
<1>2. AccountInv /\ TradesTrue /\ SoundBook(book)
  BY DEF TruthInv, AccountInv, SessionTypes
<1>3. Accounted(t.id) \in Nat /\ counter[t.id].filled = Accounted(t.id)
  BY <1>1, FillsKnown
<1>4. ~Learns(ApplyTrade(book, t).book, t)
  BY <1>1, <1>3 DEF Learns, Fills, Accounted
<1>5. SameBook(book, ApplyTrade(book, t).book, {})
  BY <1>2, <1>4, TradeBooked
<1>6. ASSUME ApplyTrade(book, t).code = "Applied" PROVE FALSE
  <2>1. /\ t.quantity > 0
        /\ ApplyTrade(book, t).book.orders[t.id].accounted = book.orders[t.id].accounted + t.quantity
    BY <1>1, <1>2, <1>6, CountedTrade
  <2>2. ApplyTrade(book, t).book.orders[t.id].accounted = book.orders[t.id].accounted
    BY <1>1, <1>5 DEF SameBook, SameOrder, SameCounts
  <2> QED BY <1>1, <1>3, <2>1, <2>2 DEF Accounted
<1> QED BY <1>5, <1>6 DEF SameBook

\* A row of an answer leaves the intents of the orders.
LEMMA RowIntents ==
  ASSUME TruthInv, ReceiveAnswer, UNCHANGED plan
  PROVE  SameIntents
<1>1. CASE ReceiveOrderRow
  <2>1. \/ UNCHANGED records
        \/ \E r \in OrderReport : OrderRowTold(r)
    BY <1>1, OrderRowTells DEF Quiet
  <2>2. CASE \E r \in OrderReport : OrderRowTold(r)
    <3>1. PICK r \in OrderReport : OrderRowTold(r)
      BY <2>2
    <3>2. ASSUME NEW o \in Orders
          PROVE  /\ records'[o].intent = records[o].intent
                 /\ records'[o].occupied = records[o].occupied
      <4>1. CASE o = r.id
        BY <3>1, <4>1 DEF OrderRowTold, ToldOrder, SlotAfter
      <4>2. CASE o # r.id
        BY <3>1, <4>2 DEF OrderRowTold, KeptOrder
      <4> QED BY <4>1, <4>2
    <3> QED BY <3>2 DEF SameIntents
  <2> QED BY <2>1, <2>2 DEF SameIntents
<1>2. CASE ~ReceiveOrderRow
  <2>1. UNCHANGED records
    BY <1>2 DEF ReceiveAnswer, ReceiveLogin, ReceiveSettlement, ReceiveTradeRow,
                ReceivePositionRow, ReceiveFunds, ReceiveFlawed
  <2> QED BY <2>1 DEF SameIntents
<1> QED BY <1>1, <1>2

\* A row that teaches the book no trade leaves the exit, and the position known.
LEMMA RowAside ==
  ASSUME TruthInv, ReceiveAnswer, UNCHANGED plan, Held.known,
         \A o \in Orders : Accounted(o) = counter[o].filled
  PROVE  exit' = exit /\ Held.known'
<1>1. SoundBook(book) /\ AnswerInv /\ RowsInv /\ Instrument \in Instruments
  BY SessionAssumption DEF TruthInv, AccountInv, SessionTypes
<1>2. /\ book.positions \in [Instruments -> Position] /\ Held.long \in Nat /\ Held.short \in Nat
  BY <1>1 DEF SoundBook, Book, Held, Position
<1>3. CASE ReceiveOrderRow
  <2>1. exit' = exit
    BY <1>3 DEF ReceiveOrderRow
  <2>2. CASE Head(answers).row = <<>>
    BY <1>3, <2>2 DEF ReceiveOrderRow, Held
  <2>3. CASE Head(answers).row # <<>>
    <3>1. PICK r \in OrderReport : r = answers[1].row[1]
      <4>1. answers # <<>> /\ Head(answers) = answers[1]
        BY <1>1, <1>3, HeadRow DEF ReceiveOrderRow, Receives
      <4>2. answers[1].row # <<>>
        BY <2>3, <4>1
      <4> QED BY <1>3, <4>2, OrderRowTells
    <3>2. Head(answers) = answers[1]
      BY <1>1, <1>3, HeadRow DEF ReceiveOrderRow, Receives
    <3>3. book' = ApplyOrderReport(book, r).book
      BY <1>3, <2>3, <3>1, <3>2 DEF ReceiveOrderRow
    <3>4. book'.positions = book.positions
      BY <1>1, <3>3, ReportTaken DEF SameBook
    <3> QED BY <2>1, <3>4 DEF Held
  <2> QED BY <2>1, <2>2, <2>3
<1>4. CASE ReceiveTradeRow
  <2>1. \/ answers[1].row = <<>>
        \/ /\ answers[1].row # <<>> /\ \E t \in Range(executed) : t = answers[1].row[1]
    BY <1>4, TradeRowTells
  <2>2. Head(answers) = answers[1]
    BY <1>1, <1>4, HeadRow DEF ReceiveTradeRow, Receives
  <2>3. PICK applied : /\ applied.positions = book.positions
                       /\ book' = BeginPositionReconciliation(applied) \/ book' = applied
                       /\ exit' = exit
    <3>1. CASE answers[1].row = <<>>
      BY <1>4, <2>2, <3>1 DEF ReceiveTradeRow
    <3>2. CASE answers[1].row # <<>>
      <4>1. PICK t \in Range(executed) : t = answers[1].row[1]
        BY <2>1, <3>2
      <4>2. PICK result : result = ApplyTrade(book, t)
        OBVIOUS
      <4>3. result.code # "Applied" /\ result.book.positions = book.positions
        BY <4>2, NothingLearnt
      <4>4. /\ book' = BeginPositionReconciliation(result.book) \/ book' = result.book
            /\ exit' = exit \/ exit' = ExitAfterTrade(t.id, t, result)
        BY <1>4, <2>2, <3>2, <4>1, <4>2 DEF ReceiveTradeRow
      <4>5. ExitAfterTrade(t.id, t, result) = exit
        BY <4>3 DEF ExitAfterTrade, Counts
      <4> QED BY <4>3, <4>4, <4>5
    <3> QED BY <2>1, <3>1, <3>2
  <2>4. BeginPositionReconciliation(applied).positions[Instrument].known
    BY <1>1 DEF BeginPositionReconciliation, NoPosition
  <2> QED BY <2>3, <2>4 DEF Held
<1>5. CASE ReceivePositionRow
  <2>1. exit' = exit
    BY <1>5 DEF ReceivePositionRow
  <2>2. PICK long, short, result :
          /\ result = SetReconciledPosition(book, Instrument, long, short)
          /\ book' = book \/ book' = result.book
    BY <1>5 DEF ReceivePositionRow
  <2>3. result.book = book \/ result.book.positions[Instrument].known
                \/ result = Conflict(book, {})
    BY <1>1, <1>2, <2>2 DEF SetReconciledPosition, Result
  <2>4. Conflict(book, {}).book.positions = book.positions
    BY <1>1, RefusalTeachesNothing DEF SameBook
  <2> QED BY <2>1, <2>2, <2>3, <2>4 DEF Held
<1>6. CASE ReceiveFunds
  <2>1. exit' = exit /\ book'.positions = book.positions
    BY <1>1, <1>6 DEF ReceiveFunds, CompleteReconciliation, SoundBook, Book
  <2> QED BY <2>1 DEF Held
<1>7. CASE ReceiveLogin \/ ReceiveSettlement \/ ReceiveFlawed
  <2>1. exit' = exit /\ book' = book
    BY <1>7 DEF ReceiveLogin, ReceiveSettlement, ReceiveFlawed
  <2> QED BY <2>1 DEF Held
<1> QED BY <1>3, <1>4, <1>5, <1>6, <1>7 DEF ReceiveAnswer

\* A row of an answer leaves an account without a fault clean.
LEMMA RowClean ==
  ASSUME TruthInv, TruthInv', StepTells, Planned, CleanInv, ReceiveAnswer, UNCHANGED plan
  PROVE  CleanInv'
<1> SUFFICES ASSUME fault' = "None" PROVE AsksClean' /\ ExitsClean'
  BY DEF CleanInv
<1>1. /\ fault = "None" /\ link' = link
      /\ \/ phase = "Frozen"
         \/ /\ phase \in Asking /\ phase' \in Asking \cup {"Ready"}
            /\ phase' = "Ready" => frozen' = FALSE
            /\ UNCHANGED history \/ (crossed' = FALSE /\ alarmed' = FALSE)
  BY RowAsks
<1>2. AsksClean /\ ExitsClean
  BY <1>1 DEF CleanInv
<1>3. /\ phase \in Asking /\ phase' \in Asking \cup {"Ready"}
      /\ phase' = "Ready" => frozen' = FALSE
      /\ UNCHANGED history \/ (crossed' = FALSE /\ alarmed' = FALSE)
  BY <1>1, <1>2 DEF AsksClean
<1>4. "Ready" \notin Asking /\ "Frozen" \notin Asking /\ "Connecting" \notin Asking
  BY DEF Asking, Querying
<1>5. Records = {} \/ TripTold
  BY <1>2, <1>3, <1>4 DEF AsksClean
<1>6. \A o \in Orders : Accounted(o) = counter[o].filled
  BY <1>5, NothingToLearn
<1>7. UNCHANGED counter
  BY RowKinds DEF environment
<1>8. SameIntents
  BY RowIntents
<1>9. \A o \in Orders : o \in Records' <=> o \in Records
  BY <1>8 DEF SameIntents, Records
<1>10. \A o \in Orders : Accounted(o)' = Accounted(o)
  <2> SUFFICES ASSUME NEW o \in Orders PROVE Accounted(o)' = Accounted(o)
    OBVIOUS
  <2>1. Accounted(o)' \in Nat /\ Accounted(o)' <= counter'[o].filled
    BY FillsCoverThen DEF FillsCover
  <2>2. Accounted(o) \in Nat /\ Accounted(o)' <= Accounted(o)
    BY <1>6, <1>7, <2>1, FillsKnown
  <2>3. o \in Records => Accounted(o) <= Accounted(o)'
    BY OrdersGoOn
  <2>4. o \notin Records => Accounted(o) = 0
    BY FillsKnown
  <2> QED BY <2>1, <2>2, <2>3, <2>4
<1>11. \A o \in Orders : AtWork(o)' => AtWork(o)
  BY <1>7 DEF AtWork, Status
<1>12. exit' = exit /\ Held.known'
  BY <1>2, <1>6, RowAside DEF AsksClean
<1>13. TripTold => TripTold'
  BY TripGoesOn
<1>14. ExitsClean' /\ Records' = Records
  BY <1>2, <1>8, <1>10, <1>11, <1>12, <1>13, ExitsKept
<1>15. AsksClean'
  <2>1. link # "Down"
    BY <1>2, <1>3, <1>4 DEF AsksClean
  <2>2. phase' # "Frozen" /\ (phase' = "Ready" => ~frozen')
    BY <1>3, <1>4
  <2>3. ~alarmed' /\ (crossed' => TripTold')
    BY <1>2, <1>3, <1>13 DEF AsksClean, history
  <2> QED BY <1>1, <1>5, <1>12, <1>13, <1>14, <2>1, <2>2, <2>3 DEF AsksClean
<1> QED BY <1>14, <1>15

\* A loss of callbacks, of the connection or of market events is a fault.
LEMMA LossIsFault ==
  ASSUME fault' = "None"
  PROVE  ~Disconnected /\ ~MarkFault /\ ~Overflow
<1>1. ASSUME NEW fault1 \in Faults, NEW more \in Seq(Faults) PROVE ~SetFaults(<<fault1>> \o more)
  <2>1. <<fault1>> \o more \in Seq(Faults) /\ <<fault1>> \o more # <<>>
    OBVIOUS
  <2> QED BY <2>1, NoFaultFound
<1>2. ASSUME NEW fault1 \in Faults PROVE ~SetFaults(<<fault1>>)
  <2>1. <<fault1>> \in Seq(Faults) /\ <<fault1>> # <<>>
    OBVIOUS
  <2> QED BY <2>1, NoFaultFound
<1>3. {"Disconnected", "MarketQueueOverflow", "CallbackQueueOverflow", "RecoveryFailed"} \subseteq Faults
  BY DEF Faults
<1>4. ~Disconnected /\ ~MarkFault
  BY <1>2, <1>3 DEF Disconnected, MarkFault
<1>5. ~Overflow
  <2>1. ~Stay(<<"CallbackQueueOverflow">>)
    BY <1>2, <1>3 DEF Stay
  <2>2. ~Fail(<<"CallbackQueueOverflow">>)
    <3>1. If(phase # "Frozen", "RecoveryFailed") \in Seq(Faults)
      BY <1>3, FaultIf
    <3> QED BY <1>1, <1>3, <3>1 DEF Fail
  <2>3. ~BeginQueries(<<"CallbackQueueOverflow">>)
    <3>1. <<"CallbackQueueOverflow">> \in Seq(Faults) /\ <<"CallbackQueueOverflow">> # <<>>
      BY <1>3
    <3> QED BY <3>1, AsksWithoutFault
  <2> QED BY <2>1, <2>2, <2>3 DEF Overflow
<1> QED BY <1>4, <1>5

\* A connection without a fault is the first.
LEMMA LinkClean ==
  ASSUME CleanInv, Connected \/ Disconnected \/ Overflow \/ MarkFault
  PROVE  CleanInv'
<1> SUFFICES ASSUME fault' = "None" PROVE AsksClean' /\ ExitsClean'
  BY DEF CleanInv
<1>6. CASE Connected
  <2>8. <<>> \in Seq(Faults)
    OBVIOUS
  <2>1. ~NotSent(<<>>)
    BY <2>8, AsksWithoutFault
  <2>2. /\ link = "Down" /\ link' = "Up" /\ phase' = "Authenticating" /\ fault = "None"
        /\ UNCHANGED <<book, records, exit, counter, history>>
    BY <1>6, <2>1 DEF Connected, Sent, environment
  <2>3. AsksClean /\ ExitsClean
    BY <2>2 DEF CleanInv
  <2>4. phase # "Ready"
    BY <2>2, <2>3 DEF AsksClean
  <2>5. /\ Records' = Records /\ (TripTold <=> TripTold') /\ Held' = Held
        /\ crossed' = crossed /\ alarmed' = alarmed
    BY <2>2 DEF Records, TripTold, Entries, Closes, Accounted, Held, history
  <2>6. ExitsClean'
    BY <2>2, <2>3, <2>5 DEF ExitsClean, ExitNamed, TripEnds, Closes, Records, AtWork, Status,
                            Accounted, Quantity
  <2>7. AsksClean'
    BY <2>2, <2>3, <2>4, <2>5 DEF AsksClean
  <2> QED BY <2>6, <2>7
<1> QED BY <1>6, LossIsFault

\* The final query begins when the trip is told of.
LEMMA QueryClean ==
  ASSUME CleanInv, RequestReconciliation, TripTold
  PROVE  CleanInv'
<1> SUFFICES ASSUME fault' = "None" PROVE AsksClean' /\ ExitsClean'
  BY DEF CleanInv
<1>1. <<>> \in Seq(Faults)
  OBVIOUS
<1>2. /\ fault = "None" /\ Sent("QueryingOrders") /\ crossed' = FALSE /\ alarmed' = FALSE
  BY <1>1, AsksWithoutFault DEF RequestReconciliation
<1>3. /\ phase = "Ready" /\ UNCHANGED <<book, records, exit, counter, link>>
  BY DEF RequestReconciliation, environment, world
<1>4. AsksClean /\ ExitsClean
  BY <1>2 DEF CleanInv
<1>5. /\ Records' = Records /\ TripTold' /\ Held' = Held
  BY <1>3 DEF Records, TripTold, Entries, Closes, Accounted, Held
<1>6. ExitsClean'
  BY <1>3, <1>4, <1>5 DEF ExitsClean, ExitNamed, TripEnds, Closes, Records, AtWork, Status,
                          Accounted, Quantity
<1>7. AsksClean'
  BY <1>2, <1>3, <1>4, <1>5 DEF AsksClean, Sent
<1> QED BY <1>6, <1>7

\* An answer of the counter leaves the account.
LEMMA AnswerClean ==
  ASSUME CleanInv, CounterAnswer
  PROVE  CleanInv'
<1>1. /\ UNCHANGED <<account, counter, phase, history>> /\ link # "Down"
      /\ link' = link \/ link' = "LoggedIn"
  BY DEF CounterAnswer
<1>2. /\ Records' = Records /\ (TripTold <=> TripTold') /\ Held' = Held
      /\ crossed' = crossed /\ alarmed' = alarmed /\ frozen' = frozen /\ fault' = fault
  BY <1>1 DEF account, Records, TripTold, Entries, Closes, Accounted, Held, history
<1>3. ExitsClean => ExitsClean'
  BY <1>1, <1>2 DEF account, ExitsClean, ExitNamed, TripEnds, Closes, Records, AtWork, Status,
                    Accounted, Quantity
<1>4. AsksClean => AsksClean'
  BY <1>1, <1>2 DEF AsksClean
<1> QED BY <1>2, <1>3, <1>4 DEF CleanInv

\* What the counter does crosses a query only when there is nothing to cross it.
LEMMA CounterClean ==
  ASSUME TruthInv, CleanInv, CounterActs
  PROVE  CleanInv'
<1>1. PICK o \in Orders : CounterStep(o)
  BY DEF CounterActs
<1>2. /\ AccountInv /\ OrdersInv /\ OrderFacts
  BY DEF TruthInv
<1>3. /\ \A p \in Orders \ {o} : counter'[p] = counter[p]
      /\ MovedOrder(o) /\ UNCHANGED account
  BY <1>1, <1>2, CounterTells
<1>4. /\ UNCHANGED <<phase, link, alarmed>>
      /\ crossed' = (crossed \/ (trades' # trades /\ BetweenAnswers))
  BY DEF CounterActs, recovery
<1>5. /\ Records' = Records /\ (TripTold <=> TripTold') /\ Held' = Held
      /\ frozen' = frozen /\ fault' = fault
  BY <1>3 DEF account, Records, TripTold, Entries, Closes, Accounted, Held
<1>6. \A p \in Orders : AtWork(p)' => AtWork(p)
  <2> SUFFICES ASSUME NEW p \in Orders, AtWork(p)' PROVE AtWork(p)
    OBVIOUS
  <2>1. CASE p # o
    BY <1>3, <2>1 DEF AtWork, Status
  <2>2. CASE p = o
    BY <1>3, <2>2 DEF MovedOrder, Live, AtWork, Status
  <2> QED BY <2>1, <2>2
<1>7. ASSUME ExitsClean PROVE ExitsClean'
  <2>1. SameIntents /\ exit' = exit /\ \A p \in Orders : Accounted(p)' = Accounted(p)
    BY <1>3 DEF account, SameIntents, Accounted
  <2> QED BY <1>5, <1>6, <1>7, <2>1, ExitsKept
<1>8. ASSUME AsksClean PROVE AsksClean'
  <2>1. ASSUME trades' # trades, BetweenAnswers PROVE TripTold
    <3>1. phase # "Ready"
      BY <2>1 DEF BetweenAnswers
    <3>2. Live(o)
      BY <1>1, <2>1 DEF CounterStep, CounterAccept, CounterReject, CounterFill, CounterCancel,
                        CounterRefuse
    <3>3. o \in Records
      BY <1>2, <3>2, OrderKnown DEF Live, Status
    <3> QED BY <1>8, <3>1, <3>3 DEF AsksClean
  <2> QED BY <1>4, <1>5, <1>8, <2>1 DEF AsksClean
<1> QED BY <1>5, <1>7, <1>8 DEF CleanInv

\* A book that agrees holds what it knows the orders to have opened and closed.
BooksNow ==
  phase = "Ready" /\ ~frozen /\ ~alarmed /\ ~crossed =>
    /\ Held.long = Booked("Buy") /\ Held.short = Booked("Sell")
    /\ Held.long \in Nat /\ Held.short \in Nat

LEMMA BooksAreNow ==
  ASSUME RecoveredInv PROVE BooksNow
<1> SUFFICES ASSUME phase = "Ready", ~frozen, ~alarmed, ~crossed
             PROVE  /\ Held.long = Booked("Buy") /\ Held.short = Booked("Sell")
                    /\ Held.long \in Nat /\ Held.short \in Nat
  BY DEF BooksNow
<1>1. TruthInv /\ RowsInv /\ AskedInv
  BY DEF RecoveredInv, TruthInv
<1>2. \A i \in DOMAIN answers : answers[i].current = FALSE
  BY <1>1, NoneCurrent
<1>3. ~Excused
  BY <1>2 DEF Excused, Idle, AskingOrders, Spoiled
<1>4. \A side \in Sides : HeldOn(side) = BookedOn(side)
  BY <1>3 DEF RecoveredInv, BooksExpected, BooksAgree
<1>5. HeldOn("long") = BookedOn("long") /\ HeldOn("short") = BookedOn("short")
  BY <1>4 DEF Sides
<1>6. HeldOn("long") \in Nat /\ HeldOn("short") \in Nat
  BY <1>1, SidesAreNumbers
<1> QED BY <1>5, <1>6 DEF HeldOn, BookedOn, DirectionOf

LEMMA BooksAreThen == RecoveredInv' => BooksNow'
<1>1. RecoveredInv => BooksNow
  BY BooksAreNow
<1> QED BY <1>1, PTL

\* A signal adds an entry, or nothing.
LEMMA SubmitClean ==
  ASSUME TruthInv, StepTells, CleanInv, TakeSignal, UNCHANGED plan
  PROVE  CleanInv'
<1> SUFFICES ASSUME fault' = "None" PROVE AsksClean' /\ ExitsClean'
  BY DEF CleanInv
<1>1. /\ phase = "Ready" /\ phase' = phase /\ link' = link /\ UNCHANGED <<history, exit, frozen, fault>>
      /\ crossed' = crossed /\ alarmed' = alarmed
  BY DEF TakeSignal, recovery, world, history, Submit
<1>2. AsksClean /\ ExitsClean
  BY <1>1 DEF CleanInv
<1>3. AccountInv /\ OrdersInv
  BY DEF TruthInv
<1>11. PICK intent \in plan.entries : \E code \in SubmitCodes(intent) : SubmitOrder(intent, code)
  BY DEF TakeSignal, Submit
<1>4. PICK code \in SubmitCodes(intent) : SubmitOrder(intent, code)
  BY <1>11
<1>5. intent \in Intent /\ intent.offset = "Open"
  BY <1>3, <1>4, IntentsOfCalls
<1>6. \/ UNCHANGED <<book, records, counter>>
      \/ \E id \in Orders : AddsOrder(id, intent, code)
  BY <1>3, <1>4, <1>5, SubmitAdds
<1>7. /\ \A o \in Closes' : /\ o \in Closes /\ Quantity(o)' = Quantity(o)
                            /\ Accounted(o)' = Accounted(o)
                            /\ AtWork(o)' => AtWork(o)
      /\ book'.positions = book.positions
  <2>1. CASE UNCHANGED <<book, records, counter>>
    BY <2>1 DEF Closes, Records, Quantity, Accounted, AtWork, Status
  <2>2. CASE \E id \in Orders : AddsOrder(id, intent, code)
    <3>1. PICK id \in Orders : AddsOrder(id, intent, code)
      BY <2>2
    <3>2. ASSUME NEW o \in Closes'
          PROVE  /\ o \in Closes /\ Quantity(o)' = Quantity(o)
                 /\ Accounted(o)' = Accounted(o)
                 /\ AtWork(o)' => AtWork(o)
      <4>1. o \in Orders /\ records'[o].occupied /\ records'[o].intent.offset = "Close"
        BY <3>2 DEF Closes, Records
      <4>2. o # id
        BY <1>5, <3>1, <4>1 DEF AddsOrder
      <4>3. /\ records'[o] = records[o]
            /\ book'.orders[o].accounted = book.orders[o].accounted
        BY <3>1, <4>1, <4>2 DEF AddsOrder
      <4>4. counter'[o] = counter[o]
        BY <3>1, <4>1, <4>2 DEF AddsOrder
      <4> QED BY <4>1, <4>3, <4>4 DEF Closes, Records, Quantity, Accounted, AtWork, Status
    <3> QED BY <3>1, <3>2 DEF AddsOrder
  <2> QED BY <1>6, <2>1, <2>2
<1>8. TripTold => TripTold'
  BY TripGoesOn
<1>9. ExitsClean'
  BY <1>1, <1>2, <1>7, <1>8, ExitsStay
<1>10. AsksClean'
  BY <1>1, <1>2, <1>7, <1>8 DEF AsksClean, Held
<1> QED BY <1>9, <1>10

\* A market event after which the account has no fault found none.
LEMMA MarketFaults ==
  ASSUME OnMarket, fault' = "None", Thawed
  PROVE  fault = "None" /\ frozen' = frozen
<1>1. \A code : CancelFaults(code) \in Seq(Faults)
  <2>1. "CloseCancelRejected" \in Faults
    BY DEF Faults
  <2> QED BY <2>1, FaultIf DEF CancelFaults
<1>2. CASE ExitImpossible
  <2>1. PICK reason \in {"StateConflict", "PriceOverflow"} : SetFaults(<<reason>>)
    BY <1>2 DEF ExitImpossible
  <2>2. <<reason>> \in Seq(Faults)
    BY DEF Faults
  <2> QED BY <2>1, <2>2, NoFaultFound
<1>3. CASE DropsExit
  BY <1>3 DEF DropsExit
<1>4. CASE SubmitExit
  <2>1. PICK code : SetFaults(If(code # "Submitted",
                                 IF code \in {"CapacityExceeded", "TableFull"}
                                 THEN "CapacityExceeded" ELSE "StateConflict"))
    BY <1>4 DEF SubmitExit
  <2>2. (IF code \in {"CapacityExceeded", "TableFull"}
         THEN "CapacityExceeded" ELSE "StateConflict") \in Faults
    BY DEF Faults
  <2>3. PICK reasons \in Seq(Faults) : SetFaults(reasons)
    BY <2>1, <2>2, FaultIf
  <2> QED BY <2>3, NoFaultFound
<1>5. CASE AwaitExit
  <2>1. UNCHANGED <<frozen, fault>> \/ \E code : SetFaults(CancelFaults(code))
    BY <1>5 DEF AwaitExit
  <2> QED BY <1>1, <2>1, NoFaultFound
<1>6. CASE AwaitEntries
  <2>1. UNCHANGED <<frozen, fault>> \/ \E code : SetFaults(CancelFaults(code))
    BY <1>6 DEF AwaitEntries
  <2> QED BY <1>1, <2>1, NoFaultFound
<1> QED BY <1>2, <1>3, <1>4, <1>5, <1>6, DueExitKinds DEF OnMarket

\* An exit asks for the lot of the trip.
LEMMA ExitOfOneLot ==
  ASSUME RecoveredInv, Planned, AsksClean, ~TripTold, phase = "Ready", RiskAccepts(ExitIntent)
  PROVE  ExitIntent.quantity = 1
<1>1. TruthInv /\ BooksNow /\ ExitIntent \in Intent
  BY BooksAreNow, ExitIntentType DEF RecoveredInv, TruthInv, AccountInv
<1>2. ~crossed /\ ~alarmed /\ ~frozen
  BY DEF AsksClean
<1>3. Held.long = Booked("Buy") /\ Held.short = Booked("Sell") /\ Held.long \in Nat /\ Held.short \in Nat
  BY <1>1, <1>2 DEF BooksNow
<1>4. Booked("Buy") <= 1 /\ Booked("Sell") <= 1
  BY <1>1, OneLotBooked DEF Directions
<1>5. Closable <= 1 /\ Closable \in Nat
  BY <1>3, <1>4 DEF Closable
<1>6. ExitIntent.quantity = IF Closable < exit.quantity THEN Closable ELSE exit.quantity
  BY DEF ExitIntent
<1>7. ExitIntent.quantity > 0 /\ ExitIntent.quantity \in Nat
  BY <1>1 DEF RiskAccepts, Intent
<1> QED
  <2>1. CASE Closable < exit.quantity
    BY <1>5, <1>6, <1>7, <2>1
  <2>2. CASE ~(Closable < exit.quantity)
    <3>1. exit.quantity = ExitIntent.quantity
      BY <1>6, <2>2
    <3> QED BY <1>5, <1>7, <2>2, <3>1
  <2> QED BY <2>1, <2>2

\* An account that sends an exit has none at work, and none of its fills.
LEMMA ExitClean ==
  ASSUME RecoveredInv, Planned, AsksClean, ExitsClean, phase = "Ready",
         SubmitExit, fault' = "None"
  PROVE  ExitsClean' /\ book'.positions = book.positions
<1>1. /\ TruthInv /\ AccountInv /\ OrdersInv /\ exit \in Exit /\ ExitIntent \in Intent
      /\ ExitIntent.offset = "Close"
  BY IntentsOfCalls, ExitIntentType DEF RecoveredInv, TruthInv, AccountInv, SessionTypes
<1>2. PICK code \in SubmitCodes(ExitIntent) :
        /\ SubmitOrder(ExitIntent, code)
        /\ exit' = IF code = "Submitted" THEN ExitSubmitted ELSE exit
        /\ SetFaults(If(code # "Submitted",
                        IF code \in {"CapacityExceeded", "TableFull"}
                        THEN "CapacityExceeded" ELSE "StateConflict"))
  BY DEF SubmitExit
<1>3. code = "Submitted"
  <2>1. (IF code \in {"CapacityExceeded", "TableFull"}
         THEN "CapacityExceeded" ELSE "StateConflict") \in Faults
    BY DEF Faults
  <2> DEFINE reasons == If(code # "Submitted",
                           IF code \in {"CapacityExceeded", "TableFull"}
                           THEN "CapacityExceeded" ELSE "StateConflict")
  <2>2. reasons \in Seq(Faults) /\ (reasons = <<>> => ~(code # "Submitted"))
    BY <2>1, FaultIf
  <2>3. SetFaults(reasons)
    BY <1>2
  <2>4. reasons = <<>>
    <3> HIDE DEF reasons
    <3> QED BY <2>2, <2>3, NoFaultFound
  <2> QED BY <2>2, <2>4
<1>4. RiskAccepts(ExitIntent)
  BY <1>2, <1>3 DEF SubmitCodes, SendOutcomes
<1>5. PICK id \in Orders : AddsOrder(id, ExitIntent, code)
  BY <1>1, <1>2, <1>3, SubmitAdds
<1>6. exit.pending /\ ~exit.active
  BY DEF SubmitExit, ExitDue
<1>7. \A o \in Closes : ~AtWork(o) /\ Accounted(o) = 0
  <2> SUFFICES ASSUME NEW o \in Closes PROVE ~AtWork(o) /\ Accounted(o) = 0
    OBVIOUS
  <2>1. Accounted(o) \in Nat
    BY <1>1, FillsKnown DEF Closes, Records
  <2>2. ~(Accounted(o) >= 1)
    BY <1>6 DEF ExitsClean, TripEnds
  <2>3. Accounted(o) = 0
    BY <2>1, <2>2
  <2> QED BY <1>6, <2>3 DEF ExitsClean, ExitNamed
<1>8. ~TripTold
  BY <1>7 DEF TripTold
<1>9. ExitIntent.quantity = 1
  BY <1>4, <1>8, ExitOfOneLot
<1>10. exit'.active /\ exit'.id = id
  <2>1. exit' = ExitSubmitted /\ id = NextId
    BY <1>2, <1>3, <1>5 DEF AddsOrder
  <2> QED BY <1>1, <2>1, ExitSent
<1>11. ASSUME NEW o \in Closes'
       PROVE  /\ o = id \/ (o \in Closes /\ ~AtWork(o)' /\ Quantity(o)' = Quantity(o))
              /\ Accounted(o)' = 0
  <2>1. o \in Orders /\ records'[o].occupied /\ records'[o].intent.offset = "Close"
    BY <1>11 DEF Closes, Records
  <2>2. CASE o = id
    BY <1>5, <2>2 DEF AddsOrder, Accounted
  <2>3. CASE o # id
    <3>1. /\ records'[o] = records[o] /\ counter'[o] = counter[o]
          /\ book'.orders[o].accounted = book.orders[o].accounted
      BY <1>5, <2>1, <2>3 DEF AddsOrder
    <3>2. o \in Closes
      BY <2>1, <3>1 DEF Closes, Records
    <3> QED BY <1>7, <3>1, <3>2 DEF AtWork, Status, Quantity, Accounted
  <2> QED BY <2>2, <2>3
<1>12. Quantity(id)' = 1
  BY <1>5, <1>9 DEF AddsOrder, Quantity
<1>13. ExitsClean'
  BY <1>10, <1>11, <1>12 DEF ExitsClean, ExitNamed, TripEnds
<1> QED BY <1>5, <1>13 DEF AddsOrder

\* A market event
LEMMA MarketClean ==
  ASSUME RecoveredInv, StepTells, Planned, CleanInv, TakeMarket, UNCHANGED plan
  PROVE  CleanInv'
<1> SUFFICES ASSUME fault' = "None" PROVE AsksClean' /\ ExitsClean'
  BY DEF CleanInv
<1>1. /\ phase = "Ready" /\ phase' = phase /\ link' = link
      /\ crossed' = crossed /\ alarmed' = alarmed /\ OnMarket
  BY DEF TakeMarket, recovery, world, history
<1>2. TruthInv /\ AccountInv /\ Thawed
  BY DEF RecoveredInv, TruthInv
<1>3. fault = "None" /\ frozen' = frozen
  BY <1>1, <1>2, MarketFaults
<1>4. AsksClean /\ ExitsClean
  BY <1>3 DEF CleanInv
<1>5. TripTold => TripTold'
  BY <1>2, TripGoesOn
<1>6. ASSUME DropsExit PROVE ExitsClean'
  <2>1. /\ UNCHANGED <<book, records, counter>> /\ exit' = NoExit /\ exit.pending /\ ~exit.active
    BY <1>6 DEF DropsExit, ExitDue, environment
  <2>2. \A o \in Closes : ~(AtWork(o) /\ Accounted(o) = 0) /\ ~(Accounted(o) >= 1)
    BY <1>4, <2>1 DEF ExitsClean, ExitNamed, TripEnds
  <2>3. /\ Closes' = Closes
        /\ \A o \in Closes : /\ AtWork(o)' <=> AtWork(o)
                             /\ Accounted(o)' = Accounted(o) /\ Quantity(o)' = Quantity(o)
    BY <2>1 DEF Closes, Records, AtWork, Status, Accounted, Quantity
  <2> QED BY <1>4, <2>1, <2>2, <2>3 DEF ExitsClean, ExitNamed, TripEnds
<1>7. ASSUME CancelsOrder PROVE ExitsClean'
  <2>1. PICK o \in Orders : \E code : CancelOrder(o, code)
    BY <1>7 DEF CancelsOrder
  <2>2. /\ book'.positions = book.positions
        /\ \A p \in Orders : /\ SameCounts(book.orders[p], book'.orders[p])
                             /\ Status(p)' = Status(p)
    BY <1>2, <2>1, CancelTells
  <2>3. \A p \in Orders : Accounted(p)' = Accounted(p) /\ (AtWork(p)' => AtWork(p))
    BY <2>2 DEF SameCounts, Accounted, AtWork
  <2>4. SameIntents /\ SameExit
    BY <1>7 DEF CancelsOrder
  <2> QED BY <1>4, <1>5, <2>2, <2>3, <2>4, ExitsKept DEF SameExit
<1>8. ASSUME Waits PROVE ExitsClean'
  <2>1. SameIntents /\ SameExit /\ UNCHANGED <<book, counter>>
    BY <1>8 DEF Waits
  <2>2. \A p \in Orders : Accounted(p)' = Accounted(p) /\ (AtWork(p)' => AtWork(p))
    BY <2>1 DEF Accounted, AtWork, Status
  <2> QED BY <1>4, <1>5, <2>1, <2>2, ExitsKept DEF SameExit
<1>9. ExitsClean' /\ book'.positions = book.positions
  <2>1. CASE SubmitExit
    BY <1>1, <1>4, <2>1, ExitClean
  <2>2. CASE ~SubmitExit
    <3>1. ExitsClean'
      BY <1>1, <1>2, <1>6, <1>7, <1>8, <2>2, MarketKinds
    <3>2. book'.positions = book.positions
      <4>1. CASE CancelsOrder
        <5>1. PICK o \in Orders : \E code : CancelOrder(o, code)
          BY <4>1 DEF CancelsOrder
        <5> QED BY <1>2, <5>1, CancelTells
      <4>2. CASE DropsExit \/ Waits
        BY <4>2 DEF DropsExit, Waits
      <4> QED BY <1>1, <1>2, <2>2, <4>1, <4>2, MarketKinds
    <3> QED BY <3>1, <3>2
  <2> QED BY <2>1, <2>2
<1>10. AsksClean'
  BY <1>1, <1>3, <1>4, <1>5, <1>9 DEF AsksClean, Held
<1> QED BY <1>9, <1>10

\* A pushed report
LEMMA ReportClean ==
  ASSUME TruthInv, StepTells, CleanInv, HearReport, UNCHANGED plan
  PROVE  CleanInv'
<1> SUFFICES ASSUME fault' = "None" PROVE AsksClean' /\ ExitsClean'
  BY DEF CleanInv
<1>1. /\ ReceivePushedReport /\ ReceiveReport /\ phase' = phase /\ link' = link
      /\ crossed' = crossed
      /\ alarmed' = (alarmed \/ (phase \in Querying /\ ReportResult(Head(reports)).reconcile))
  BY DEF HearReport, ReceivePushedReport, recovery, world
<1>2. AccountInv /\ Thawed /\ MessagesTrue
  BY DEF TruthInv
<1>3. PICK m, result, a, b, c, d :
        /\ m = Head(reports) /\ result = ReportResult(m)
        /\ a = ResultFaults(result)
        /\ b = If(m.kind = "CancelResponse" /\ exit.id = m.id, "CloseCancelRejected")
        /\ c = If(EndsExit(m, result) /\ exit.freezeAfterCancel, "CloseRetryExhausted")
        /\ d = If(EndsExit(m, result) /\ ~book'.positions[Instrument].occupied,
                  "StateConflict")
        /\ SetFaults(a \o b \o c \o d)
  BY <1>1 DEF ReceiveReport
<1>4. {"StateConflict", "CloseCancelRejected", "CloseRetryExhausted"} \subseteq Faults
  BY DEF Faults
<1>5. /\ a \in Seq(Faults)
      /\ a = <<>> => ~(result.reconcile \/ result.code \in {"Conflict", "UnknownOrder"})
  BY <1>3, <1>4, FaultIf DEF ResultFaults
<1>6. b \in Seq(Faults) /\ c \in Seq(Faults) /\ d \in Seq(Faults)
  BY <1>3, <1>4, FaultIf
<1>7. a \o b \o c \o d \in Seq(Faults) /\ (a \o b \o c \o d = <<>> => a = <<>>)
  <2>1. a \o b \in Seq(Faults) /\ (a \o b = <<>> => a = <<>>)
    BY <1>5, <1>6, FaultsTwo
  <2>2. (a \o b) \o c \in Seq(Faults) /\ ((a \o b) \o c = <<>> => a \o b = <<>>)
    BY <1>6, <2>1, FaultsTwo
  <2>3. ((a \o b) \o c) \o d \in Seq(Faults) /\ (((a \o b) \o c) \o d = <<>> => (a \o b) \o c = <<>>)
    BY <1>6, <2>2, FaultsTwo
  <2> QED BY <2>1, <2>2, <2>3
<1>8. fault = "None" /\ a = <<>> /\ frozen' = frozen
  BY <1>2, <1>3, <1>7, NoFaultFound
<1>9. AsksClean /\ ExitsClean
  BY <1>8 DEF CleanInv
<1>10. ~alarmed'
  BY <1>1, <1>3, <1>5, <1>8, <1>9 DEF AsksClean
<1>11. /\ exit' = exit \/ ExitReported(m)
       /\ SameLots(book, book') /\ SameIntents /\ UNCHANGED counter
  BY <1>1, <1>2, <1>3, ReportKinds
<1>12. /\ book'.positions = book.positions
       /\ \A o \in Orders : Accounted(o)' = Accounted(o) /\ (AtWork(o)' <=> AtWork(o))
  BY <1>11 DEF SameLots, Accounted, AtWork, Status
<1>13. TripTold => TripTold'
  BY TripGoesOn
<1>14. Closes' = Closes /\ Closes \subseteq Orders /\ Records' = Records
       /\ \A o \in Orders : Quantity(o)' = Quantity(o)
  BY <1>11 DEF SameIntents, Closes, Records, Quantity
<1>15. ExitsClean'
  <2>1. CASE exit' = exit
    BY <1>9, <1>11, <1>12, <1>13, <2>1, ExitsKept
  <2>2. CASE ExitReported(m)
    <3>1. m \in Message /\ m.type = "Canceled" /\ m.id \in Orders /\ exit.id = m.id
      BY <1>1, <1>2, <1>3, <2>2, HeadReport DEF ExitReported, ReceiveReport
    <3>2. Status(m.id) = "Canceled"
      BY <1>1, <1>2, <1>3, <3>1, HeadReport DEF ReceiveReport, TrueReport, EndTypes
    <3>3. m.id # 0
      BY <3>1, SessionAssumption
    <3>4. ASSUME NEW o \in Closes PROVE ~AtWork(o) /\ ~(Accounted(o) >= 1)
      <4>1. ~(Accounted(o) >= 1)
        BY <1>9, <3>1, <3>3 DEF ExitsClean, TripEnds
      <4>2. Accounted(o) = 0
        BY <1>14, <4>1, FillsKnown
      <4>3. AtWork(o) => o = m.id
        BY <1>9, <3>1, <4>2 DEF ExitsClean, ExitNamed
      <4> QED BY <3>2, <4>1, <4>3 DEF AtWork
    <3>5. \A o \in Closes : Quantity(o)' = 1 /\ ~AtWork(o)' /\ ~(Accounted(o)' >= 1)
      BY <1>9, <1>12, <1>14, <3>4 DEF ExitsClean
    <3> QED BY <1>14, <3>5 DEF ExitsClean, ExitNamed, TripEnds
  <2> QED BY <1>11, <2>1, <2>2
<1>16. AsksClean'
  BY <1>1, <1>8, <1>9, <1>10, <1>12, <1>13, <1>14 DEF AsksClean, Held
<1> QED BY <1>15, <1>16

\* The trade of a close, once in a book that agrees, ends the trip.
TripClosed ==
  Planned /\ phase = "Ready" /\ ~frozen /\ ~alarmed /\ ~crossed =>
    \A c \in Closes :
      Accounted(c) >= 1 => TripTold /\ Flat(Held)

LEMMA TripIsClosed ==
  ASSUME RecoveredInv PROVE TripClosed
<1> SUFFICES ASSUME Planned, phase = "Ready", ~frozen, ~alarmed, ~crossed,
                    NEW c \in Closes, Accounted(c) >= 1
             PROVE  TripTold /\ Flat(Held)
  BY DEF TripClosed
<1>1. TruthInv /\ BooksNow
  BY BooksAreNow DEF RecoveredInv
<1>2. Held.long = Booked("Buy") /\ Held.short = Booked("Sell") /\ Held.long \in Nat /\ Held.short \in Nat
  BY <1>1 DEF BooksNow
<1>3. \A direction \in Directions : Booked(direction) >= 0
  BY <1>2 DEF Directions
<1>4. Accounted(c) > 0
  <2>1. c \in Orders /\ Accounted(c) \in Nat
    BY <1>1, FillsKnown DEF Closes, Records
  <2> QED BY <2>1
<1>5. TripTold /\ \A direction \in Directions : Booked(direction) = 0
  BY <1>1, <1>3, <1>4, TripInBook
<1>6. Flat(Held)
  BY <1>2, <1>5 DEF Flat, Directions
<1> QED BY <1>5, <1>6

LEMMA TripIsClosedThen == RecoveredInv' => TripClosed'
<1>1. RecoveredInv => TripClosed
  BY TripIsClosed
<1> QED BY <1>1, PTL

\* A pushed trade, when the account looks for none
LEMMA TradeAside ==
  ASSUME TruthInv, TruthInv', StepTells, Planned, HearTrade, UNCHANGED plan,
         Records = {} \/ TripTold
  PROVE  /\ exit' = exit /\ book'.positions = book.positions /\ TripTold
         /\ \A o \in Orders : Accounted(o)' = Accounted(o)
<1>1. ReceivePushedTrade /\ ReceiveTrade /\ UNCHANGED counter
  BY DEF HearTrade, ReceivePushedTrade, ReceiveTrade
<1>2. PICK t \in Range(executed) : t = Head(trades) /\ t \in Trade /\ t.id \in Orders
  BY <1>1, PushedTradeTells
<1>3. \A o \in Orders : Accounted(o) = counter[o].filled
  BY NothingToLearn
<1>4. ApplyTrade(book, t).code # "Applied" /\ ApplyTrade(book, t).book.positions = book.positions
  BY <1>3, NothingLearnt
<1>5. exit' = exit /\ book'.positions = book.positions
  <2>1. PICK result : result = ApplyTrade(book, t)
    OBVIOUS
  <2>2. book' = result.book /\ exit' = ExitAfterTrade(t.id, t, result)
    BY <1>1, <1>2, <2>1 DEF ReceiveTrade
  <2> QED BY <1>4, <2>1, <2>2 DEF ExitAfterTrade, Counts
<1>6. TripTold
  <2>1. t \in Executed(t.id) /\ counter[t.id].filled = Volume(Executed(t.id)) /\ t.quantity > 0
        /\ TradesTrue
    BY <1>2 DEF TruthInv, TradesTrue, Executed
  <2>2. PICK S : S = Executed(t.id)
    OBVIOUS
  <2>3. IsFiniteSet(S) /\ (\A u \in S : u \in Trade) /\ t \in S
    BY <2>1, <2>2, TradesCounted
  <2>4. t.quantity <= Volume(S) /\ Volume(S) \in Int /\ t.quantity \in Nat
    BY <1>2, <2>1, <2>3, VolumeGrows, TradesCounted
  <2>5. counter[t.id].filled > 0
    BY <2>1, <2>2, <2>4
  <2>6. t.id \in Records
    BY <1>2, <2>5, FillsKnown
  <2> QED BY <2>6
<1>7. ASSUME NEW o \in Orders PROVE Accounted(o)' = Accounted(o)
  <2>1. Accounted(o)' \in Nat /\ Accounted(o)' <= counter'[o].filled
    BY FillsCoverThen DEF FillsCover
  <2>2. Accounted(o) \in Nat /\ Accounted(o)' <= Accounted(o)
    BY <1>1, <1>3, <2>1, FillsKnown
  <2>3. o \in Records => Accounted(o) <= Accounted(o)'
    BY OrdersGoOn
  <2>4. o \notin Records => Accounted(o) = 0
    BY FillsKnown
  <2> QED BY <2>1, <2>2, <2>3, <2>4
<1> QED BY <1>5, <1>6, <1>7

\* The lot of the trip, opened
EntryTraded(o, t) ==
  /\ o \in Entries /\ exit'.active = exit.active /\ exit'.id = exit.id

\* The lot of the trip, closed
CloseTraded(o, t) ==
  /\ o \in Closes /\ exit' = IF Flat(Held') THEN NoExit ELSE exit

\* A pushed trade that a ready account without a fault applies is one of the trip.
LEMMA TradeOfTrip ==
  ASSUME TruthInv, StepTells, Planned, AsksClean, HearTrade, UNCHANGED plan,
         phase = "Ready", frozen' = frozen
  PROVE  \/ exit' = exit /\ book' = book
         \/ \E o \in Records : \E t \in Trade :
              /\ EntryTraded(o, t) \/ CloseTraded(o, t)
              /\ Accounted(o)' >= 1 /\ Accounted(o) = 0 /\ counter[o].filled >= 1
              /\ \A p \in Orders \ {o} : Accounted(p)' = Accounted(p)
              /\ Held'.known /\ ~TripTold
<1>1. ReceivePushedTrade /\ ReceiveTrade /\ UNCHANGED counter
  BY DEF HearTrade, ReceivePushedTrade, ReceiveTrade
<1>2. ~frozen /\ ~frozen' /\ Held.known
  BY DEF AsksClean
<1>3. AccountInv /\ OrdersInv /\ Thawed /\ Instrument \in Instruments
      /\ book.positions \in [Instruments -> Position] /\ book.orders \in [Orders -> Order]
  BY SessionAssumption DEF TruthInv, AccountInv, SessionTypes, SoundBook, Book
<1>4. \/ \E o \in Records : \E t \in Trade : t = Head(trades) /\ TakesTrade(o, t)
      \/ exit' = exit /\ book' = book
  BY <1>1, <1>2, <1>3, TradeKinds
<1>5. CASE exit' = exit /\ book' = book
  BY <1>5
<1>6. CASE \E o \in Records : \E t \in Trade : t = Head(trades) /\ TakesTrade(o, t)
  <2>1. PICK o \in Records, t \in Trade : t = Head(trades) /\ TakesTrade(o, t)
    BY <1>6
  <2>2. o \in Orders /\ t.id = o /\ t.quantity \in Nat /\ t.quantity > 0 /\ t.instrument = Instrument
        /\ t.offset = records[o].intent.offset /\ ~Overcloses(Held, t)
        /\ book' = RecordTrade(book, t)
    BY <2>1 DEF TakesTrade, Records, Trade
  <2>3. /\ book'.orders = [book.orders EXCEPT ![o] = OrderAfterTrade(book.orders[o], t)]
        /\ book'.positions = [book.positions EXCEPT ![Instrument] = PositionAfterTrade(@, t)]
    BY <2>2 DEF RecordTrade
  <2>4. /\ Accounted(o)' = Accounted(o) + t.quantity
        /\ \A p \in Orders \ {o} : Accounted(p)' = Accounted(p)
    <3>1. book'.orders[o] = OrderAfterTrade(book.orders[o], t)
      BY <1>3, <2>2, <2>3
    <3>2. book.orders[o] \in Order
      BY <1>3, <2>2
    <3>3. OrderAfterTrade(book.orders[o], t).accounted = book.orders[o].accounted + t.quantity
      BY <3>2 DEF OrderAfterTrade, Order
    <3> QED BY <1>3, <2>3, <3>1, <3>3 DEF Accounted
  <2>5. Held'.known
    <3>1. Held' = PositionAfterTrade(Held, t) /\ Held \in Position
      BY <1>3, <2>3 DEF Held
    <3> QED BY <1>2, <2>2, <3>1 DEF PositionAfterTrade, Position
  <2>6. /\ Accounted(o) \in Nat /\ counter[o].filled \in Nat /\ counter[o].filled <= Quantity(o)
        /\ o \in Entries \/ o \in Closes
    BY <2>1, <2>2, FillsKnown
  <2>7. Accounted(o)' <= counter[o].filled
    <3>1. PICK u \in Range(executed) : u = Head(trades) /\ TradedOrder(u.id, u)
      BY <1>1, PushedTradeTells
    <3>2. TradedOrder(o, t)
      BY <2>1, <2>2, <3>1
    <3>3. ~SameOrder(book.orders[o], book'.orders[o])
      BY <2>2, <2>4, <2>6 DEF SameOrder, SameCounts, Accounted
    <3> QED BY <3>2, <3>3 DEF TradedOrder
  <2>8. ~TripTold
    <3>1. ASSUME TripTold PROVE Accounted(o) = counter[o].filled
      BY <2>2, <3>1, TripIsAll
    <3> QED BY <2>2, <2>4, <2>6, <2>7, <3>1
  <2>9. exit' = IF t.offset = "Open"
                THEN IF Incompatible(o) THEN exit ELSE ExitAfterOpen(o, t)
                ELSE IF Flat(Held') THEN NoExit ELSE exit
    BY <2>1 DEF TakesTrade
  <2>10. t.offset = "Open" => ~Incompatible(o)
    BY <1>2, <2>1 DEF TakesTrade
  <2>11. exit \in Exit
    BY <1>3 DEF AccountInv, SessionTypes
  <2>12. EntryTraded(o, t) \/ CloseTraded(o, t)
    <3>1. CASE o \in Entries
      <4>1. exit' = ExitAfterOpen(o, t)
        BY <2>2, <2>9, <2>10, <3>1 DEF Entries
      <4>2. exit'.active = exit.active /\ exit'.id = exit.id
        BY <2>2, <2>11, <4>1, ExitOpened
      <4> QED BY <3>1, <4>2 DEF EntryTraded
    <3>2. CASE o \in Closes
      BY <2>2, <2>9, <3>2 DEF Closes, CloseTraded
    <3> QED BY <2>6, <3>1, <3>2
  <2>13. Accounted(o) = 0
    <3>1. CASE o \in Entries
      <4>1. Quantity(o) = 1
        BY <1>3, <3>1, OneEntry
      <4> QED BY <2>2, <2>4, <2>6, <2>7, <4>1
    <3>2. CASE o \in Closes
      <4>1. counter[o].filled > 0
        BY <2>2, <2>4, <2>6, <2>7
      <4>2. counter[o].filled = 1
        BY <3>2, <4>1, TripAtCounter
      <4> QED BY <2>2, <2>4, <2>6, <2>7, <4>2
    <3> QED BY <2>6, <3>1, <3>2
  <2>14. Accounted(o)' >= 1 /\ counter[o].filled >= 1
    BY <2>2, <2>4, <2>6, <2>7
  <2> QED BY <2>4, <2>5, <2>8, <2>12, <2>13, <2>14
<1> QED BY <1>4, <1>5, <1>6

\* The exits after a trade of a ready account
LEMMA ExitsTraded ==
  ASSUME RecoveredInv, RecoveredInv', StepTells, Planned, Planned', AsksClean, ExitsClean,
         HearTrade, UNCHANGED plan, phase = "Ready", frozen' = frozen, ~alarmed',
         crossed' <=> crossed
  PROVE  ExitsClean' /\ Held'.known
<1>1. TruthInv /\ TruthInv' /\ AccountInv /\ Thawed /\ OrdersInv
  BY DEF RecoveredInv, TruthInv
<1>2. ReceivePushedTrade /\ ReceiveTrade /\ UNCHANGED <<counter, phase>>
  BY DEF HearTrade, ReceivePushedTrade, ReceiveTrade, recovery
<1>3. SameIntents
  BY <1>1, <1>2, TradeKinds
<1>4. /\ Closes' = Closes /\ Closes \subseteq Orders /\ Entries' = Entries /\ Entries \subseteq Orders
      /\ \A o \in Orders : Quantity(o)' = Quantity(o) /\ (AtWork(o)' <=> AtWork(o))
  BY <1>2, <1>3 DEF SameIntents, Closes, Entries, Records, Quantity, AtWork, Status
<1>5. TripTold => TripTold'
  BY <1>1, TripGoesOn
<1>6. CASE exit' = exit /\ book' = book
  <2>1. \A o \in Orders : Accounted(o)' = Accounted(o) /\ (AtWork(o)' => AtWork(o))
    BY <1>4, <1>6 DEF Accounted
  <2>2. ExitsClean'
    BY <1>3, <1>5, <1>6, <2>1, ExitsKept
  <2> QED BY <1>6, <2>2 DEF AsksClean, Held
<1>7. ASSUME NEW o \in Records, NEW t \in Trade,
             EntryTraded(o, t) \/ CloseTraded(o, t),
             Accounted(o)' >= 1, Accounted(o) = 0, counter[o].filled >= 1,
             \A p \in Orders \ {o} : Accounted(p)' = Accounted(p),
             ~TripTold
      PROVE  ExitsClean'
  <2>1. \A p \in Closes : ~(Accounted(p) >= 1)
    BY <1>7 DEF ExitsClean, TripEnds
  <2>2. \A p \in Closes : Quantity(p)' = 1
    BY <1>4 DEF ExitsClean
  <2>3. CASE EntryTraded(o, t)
    <3>1. ASSUME NEW p \in Closes PROVE Accounted(p)' = Accounted(p)
      <4>1. p # o
        BY <2>3 DEF EntryTraded, Entries, Closes
      <4> QED BY <1>4, <1>7, <4>1
    <3> QED BY <1>4, <2>1, <2>2, <2>3, <3>1 DEF EntryTraded, ExitsClean, ExitNamed, TripEnds
  <2>4. CASE CloseTraded(o, t)
    <3>1. o \in Closes' /\ o \in Closes /\ o \in Orders
      BY <1>4, <2>4 DEF CloseTraded
    <3>2. ~frozen' /\ ~crossed' /\ phase' = "Ready"
      BY <1>2, <1>7 DEF AsksClean
    <3>3. TripClosed'
      BY TripIsClosedThen
    <3>4. TripTold' /\ Flat(Held')
      BY <1>7, <3>1, <3>2, <3>3 DEF TripClosed
    <3>5. exit' = NoExit
      BY <2>4, <3>4 DEF CloseTraded
    <3>6. AtWork(o)
      <4>1. CounterTrue(o) /\ counter[o] \in CounterOrder
        BY <1>1, <3>1, OrderKnown DEF TruthInv, OrderFacts
      <4>2. Quantity(o) = 1 /\ counter[o].filled \in Nat
        BY <1>1, <3>1, FillsKnown DEF ExitsClean
      <4>3. counter[o].status = "Filled"
        BY <1>7, <4>1, <4>2 DEF CounterTrue, CounterOrder
      <4> QED BY <4>3 DEF AtWork, Status
    <3>7. exit.id = o
      BY <1>7, <3>1, <3>6 DEF ExitsClean, ExitNamed
    <3>8. ASSUME NEW p \in Closes', AtWork(p)', Accounted(p)' = 0 PROVE FALSE
      <4>1. p \in Closes /\ p \in Orders /\ AtWork(p) /\ p # o
        BY <1>4, <1>7, <3>8
      <4>2. Accounted(p) = 0
        BY <1>7, <3>8, <4>1
      <4> QED BY <3>7, <4>1, <4>2 DEF ExitsClean, ExitNamed
    <3> QED BY <1>4, <2>2, <3>4, <3>5, <3>8 DEF ExitsClean, ExitNamed, TripEnds, NoExit
  <2> QED BY <1>7, <2>3, <2>4
<1> QED BY <1>1, <1>6, <1>7, TradeOfTrip

\* A pushed trade
LEMMA TradeClean ==
  ASSUME RecoveredInv, RecoveredInv', StepTells, Planned, Planned', CleanInv, HearTrade,
         UNCHANGED plan
  PROVE  CleanInv'
<1> SUFFICES ASSUME fault' = "None" PROVE AsksClean' /\ ExitsClean'
  BY DEF CleanInv
<1>1. TruthInv /\ TruthInv' /\ AccountInv /\ Thawed /\ OrdersInv
  BY DEF RecoveredInv, TruthInv
<1>2. /\ ReceivePushedTrade /\ ReceiveTrade /\ UNCHANGED <<counter, phase, link>>
      /\ crossed' = (crossed \/ (phase = "QueryingPositions" /\ ~Opens(Head(trades))))
      /\ alarmed' = (alarmed \/ (phase \in Querying /\ ApplyTrade(book, Head(trades)).reconcile))
  BY DEF HearTrade, ReceivePushedTrade, ReceiveTrade, recovery, world
<1>3. PICK t, result, a, b :
        /\ t = Head(trades) /\ result = ApplyTrade(book, t)
        /\ a = ResultFaults(result) /\ b = TradeFaults(t.id, result)
        /\ SetFaults(a \o b)
  BY <1>2 DEF ReceiveTrade
<1>4. /\ a \in Seq(Faults) /\ b \in Seq(Faults)
      /\ a = <<>> => ~(result.reconcile \/ result.code \in {"Conflict", "UnknownOrder"})
  <2>1. "StateConflict" \in Faults
    BY DEF Faults
  <2> QED BY <1>3, <2>1, FaultIf DEF ResultFaults, TradeFaults
<1>5. a \o b \in Seq(Faults) /\ (a \o b = <<>> => a = <<>>)
  BY <1>4, FaultsTwo
<1>6. fault = "None" /\ a = <<>> /\ frozen' = frozen
  BY <1>1, <1>3, <1>5, NoFaultFound
<1>7. AsksClean /\ ExitsClean
  BY <1>6 DEF CleanInv
<1>8. ~alarmed'
  BY <1>2, <1>3, <1>4, <1>6, <1>7 DEF AsksClean
<1>9. TripTold => TripTold'
  BY <1>1, TripGoesOn
<1>10. SameIntents
  BY <1>1, <1>2, TradeKinds
<1>11. CASE phase = "Ready"
  <2>1. crossed' <=> crossed
    BY <1>2, <1>7, <1>11 DEF AsksClean
  <2>2. ExitsClean' /\ Held'.known
    BY <1>6, <1>7, <1>8, <1>11, <2>1, ExitsTraded
  <2> QED BY <1>2, <1>6, <1>7, <1>8, <1>9, <1>11, <2>1, <2>2 DEF AsksClean
<1>12. CASE phase # "Ready"
  <2>1. Records = {} \/ TripTold
    BY <1>7, <1>12 DEF AsksClean
  <2>2. /\ exit' = exit /\ book'.positions = book.positions /\ TripTold
        /\ \A o \in Orders : Accounted(o)' = Accounted(o)
    BY <1>1, <2>1, TradeAside
  <2>3. \A o \in Orders : Accounted(o)' = Accounted(o) /\ (AtWork(o)' => AtWork(o))
    BY <1>2, <2>2 DEF AtWork, Status
  <2>4. ExitsClean'
    BY <1>7, <1>9, <1>10, <2>2, <2>3, ExitsKept
  <2>5. AsksClean'
    BY <1>2, <1>6, <1>7, <1>8, <1>9, <1>12, <2>2 DEF AsksClean, Held
  <2> QED BY <2>4, <2>5
<1> QED BY <1>11, <1>12

\* What a step adds to the records is a signal of the plan or an exit.
AddsPlanned ==
  \A o \in Records' :
    \/ o \in Records /\ records'[o].intent = records[o].intent
    \/ records'[o].intent \in plan.entries
    \/ records'[o].intent.offset = "Close"

LEMMA IntentsPlanned ==
  ASSUME SameIntents PROVE AddsPlanned
<1> SUFFICES ASSUME NEW o \in Records'
             PROVE  o \in Records /\ records'[o].intent = records[o].intent
  BY DEF AddsPlanned
<1>1. o \in Orders /\ records'[o].occupied
  BY DEF Records
<1> QED BY <1>1 DEF SameIntents, Records

LEMMA OrderPlanned ==
  ASSUME AccountInv, OrdersInv, NEW intent \in Intent, NEW code \in SubmitCodes(intent),
         SubmitOrder(intent, code),
         intent \in plan.entries \/ intent.offset = "Close"
  PROVE  AddsPlanned
<1>1. CASE UNCHANGED <<book, records, counter>>
  BY <1>1 DEF AddsPlanned, Records
<1>2. CASE \E id \in Orders : AddsOrder(id, intent, code)
  <2>1. PICK id \in Orders : AddsOrder(id, intent, code)
    BY <1>2
  <2>2. ASSUME NEW o \in Records'
        PROVE  \/ o \in Records /\ records'[o].intent = records[o].intent
               \/ records'[o].intent \in plan.entries
               \/ records'[o].intent.offset = "Close"
    <3>1. o \in Orders /\ records'[o].occupied
      BY <2>2 DEF Records
    <3>2. CASE o = id
      BY <2>1, <3>2 DEF AddsOrder
    <3>3. CASE o # id
      BY <2>1, <3>1, <3>3 DEF AddsOrder, Records
    <3> QED BY <3>2, <3>3
  <2> QED BY <2>2 DEF AddsPlanned
<1> QED BY <1>1, <1>2, SubmitAdds

LEMMA JudgedPlanned ==
  ASSUME TruthInv, Judged, UNCHANGED plan
  PROVE  AddsPlanned
<1>1. AccountInv /\ Thawed /\ OrdersInv
  BY DEF TruthInv
<1>2. UNCHANGED records => AddsPlanned
  BY DEF AddsPlanned, Records
<1>3. CASE TakeSignal
  <2>1. PICK intent \in plan.entries : \E code \in SubmitCodes(intent) : SubmitOrder(intent, code)
    BY <1>3 DEF TakeSignal, Submit
  <2>2. PICK code \in SubmitCodes(intent) : SubmitOrder(intent, code)
    BY <2>1
  <2>3. intent \in Intent
    BY <1>1, <2>1, IntentsOfCalls
  <2> QED BY <1>1, <2>2, <2>3, OrderPlanned
<1>4. CASE TakeMarket
  <2>1. DropsExit \/ SubmitExit \/ CancelsOrder \/ Waits
    BY <1>1, <1>4, MarketKinds DEF TakeMarket
  <2>2. CASE SubmitExit
    <3>1. PICK code \in SubmitCodes(ExitIntent) : SubmitOrder(ExitIntent, code)
      BY <2>2 DEF SubmitExit
    <3>2. ExitIntent \in Intent /\ ExitIntent.offset = "Close"
      BY <1>1, IntentsOfCalls
    <3> QED BY <1>1, <3>1, <3>2, OrderPlanned
  <2>3. CASE DropsExit
    BY <1>2, <2>3 DEF DropsExit
  <2>4. CASE CancelsOrder \/ Waits
    BY <2>4, IntentsPlanned DEF CancelsOrder, Waits
  <2> QED BY <2>1, <2>2, <2>3, <2>4
<1>5. CASE HearReport
  BY <1>1, <1>5, ReportKinds, IntentsPlanned DEF HearReport, ReceivePushedReport
<1>6. CASE HearTrade
  BY <1>1, <1>6, TradeKinds, IntentsPlanned DEF HearTrade, ReceivePushedTrade
<1>7. CASE ReceiveAnswer
  BY <1>7, RowIntents, IntentsPlanned
<1>8. CASE MarketOverflow \/ FindFault \/ Conclude
  BY <1>2, <1>8 DEF MarketOverflow, MarkFault, FindFault, Conclude, recoveryVars, vars
<1>9. CASE AskForTheEnd
  BY <1>2, <1>9 DEF AskForTheEnd, RequestReconciliation, recoveryVars, vars
<1>10. CASE Answer \/ CounterActs
  <2>1. UNCHANGED account
    <3>1. CASE Answer
      BY <3>1 DEF Answer, CounterAnswer
    <3>2. CASE CounterActs
      BY <3>2 DEF CounterActs, CounterStep, CounterAccept, CounterReject, CounterFill,
                  CounterCancel, CounterRefuse
    <3> QED BY <1>10, <3>1, <3>2
  <2> QED BY <1>2, <2>1 DEF account
<1>11. CASE Connected \/ Disconnected \/ Overflow
  BY <1>2, <1>11 DEF Connected, Disconnected, Overflow
<1> QED BY <1>3, <1>4, <1>5, <1>6, <1>7, <1>8, <1>9, <1>10, <1>11 DEF Judged

LEMMA PlannedStays ==
  ASSUME Planned, AddsPlanned, UNCHANGED plan
  PROVE  Planned'
<1>1. OneSignal'
  BY DEF Planned, OneSignal
<1>2. ASSUME NEW o \in Entries' PROVE records'[o].intent \in plan'.entries
  <2>1. o \in Records' /\ records'[o].intent.offset = "Open"
    BY <1>2 DEF Entries
  <2> QED BY <2>1 DEF AddsPlanned, Planned, Entries
<1> QED BY <1>1, <1>2 DEF Planned

LEMMA CleanAside ==
  ASSUME CleanInv, UNCHANGED recoveryVars PROVE CleanInv'
<1>1. /\ UNCHANGED <<book, records, exit, frozen, fault, counter, phase, link>>
      /\ crossed' = crossed /\ alarmed' = alarmed
  BY DEF recoveryVars, vars, recovery, world, history
<1>2. /\ Records' = Records /\ (TripTold <=> TripTold') /\ Held' = Held
  BY <1>1 DEF Records, TripTold, Entries, Closes, Accounted, Held
<1>3. ExitsClean => ExitsClean'
  BY <1>1, <1>2 DEF ExitsClean, ExitNamed, TripEnds, Closes, Records, AtWork, Status,
                    Accounted, Quantity
<1>4. AsksClean => AsksClean'
  BY <1>1, <1>2 DEF AsksClean
<1> QED BY <1>1, <1>3, <1>4 DEF CleanInv

\* The trades that acceptance has counted are those of the trip.
LEMMA ToldMeansTrip ==
  ASSUME ToldTrue, RoundTripTold PROVE TripTold
BY DEF ToldTrue, RoundTripTold, TripTold

\* No step of an account under acceptance leaves it unclean.
LEMMA CleanStep ==
  ASSUME RecoveredInv, RecoveredInv', StepTells, Planned, Planned', ToldTrue, CleanInv,
         Judged, UNCHANGED plan
  PROVE  CleanInv'
<1>1. TruthInv /\ TruthInv'
  BY DEF RecoveredInv
<1>2. CASE TakeSignal
  BY <1>1, <1>2, SubmitClean
<1>3. CASE TakeMarket
  BY <1>3, MarketClean
<1>4. CASE HearReport
  BY <1>1, <1>4, ReportClean
<1>5. CASE HearTrade
  BY <1>5, TradeClean
<1>6. CASE ReceiveAnswer
  BY <1>1, <1>6, RowClean
<1>7. CASE Connected \/ Disconnected \/ Overflow \/ MarketOverflow
  BY <1>7, LinkClean DEF MarketOverflow
<1>8. CASE CounterActs
  BY <1>1, <1>8, CounterClean
<1>9. CASE Answer
  BY <1>9, AnswerClean DEF Answer
<1>10. CASE FindFault \/ Conclude
  BY <1>10, CleanAside DEF FindFault, Conclude
<1>11. CASE AskForTheEnd
  <2>1. TripTold
    BY <1>11, ToldMeansTrip DEF AskForTheEnd
  <2>2. RequestReconciliation \/ UNCHANGED recoveryVars
    BY <1>11 DEF AskForTheEnd
  <2> QED BY <2>1, <2>2, QueryClean, CleanAside
<1> QED BY <1>2, <1>3, <1>4, <1>5, <1>6, <1>7, <1>8, <1>9, <1>10, <1>11 DEF Judged

\* What acceptance counts stays true.
LEMMA ToldStep ==
  ASSUME TruthInv, StepTells, Planned, ToldTrue, Judged, UNCHANGED plan
  PROVE  ToldTrue'
<1>1. /\ (\E o \in Entries : Accounted(o) >= 1) => \E o \in Entries' : Accounted(o)' >= 1
      /\ (\E o \in Closes : Accounted(o) >= 1) => \E o \in Closes' : Accounted(o)' >= 1
  BY TripGoesOn
<1>2. CASE told' = told
  BY <1>1, <1>2 DEF ToldTrue
<1>3. CASE HearReport
  <2>1. PICK news \in BOOLEAN : told' = [told EXCEPT !.failed = @ \/ news]
    BY <1>3 DEF HearReport
  <2>2. /\ told' \in [entry : {0, 1}, exit : {0, 1}, failed : BOOLEAN]
        /\ told'.entry = told.entry /\ told'.exit = told.exit
    BY <2>1 DEF ToldTrue
  <2> QED BY <1>1, <2>2 DEF ToldTrue
<1>4. CASE HearTrade
  BY <1>4, TradeHeard
<1>5. CASE ~HearReport /\ ~HearTrade
  <2>1. told' = told
    BY <1>5 DEF Judged, TakeSignal, TakeMarket, MarketOverflow, FindFault, AskForTheEnd, Conclude,
                Answer, judging
  <2> QED BY <1>2, <2>1
<1> QED BY <1>3, <1>4, <1>5

\* A failed order stays one that acceptance has been told of.
LEMMA FailureStays ==
  ASSUME ToldTrue, Judged PROVE told.failed => told'.failed
<1>1. CASE HearReport
  <2>1. PICK news \in BOOLEAN : told' = [told EXCEPT !.failed = @ \/ news]
    BY <1>1 DEF HearReport
  <2> QED BY <2>1 DEF ToldTrue
<1>2. CASE HearTrade
  <2>1. \E value : \E n \in {"entry", "exit"} : told' = [told EXCEPT ![n] = value]
    BY <1>2 DEF HearTrade
  <2> QED BY <2>1 DEF ToldTrue
<1>3. CASE ~HearReport /\ ~HearTrade
  BY <1>3 DEF Judged, TakeSignal, TakeMarket, MarketOverflow, FindFault, AskForTheEnd, Conclude,
              Answer, judging
<1> QED BY <1>1, <1>2, <1>3

-----------------------------------------------------------------------------
(* The final query and the verdict *)

\* The first fault stays.
FaultKept == fault # "None" => fault' # "None"

LEMMA FaultStays ==
  ASSUME Judged PROVE FaultKept
<1>1. \A reasons : SetFaults(reasons) => FaultKept
  BY DEF SetFaults, FaultKept
<1>2. \A reasons : NotSent(reasons) \/ Fail(reasons) \/ Stay(reasons) => FaultKept
  BY <1>1 DEF NotSent, Fail, Stay
<1>3. \A p, reasons : Request(p, reasons) => FaultKept
  BY <1>1, <1>2 DEF Request
<1>4. \A reasons : BeginQueries(reasons) => FaultKept
  BY <1>2 DEF BeginQueries, FaultKept
<1>5. UNCHANGED fault => FaultKept
  BY DEF FaultKept
<1>6. CASE TakeSignal
  BY <1>5, <1>6 DEF TakeSignal, Submit
<1>7. CASE TakeMarket
  <2>1. DropsExit \/ ExitImpossible \/ SubmitExit \/ AwaitExit \/ AwaitEntries
    BY <1>7, DueExitKinds DEF TakeMarket, OnMarket
  <2> QED BY <1>1, <1>5, <2>1 DEF DropsExit, ExitImpossible, SubmitExit, AwaitExit, AwaitEntries
<1>8. CASE HearReport \/ HearTrade
  <2>1. ReceiveReport \/ ReceiveTrade
    BY <1>8 DEF HearReport, HearTrade, ReceivePushedReport, ReceivePushedTrade
  <2>2. \E reasons : SetFaults(reasons)
    BY <2>1 DEF ReceiveReport, ReceiveTrade
  <2> QED BY <1>1, <2>2
<1>9. CASE ReceiveAnswer
  <2>1. CASE ReceiveLogin
    BY <1>3, <1>4, <2>1 DEF ReceiveLogin
  <2>2. CASE ReceiveSettlement
    BY <1>3, <1>4, <2>2 DEF ReceiveSettlement
  <2>3. CASE ReceiveOrderRow
    BY <1>2, <1>3, <2>3 DEF ReceiveOrderRow
  <2>4. CASE ReceiveTradeRow
    <3>1. \E p, reasons : Fail(reasons) \/ Stay(reasons) \/ Request(p, reasons)
      BY <2>4 DEF ReceiveTradeRow
    <3> QED BY <1>2, <1>3, <3>1
  <2>5. CASE ReceivePositionRow
    BY <1>2, <1>3, <2>5 DEF ReceivePositionRow
  <2>6. CASE ReceiveFunds \/ ReceiveFlawed
    BY <1>2, <1>5, <2>6 DEF ReceiveFunds, ReceiveFlawed
  <2> QED BY <1>9, <2>1, <2>2, <2>3, <2>4, <2>5, <2>6 DEF ReceiveAnswer
<1>10. CASE Connected \/ Disconnected \/ Overflow
  BY <1>1, <1>2, <1>4, <1>5, <1>10 DEF Connected, Disconnected, Overflow
<1>11. CASE MarketOverflow
  BY <1>1, <1>11 DEF MarketOverflow, MarkFault
<1>12. CASE FindFault \/ Conclude
  BY <1>5, <1>12 DEF FindFault, Conclude, recoveryVars, vars
<1>13. CASE AskForTheEnd
  BY <1>4, <1>5, <1>13 DEF AskForTheEnd, RequestReconciliation, recoveryVars, vars
<1>14. CASE Answer
  BY <1>5, <1>14 DEF Answer, CounterAnswer, account
<1>15. CASE CounterActs
  <2>1. UNCHANGED account
    BY <1>15 DEF CounterActs, CounterStep, CounterAccept, CounterReject, CounterFill,
                CounterCancel, CounterRefuse
  <2> QED BY <1>5, <2>1 DEF account
<1> QED BY <1>6, <1>7, <1>8, <1>9, <1>10, <1>11, <1>12, <1>13, <1>14, <1>15 DEF Judged

\* The counter has answered the position query of the recovery under way.
PositionsTold ==
  \/ phase \in {"QueryingFunds", "Ready"}
  \/ phase = "QueryingPositions" /\ asked = "None"

LEMMA PositionsStep ==
  ASSUME TruthInv, Judged, PositionsTold'
  PROVE  PositionsTold \/ Answer
<1>1. CASE UNCHANGED <<phase, asked>>
  BY <1>1 DEF PositionsTold
<1>2. \A reasons : /\ ~(BeginQueries(reasons) /\ PositionsTold')
                   /\ ~(Fail(reasons) /\ PositionsTold')
                   /\ ~(NotSent(reasons) /\ PositionsTold')
                   /\ \A p : Request(p, reasons) /\ p \notin {"QueryingFunds", "Ready"} =>
                               ~PositionsTold' \/ p = "QueryingPositions"
  BY RequestKinds DEF PositionsTold, NotSent
<1>3. CASE ReceiveAnswer
  <2>1. CASE QueryRow
    <3>1. /\ asked = "None"
          /\ \/ phase' = "Frozen"
             \/ phase' = phase /\ asked' = asked
             \/ phase' = "QueryingTrades"
             \/ phase' = "QueryingPositions" /\ asked' = phase'
             \/ phase = "QueryingPositions" /\ phase' = "QueryingFunds"
             \/ phase = "QueryingFunds" /\ phase' = "Ready"
      BY <2>1, QueryRowMoves
    <3> QED BY <3>1 DEF PositionsTold
  <2>2. CASE ReceiveLogin \/ ReceiveSettlement \/ ReceiveFlawed
    <3>1. ~PositionsTold'
      BY <1>2, <2>2 DEF ReceiveLogin, ReceiveSettlement, ReceiveFlawed
    <3> QED BY <3>1
  <2> QED BY <1>3, <2>1, <2>2 DEF ReceiveAnswer, QueryRow
<1>4. CASE Connected \/ Disconnected \/ Overflow
  <2>1. CASE Connected
    BY <1>2, <2>1 DEF Connected, Sent, PositionsTold
  <2>2. CASE Disconnected
    BY <2>2 DEF Disconnected, PositionsTold
  <2>3. CASE Overflow
    BY <1>1, <1>2, <2>3 DEF Overflow, Stay
  <2> QED BY <1>4, <2>1, <2>2, <2>3
<1>5. CASE AskForTheEnd
  BY <1>1, <1>2, <1>5 DEF AskForTheEnd, RequestReconciliation, recoveryVars, recovery
<1>6. CASE TakeSignal \/ TakeMarket \/ MarketOverflow
  BY <1>1, <1>6 DEF TakeSignal, TakeMarket, MarketOverflow, MarkFault, recovery
<1>7. CASE HearReport \/ HearTrade
  BY <1>1, <1>7 DEF HearReport, HearTrade, ReceivePushedReport, ReceivePushedTrade, recovery
<1>8. CASE FindFault \/ Conclude
  BY <1>1, <1>8 DEF FindFault, Conclude, recoveryVars, recovery
<1>9. CASE CounterActs
  BY <1>1, <1>9 DEF CounterActs, recovery
<1> QED BY <1>3, <1>4, <1>5, <1>6, <1>7, <1>8, <1>9 DEF Judged

\* The final query is made when the trip is told of, and answered after that.
EndAsked ==
  /\ finalQuery => TripTold
  /\ finalQuery /\ PositionsTold => confirmed

\* An account passes when the final query has been answered.
PassInv == verdict = "Pass" => finalQuery /\ confirmed

LEMMA EndStep ==
  ASSUME TruthInv, StepTells, Planned, ToldTrue, EndAsked, Judged
  PROVE  EndAsked'
<1>1. TripTold => TripTold'
  BY TripGoesOn
<1>2. confirmed => confirmed'
  BY DEF Judged, TakeSignal, TakeMarket, MarketOverflow, HearReport, HearTrade, FindFault,
         AskForTheEnd, Conclude, Answer
<1>3. CASE AskForTheEnd /\ RequestReconciliation
  <2>1. TripTold
    BY <1>3, ToldMeansTrip DEF AskForTheEnd
  <2>2. ~PositionsTold'
    BY <1>3, RequestKinds DEF RequestReconciliation, PositionsTold
  <2> QED BY <1>1, <2>1, <2>2 DEF EndAsked
<1>4. CASE finalQuery' = finalQuery
  <2>1. ASSUME finalQuery, PositionsTold' PROVE confirmed'
    <3>1. CASE PositionsTold
      BY <1>2, <2>1, <3>1 DEF EndAsked
    <3>2. CASE ~PositionsTold
      <4>1. Answer
        BY <2>1, <3>2, PositionsStep
      <4>2. phase' = phase /\ asked # "None"
        BY <4>1 DEF Answer, CounterAnswer
      <4>3. phase = "QueryingPositions"
        BY <2>1, <3>2, <4>2 DEF PositionsTold
      <4>4. asked = "QueryingPositions"
        BY <4>2, <4>3 DEF TruthInv, AskedInv
      <4>5. RoundTripDone
        BY <2>1, TripIsAll DEF EndAsked
      <4> QED BY <4>1, <4>4, <4>5 DEF Answer
    <3> QED BY <3>1, <3>2
  <2> QED BY <1>1, <1>4, <2>1 DEF EndAsked
<1>5. (AskForTheEnd /\ RequestReconciliation) \/ finalQuery' = finalQuery
  BY DEF Judged, TakeSignal, TakeMarket, MarketOverflow, HearReport, HearTrade, FindFault,
         AskForTheEnd, Conclude, Answer, judging
<1> QED BY <1>3, <1>4, <1>5

LEMMA PassStep ==
  ASSUME EndAsked, PassInv, Judged PROVE PassInv'
<1>1. confirmed => confirmed'
  BY DEF Judged, TakeSignal, TakeMarket, MarketOverflow, HearReport, HearTrade, FindFault,
         AskForTheEnd, Conclude, Answer
<1>2. CASE Conclude
  BY <1>1, <1>2 DEF Conclude, Answered, EndAsked, PositionsTold, PassInv
<1>3. CASE AskForTheEnd
  BY <1>3 DEF AskForTheEnd, PassInv
<1>4. CASE ~Conclude /\ ~AskForTheEnd
  <2>1. finalQuery' = finalQuery /\ (verdict' = verdict \/ verdict' = "Fail")
    BY <1>4 DEF Judged, TakeSignal, TakeMarket, MarketOverflow, HearReport, HearTrade, FindFault,
                Answer, judging
  <2> QED BY <1>1, <2>1 DEF PassInv
<1> QED BY <1>2, <1>3, <1>4

\* What an account without a fault fails for
Found ==
  \/ told.failed
  \/ crossed /\ phase = "Ready"
  \/ \E o \in Records : State(o) \in Unsent

FailInv == verdict = "Fail" => fault # "None" \/ Found

LEMMA FoundStays ==
  ASSUME TruthInv, StepTells, ToldTrue, AsksClean, fault' = "None", Judged,
         verdict = "Fail", Found
  PROVE  Found'
<1>1. CASE told.failed
  BY <1>1, FailureStays DEF Found
<1>2. CASE \E o \in Records : State(o) \in Unsent
  BY <1>2, OrdersGoOn DEF Found
<1>3. CASE crossed /\ phase = "Ready"
  <2>1. ~Disconnected /\ ~MarkFault /\ ~Overflow
    BY LossIsFault
  <2>2. ~Connected
    BY <1>3 DEF Connected, AsksClean
  <2>3. ~ReceiveAnswer
    <3>1. "Ready" \notin Asking
      BY DEF Asking, Querying
    <3> QED BY <1>3, <3>1, RowAsks
  <2>4. phase' = phase /\ (crossed => crossed')
    <3>1. CASE TakeSignal \/ TakeMarket
      BY <3>1 DEF TakeSignal, TakeMarket, recovery, history
    <3>2. CASE HearReport \/ HearTrade
      <4>1. CASE HearReport
        BY <4>1 DEF HearReport, ReceivePushedReport, recovery
      <4>2. CASE HearTrade
        <5>1. /\ phase' = phase
              /\ crossed' = (crossed \/ (phase = "QueryingPositions" /\ ~Opens(Head(trades))))
          BY <4>2 DEF HearTrade, ReceivePushedTrade, recovery
        <5> QED BY <5>1
      <4> QED BY <3>2, <4>1, <4>2
    <3>3. CASE FindFault \/ Conclude
      BY <3>3 DEF FindFault, Conclude, recoveryVars, recovery, history
    <3>4. CASE Answer
      BY <3>4 DEF Answer, CounterAnswer, history
    <3>5. CASE CounterActs
      BY <3>5 DEF CounterActs, recovery
    <3>6. ~AskForTheEnd /\ ~MarketOverflow
      BY <2>1 DEF AskForTheEnd, MarketOverflow
    <3> QED BY <2>1, <2>2, <2>3, <3>1, <3>2, <3>3, <3>4, <3>5, <3>6 DEF Judged
  <2> QED BY <1>3, <2>4 DEF Found
<1> QED BY <1>1, <1>2, <1>3 DEF Found

\* A ready account that has been told of the trip is flat, and knows it, unless
\* a trade crossed its position query.
LEMMA TripLeavesFlat ==
  ASSUME RecoveredInv, Planned, TripTold, AsksClean, phase = "Ready", ~crossed
  PROVE  KnownFlat
<1>1. TruthInv /\ BooksNow
  BY BooksAreNow DEF RecoveredInv
<1>2. Held.long = Booked("Buy") /\ Held.short = Booked("Sell") /\ Held.known
  BY <1>1 DEF BooksNow, AsksClean
<1>3. \A direction \in Directions : Booked(direction) = 0
  BY <1>1, TripIsAll
<1> QED BY <1>2, <1>3 DEF KnownFlat, Flat, Directions

LEMMA OneOrNone ==
  ASSUME AccountInv, OrdersInv, Planned
  PROVE  ~(Cardinality(Submitted("Open")) > 1)
<1>1. Submitted("Open") \subseteq Entries
  BY DEF Submitted, Entries
<1>2. \A o, p \in Submitted("Open") : o = p
  BY <1>1, OneEntry
<1>3. CASE Submitted("Open") = {}
  BY <1>3, FS_EmptySet
<1>4. CASE Submitted("Open") # {}
  <2>1. PICK o : Submitted("Open") = {o}
    BY <1>2, <1>4
  <2> QED BY <2>1, FS_Singleton
<1> QED BY <1>3, <1>4

\* A signal that enters no order at the counter leaves one that was not sent.
LEMMA SignalFails ==
  ASSUME TruthInv, TakeSignal, Submitted("Open")' = Submitted("Open")
  PROVE  \E o \in Records' : State(o)' \in Unsent
<1>1. AccountInv /\ OrdersInv /\ UsedInOrder /\ records \in [Orders -> Record]
  BY DEF TruthInv, AccountInv, SessionTypes
<1>2. PICK intent \in plan.entries :
        \E code \in SubmitCodes(intent) \ {"Duplicate", "CapacityExceeded"} :
          SubmitOrder(intent, code)
  BY DEF TakeSignal, Submit
<1>3. PICK code \in SubmitCodes(intent) :
        code \notin {"Duplicate", "CapacityExceeded"} /\ SubmitOrder(intent, code)
  BY <1>2
<1>4. intent \in Intent /\ intent.offset = "Open"
  BY <1>1, <1>2, IntentsOfCalls
<1>5. Cardinality(Records) < RecordCapacity
  <2>1. ~(Cardinality(Records) >= RecordCapacity)
    BY <1>3 DEF SubmitCodes
  <2>2. Cardinality(Records) \in Nat
    BY RecordsCounted
  <2> QED BY <2>1, <2>2, SessionAssumption
<1>6. PICK id \in Orders : id = NextId /\ id \notin Records
  BY <1>1, <1>5, NextIsFree
<1>7. records'[id].occupied /\ records'[id].intent = intent
  <2>1. PICK active : records' = [records EXCEPT ![id] =
                        [NoRecord EXCEPT !.occupied = TRUE, !.intent = intent, !.activeOpen = active]]
    BY <1>3, <1>6 DEF SubmitOrder
  <2> QED BY <1>1, <1>6, <2>1 DEF NoRecord
<1>8. id \in Records'
  BY <1>7 DEF Records
<1>9. EnteredOrder(id)
  <2>1. KeptOrder(id) \/ EnteredOrder(id)
    BY <1>1, <1>3, <1>4, <1>6, SubmitTells
  <2>2. ~KeptOrder(id)
    BY <1>6, <1>7 DEF KeptOrder, Records
  <2> QED BY <2>1, <2>2
<1>10. State(id)' = "Submitted" \/ State(id)' \in Unsent
  BY <1>9 DEF EnteredOrder
<1>11. State(id)' # "Submitted"
  <2>1. ASSUME State(id)' = "Submitted" PROVE id \in Submitted("Open")'
    BY <1>4, <1>7, <1>8, <2>1 DEF Submitted
  <2>2. id \notin Submitted("Open")
    BY <1>6 DEF Submitted
  <2> QED BY <2>1, <2>2
<1> QED BY <1>8, <1>10, <1>11

\* A verdict against an account has a cause.
LEMMA FailStep ==
  ASSUME RecoveredInv, StepTells, Planned, ToldTrue, CleanInv, EndAsked, FailInv, Judged
  PROVE  FailInv'
<1> SUFFICES ASSUME verdict' = "Fail", fault' = "None" PROVE Found'
  BY DEF FailInv
<1>1. TruthInv /\ AccountInv /\ OrdersInv
  BY DEF RecoveredInv, TruthInv
<1>2. fault = "None"
  BY FaultStays DEF FaultKept
<1>3. AsksClean
  BY <1>2 DEF CleanInv
<1>4. CASE verdict = "Fail"
  <2>1. Found
    BY <1>2, <1>4 DEF FailInv
  <2> QED BY <1>1, <1>3, <1>4, <2>1, FoundStays
<1>5. CASE verdict # "Fail"
  <2>1. CASE FindFault
    <3>1. told.failed
      <4>1. OutOfOrder
        BY <2>1 DEF FindFault
      <4>2. ~(told.entry > 1) /\ ~(told.exit > 1)
        BY DEF ToldTrue
      <4>3. ~(Cardinality(Submitted("Open")) > 1)
        BY <1>1, OneOrNone
      <4> QED BY <1>3, <4>1, <4>2, <4>3 DEF OutOfOrder, AsksClean
    <3> QED BY <2>1, <3>1 DEF FindFault, Found
  <2>2. CASE TakeSignal
    <3>1. Submitted("Open")' = Submitted("Open")
      BY <1>5, <2>2 DEF TakeSignal
    <3> QED BY <1>1, <2>2, <3>1, SignalFails DEF Found
  <2>3. CASE AskForTheEnd \/ Conclude
    <3>1. ~KnownFlat /\ phase = "Ready" /\ TripTold /\ UNCHANGED recoveryVars
      <4>1. CASE AskForTheEnd
        BY <1>5, <4>1, ToldMeansTrip DEF AskForTheEnd
      <4>2. CASE Conclude
        BY <1>5, <4>2 DEF Conclude, Answered, EndAsked
      <4> QED BY <2>3, <4>1, <4>2
    <3>2. crossed
      BY <1>3, <3>1, TripLeavesFlat
    <3> QED BY <3>1, <3>2 DEF Found, recoveryVars, recovery, history
  <2>4. ~MarketOverflow
    BY LossIsFault DEF MarketOverflow
  <2>5. CASE ~FindFault /\ ~TakeSignal /\ ~AskForTheEnd /\ ~Conclude /\ ~MarketOverflow
    <3>1. verdict' = verdict
      BY <2>5 DEF Judged, TakeMarket, HearReport, HearTrade, Answer, judging
    <3> QED BY <1>5, <3>1
  <2> QED BY <2>1, <2>2, <2>3, <2>4, <2>5
<1> QED BY <1>4, <1>5

\* What is true of the worker's observations and of its verdict
JudgeInv ==
  IF accepting
  THEN Planned /\ ToldTrue /\ CleanInv /\ EndAsked /\ PassInv /\ FailInv
  ELSE verdict = "Pending"

LEMMA JudgeStart ==
  ASSUME AcceptanceInit PROVE JudgeInv
<1>1. /\ NothingYet /\ phase = "Connecting" /\ link = "Down" /\ crossed = FALSE /\ alarmed = FALSE
      /\ verdict = "Pending" /\ finalQuery = FALSE
      /\ told = [entry |-> 0, exit |-> 0, failed |-> FALSE]
      /\ accepting => OneSignal
  BY DEF AcceptanceInit, RecoveryInit
<1>2. Records = {} /\ Entries = {} /\ Closes = {}
  BY <1>1 DEF NothingYet, Records, NoRecord, Entries, Closes
<1>3. Held.known
  BY <1>1, SessionAssumption DEF NothingYet, Held, EmptyBook, NoPosition
<1>4. AsksClean
  BY <1>1, <1>2, <1>3 DEF AsksClean
<1>5. ExitsClean
  BY <1>2 DEF ExitsClean, ExitNamed, TripEnds
<1>6. accepting => Planned
  BY <1>1, <1>2 DEF Planned
<1>7. ToldTrue
  BY <1>1 DEF ToldTrue
<1> QED BY <1>1, <1>4, <1>5, <1>6, <1>7 DEF JudgeInv, CleanInv, EndAsked, PassInv, FailInv

LEMMA JudgeStep ==
  ASSUME RecoveredInv, RecoveredInv', JudgeInv, [AcceptanceNext]_acceptanceVars
  PROVE  JudgeInv'
<1>1. TruthInv
  BY DEF RecoveredInv
<1>2. StepTells /\ UNCHANGED plan
  BY <1>1, StepOfTheAccount, StepsTell
<1>3. CASE accepting /\ Judged
  <2>1. Planned /\ ToldTrue /\ CleanInv /\ EndAsked /\ PassInv /\ FailInv
    BY <1>3 DEF JudgeInv
  <2>2. Planned'
    BY <1>1, <1>2, <1>3, <2>1, JudgedPlanned, PlannedStays
  <2>3. ToldTrue'
    BY <1>1, <1>2, <1>3, <2>1, ToldStep
  <2>4. CleanInv'
    BY <1>2, <1>3, <2>1, <2>2, CleanStep
  <2>5. EndAsked'
    BY <1>1, <1>2, <1>3, <2>1, EndStep
  <2>6. PassInv'
    BY <1>3, <2>1, PassStep
  <2>7. FailInv'
    BY <1>2, <1>3, <2>1, FailStep
  <2>8. accepting' = accepting
    BY <1>3 DEF Judged, TakeSignal, TakeMarket, MarketOverflow, HearReport, HearTrade, FindFault,
                AskForTheEnd, Conclude, Answer, judging
  <2> QED BY <1>3, <2>2, <2>3, <2>4, <2>5, <2>6, <2>7, <2>8 DEF JudgeInv
<1>4. CASE ~accepting /\ UNCHANGED judging
  BY <1>4 DEF JudgeInv, judging
<1>5. CASE UNCHANGED acceptanceVars
  <2>1. UNCHANGED recoveryVars /\ UNCHANGED judging /\ confirmed' = confirmed
    BY <1>5 DEF acceptanceVars
  <2>2. CASE accepting
    <3>1. Planned /\ ToldTrue /\ CleanInv /\ EndAsked /\ PassInv /\ FailInv
      BY <2>2 DEF JudgeInv
    <3>2. CleanInv'
      BY <2>1, <3>1, CleanAside
    <3>3. /\ UNCHANGED <<book, records, counter, plan, fault, phase, asked>>
          /\ crossed' = crossed
      BY <2>1 DEF recoveryVars, vars, recovery, history
    <3>4. UNCHANGED <<accepting, verdict, finalQuery, told>>
      BY <2>1 DEF judging
    <3>5. /\ Records' = Records /\ Entries' = Entries /\ Closes' = Closes
          /\ (TripTold <=> TripTold') /\ (PositionsTold <=> PositionsTold')
      BY <3>3 DEF Records, TripTold, Entries, Closes, Accounted, PositionsTold
    <3>6. Planned' /\ ToldTrue'
      BY <3>1, <3>3, <3>4, <3>5 DEF Planned, OneSignal, ToldTrue, Accounted
    <3>7. EndAsked' /\ PassInv'
      BY <2>1, <3>1, <3>4, <3>5 DEF EndAsked, PassInv
    <3>8. FailInv'
      BY <3>1, <3>3, <3>4, <3>5 DEF FailInv, Found, State
    <3> QED BY <3>1, <3>2, <3>4, <3>6, <3>7, <3>8, <2>2 DEF JudgeInv
  <2>3. CASE ~accepting
    BY <2>1, <2>3 DEF JudgeInv, judging
  <2> QED BY <2>2, <2>3
<1> QED BY <1>3, <1>4, <1>5 DEF AcceptanceNext

\* The verdict follows.
LEMMA JudgedTrue ==
  ASSUME TruthInv, JudgeInv PROVE VerdictIsTrue
<1>1. CASE ~accepting
  BY <1>1 DEF JudgeInv, VerdictIsTrue
<1>2. CASE accepting
  <2>1. Planned /\ ToldTrue /\ CleanInv /\ EndAsked /\ PassInv /\ FailInv
    BY <1>2 DEF JudgeInv
  <2>2. ASSUME verdict = "Pass"
        PROVE  /\ confirmed /\ RoundTripDone
               /\ \A o \in Records :
                    Live(o) => records[o].intent.offset = "Close" /\ fault # "None"
    <3>1. confirmed /\ TripTold
      BY <2>1, <2>2 DEF PassInv, EndAsked
    <3>2. /\ RoundTripDone /\ \A o \in Entries : ~Live(o)
          /\ \A o \in Orders : Accounted(o) = counter[o].filled
      BY <2>1, <3>1, TripIsAll
    <3>3. ASSUME NEW o \in Records, Live(o)
          PROVE  records[o].intent.offset = "Close" /\ fault # "None"
      <4>1. o \in Closes /\ records[o].intent.offset = "Close" /\ o \in Orders
            /\ counter[o].filled \in Nat
        BY <3>2, <3>3, FillsKnown DEF Closes, Records
      <4>2. ASSUME fault = "None" PROVE FALSE
        <5>1. ExitsClean
          BY <2>1, <4>2 DEF CleanInv
        <5>2. AtWork(o)
          BY <3>3 DEF Live, AtWork, Status
        <5>3. PICK p \in Closes : Accounted(p) >= 1
          BY <3>1 DEF TripTold
        <5>4. ~exit.active
          BY <5>1, <5>3 DEF ExitsClean, TripEnds
        <5>5. counter[o].filled # 0
          BY <3>2, <4>1, <5>1, <5>2, <5>4 DEF ExitsClean, ExitNamed
        <5>6. CounterTrue(o) /\ Quantity(o) = 1
          BY <4>1, <5>1 DEF TruthInv, OrderFacts, ExitsClean
        <5>7. counter[o].filled < 1
          BY <3>3, <4>1, <5>5, <5>6 DEF CounterTrue, Live
        <5> QED BY <4>1, <5>5, <5>7
      <4> QED BY <4>1, <4>2
    <3> QED BY <3>1, <3>2, <3>3
  <2>3. ASSUME verdict = "Fail"
        PROVE  \/ fault # "None" \/ told.failed \/ crossed
               \/ \E o \in Records : o \notin Submitted(records[o].intent.offset)
    <3>1. \A o \in Records : State(o) \in Unsent => o \notin Submitted(records[o].intent.offset)
      BY DEF Unsent, Submitted
    <3> QED BY <2>1, <2>3, <3>1 DEF FailInv, Found
  <2> QED BY <2>2, <2>3 DEF VerdictIsTrue
<1> QED BY <1>1, <1>2

\* README.md:188: whatever was lost, late or asked twice on the way to it, the
\* verdict of an account is true (update_acceptance).
THEOREM VerdictsAreTrue == AcceptanceSpec => []VerdictIsTrue
<1>1. AcceptanceInit => JudgeInv
  BY JudgeStart
<1>2. RecoveredInv /\ RecoveredInv' /\ JudgeInv /\ [AcceptanceNext]_acceptanceVars => JudgeInv'
  BY JudgeStep
<1>3. RecoveredInv /\ JudgeInv => VerdictIsTrue
  BY JudgedTrue DEF RecoveredInv
<1> QED
  BY <1>1, <1>2, <1>3, AcceptanceImplementsRecovery, AlwaysRecoveredInv, PTL DEF AcceptanceSpec

=============================================================================
