---------------------------- MODULE CallbackDrain ---------------------------
(***************************************************************************)
(* What drain_callbacks of src/trading.cpp makes of lost callbacks: an     *)
(* account whose queue overflowed freezes, and asks the counter for the    *)
(* whole state before it trades again.                                     *)
(*                                                                         *)
(* The recovery is reduced to one request and one answer: Querying stands  *)
(* for the phases from Authenticating to QueryingFunds, and its answer for *)
(* the last row of the last query. The counter and the link to it are      *)
(* external to src/. Callbacks are the events of the CallbackQueue; what   *)
(* an order or trade report does to the account is not part of this        *)
(* module, and neither are the faults it may raise.                        *)
(***************************************************************************)
EXTENDS CallbackQueue

VARIABLES
  phase,     \* recovery.phase
  frozen,    \* frozen, and reconciliation, which changes with it
  gapPhase,  \* overflow_phase of the drain
  linked,    \* the API is connected to the counter
  owed,      \* the counter has a request to answer
  missed     \* a callback was dropped that no later request makes up for

vars == <<queueVars, phase, frozen, gapPhase, linked, owed, missed>>

Callbacks == {"Connected", "Disconnected", "Answer", "Refusal", "Report"}
Phases == {"Connecting", "Querying", "Ready", "Disconnected", "Frozen"}

ASSUME CallbackAssumption == Event = Callbacks

-----------------------------------------------------------------------------
(* The CTP thread *)

\* Every callback is offered to the queue; one without room is lost.
Callback(e) ==
  /\ Offer(e)
  /\ missed' = (missed \/ ~Room(write))
  /\ UNCHANGED <<phase, frozen, gapPhase>>

Connect ==
  /\ ~linked
  /\ Callback("Connected")
  /\ linked' = TRUE
  /\ UNCHANGED owed

Disconnect ==
  /\ linked
  /\ Callback("Disconnected")
  /\ linked' = FALSE
  /\ owed' = FALSE

\* The answer, or an error response
Respond ==
  /\ linked /\ owed
  /\ \E e \in {"Answer", "Refusal"} : Callback(e)
  /\ owed' = FALSE
  /\ UNCHANGED linked

ReportFill ==
  /\ linked
  /\ Callback("Report")
  /\ UNCHANGED <<linked, owed>>

PushOn == Push /\ UNCHANGED <<phase, frozen, gapPhase, linked, owed, missed>>

-----------------------------------------------------------------------------
(* The account thread *)

\* recovery_failure, and the set_fault in it
RecoveryFailure ==
  /\ phase' = "Frozen"
  /\ frozen' = (frozen \/ phase # "Frozen")

\* request_authentication or begin_query_reconciliation; the API may refuse
\* the request, and does so without a link.
RequestAll ==
  /\ frozen' = TRUE
  /\ \/ /\ linked
        /\ phase' = "Querying"
        /\ owed' = TRUE
        /\ missed' = FALSE
     \/ /\ phase' = "Frozen"
        /\ UNCHANGED <<owed, missed>>

NoRequest == UNCHANGED <<owed, missed>>

\* The handler of one event
Handle(e) ==
  \/ /\ e = "Disconnected"
     /\ phase' = "Disconnected" /\ frozen' = TRUE
     /\ NoRequest
  \/ /\ e = "Connected"
     /\ RequestAll
  \/ /\ e = "Answer" /\ phase = "Querying"
     /\ phase' = "Ready" /\ frozen' = FALSE
     /\ NoRequest
  \/ /\ \/ e = "Answer" /\ phase # "Querying"
        \/ e = "Refusal"
     /\ RecoveryFailure
     /\ NoRequest
  \/ /\ e = "Report"
     /\ UNCHANGED <<phase, frozen>>
     /\ NoRequest

\* set_fault(CallbackQueueOverflow)
StartDrain ==
  /\ BeginDrain
  /\ gapPhase' = phase
  /\ frozen' = (frozen \/ overflow)
  /\ UNCHANGED <<phase, linked, owed, missed>>

TakeEvent ==
  \/ /\ Pop \/ CopyEvent
     /\ UNCHANGED <<phase, frozen, gapPhase, linked, owed, missed>>
  \/ /\ Advance
     /\ Handle(popped)
     /\ UNCHANGED <<gapPhase, linked>>

\* overflowed_during_recovery
DuringRecovery(p) == p \in {"Connecting", "Querying"}

\* Variant: an overflow in the middle of a recovery ignored
CloseGapReadyOnly ==
  \/ /\ gap /\ gapPhase = "Ready" /\ phase = "Ready"
     /\ RequestAll
  \/ /\ ~(gap /\ gapPhase = "Ready" /\ phase = "Ready")
     /\ NoRequest
     /\ UNCHANGED <<phase, frozen>>

\* Variant: an overflow only freezes
CloseGapNever == NoRequest /\ UNCHANGED <<phase, frozen>>

\* The end of drain_callbacks: an overflow in the middle of a recovery fails
\* it, and one of an account that was and is Ready starts one.
CloseGap ==
  \/ /\ gap /\ DuringRecovery(gapPhase)
     /\ RecoveryFailure
     /\ NoRequest
  \/ /\ gap /\ gapPhase = "Ready" /\ phase = "Ready"
     /\ RequestAll
  \/ /\ \/ ~gap
        \/ gapPhase \in {"Disconnected", "Frozen"}
        \/ gapPhase = "Ready" /\ phase # "Ready"
     /\ NoRequest
     /\ UNCHANGED <<phase, frozen>>

FinishDrain ==
  /\ EndDrain
  /\ CloseGap
  /\ UNCHANGED <<gapPhase, linked>>

\* request_reconciliation, which the worker calls for the final check
RequestReconciliation ==
  /\ dpc = "Idle"
  /\ phase = "Ready" /\ ~frozen /\ ~overflow
  /\ RequestAll
  /\ UNCHANGED <<queueVars, gapPhase, linked>>

Account == StartDrain \/ TakeEvent \/ FinishDrain

-----------------------------------------------------------------------------
(* The specification *)

\* As start leaves the session: no link yet
Init ==
  /\ QueueInit
  /\ phase = "Connecting" /\ frozen = TRUE /\ gapPhase = "Connecting"
  /\ linked = FALSE /\ owed = FALSE /\ missed = FALSE

Next ==
  \/ Connect \/ Disconnect \/ Respond \/ ReportFill \/ PushOn
  \/ Account \/ RequestReconciliation

\* The account thread polls without end, a callback that has begun returns,
\* and the counter answers while the link is up.
Fairness ==
  /\ WF_vars(Account)
  /\ WF_vars(PushOn)
  /\ SF_vars(Respond)

Spec == Init /\ [][Next]_vars /\ Fairness

-----------------------------------------------------------------------------
(* Properties *)

TypeOK ==
  /\ QueueTypeOK
  /\ phase \in Phases /\ gapPhase \in Phases
  /\ {frozen, linked, owed, missed} \subseteq BOOLEAN

\* What submit requires of the session (effective.reconciled and frozen)
MayTrade == dpc = "Idle" /\ ~frozen /\ ~overflow

\* README.md:51: an account that may trade has asked for everything it missed.
\* Only a callback that has found the queue full and has not raised the flag
\* yet is unknown to it.
TradesWithoutGaps == MayTrade => ~missed \/ pc = "Full"

\* A loss while the account is Ready, in recovery or frozen by a failure is
\* made up for, or the account ends up frozen for good, or without a link.
LossMadeUpFor ==
  missed /\ phase # "Disconnected"
    ~> ~missed \/ phase \in {"Frozen", "Disconnected"}

-----------------------------------------------------------------------------
(* A claim of the repository that the code does not keep *)

\* README.md:51: after a reconnection, and after an overflow of the queue, the
\* account queries orders, trades, positions and funds. When the callback that
\* is lost is OnFrontConnected, nothing ever asks: the overflow is noticed in
\* the phase Disconnected, for which the end of drain_callbacks does nothing.
OverflowRecovers ==
  <>[]linked => (missed ~> ~missed \/ phase = "Frozen")
=============================================================================
