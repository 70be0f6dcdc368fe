------------------------------ MODULE LossyFifo -----------------------------
(***************************************************************************)
(* What the callback queue of an account promises to the account: events   *)
(* come out once, unchanged and in the order they went in; an event is     *)
(* lost only when Capacity events wait; and no loss goes unnoticed.        *)
(***************************************************************************)
EXTENDS Naturals, Sequences

CONSTANTS Capacity, Event, NoEvent

VARIABLES
  arriving,  \* the event a callback has brought and not yet put
  fifo,      \* events put and not yet taken
  taken,     \* the event taken last
  lost,      \* an event has been lost, and the account does not know
  gap        \* the account knows of a loss and has not dealt with it

fifoVars == <<arriving, fifo, taken, lost, gap>>

Init ==
  /\ arriving = NoEvent
  /\ fifo = <<>>
  /\ taken = NoEvent
  /\ lost = FALSE
  /\ gap = FALSE

Arrive ==
  /\ arriving = NoEvent
  /\ Len(fifo) < Capacity
  /\ arriving' \in Event
  /\ UNCHANGED <<fifo, taken, lost, gap>>

Put ==
  /\ arriving \in Event
  /\ fifo' = Append(fifo, arriving)
  /\ arriving' = NoEvent
  /\ UNCHANGED <<taken, lost, gap>>

Lose ==
  /\ arriving = NoEvent
  /\ Len(fifo) = Capacity
  /\ lost' = TRUE
  /\ UNCHANGED <<arriving, fifo, taken, gap>>

Take ==
  /\ fifo # <<>>
  /\ taken' = Head(fifo)
  /\ fifo' = Tail(fifo)
  /\ UNCHANGED <<arriving, lost, gap>>

\* Losses may be noticed together, or one after the other.
Notice ==
  /\ lost /\ ~gap
  /\ gap' = TRUE
  /\ lost' \in BOOLEAN
  /\ UNCHANGED <<arriving, fifo, taken>>

DealWith ==
  /\ gap
  /\ gap' = FALSE
  /\ UNCHANGED <<arriving, fifo, taken, lost>>

Next == Arrive \/ Put \/ Lose \/ Take \/ Notice \/ DealWith

Spec == Init /\ [][Next]_fifoVars
=============================================================================
