---------------------------- MODULE CallbackQueue ---------------------------
(***************************************************************************)
(* The callback queue of an account session (push_callback, pop_callback   *)
(* and the loop of drain_callbacks in src/trading.cpp): a ring with one    *)
(* free slot between the thread of the CTP API, which never waits, and the *)
(* account thread, with a flag for the events that found it full.          *)
(*                                                                         *)
(* One step is one access to shared memory.  The atomic variables are read *)
(* and written in one order for both threads; an acquire load that returns *)
(* an old index acts as one made earlier.  The slots are plain memory, so  *)
(* both threads in one slot would be a data race.                          *)
(***************************************************************************)
EXTENDS Integers, Sequences

CONSTANTS
  Slots,    \* callbacks.size(): callback_capacity + 1
  Event,    \* what a callback may bring
  NoEvent,
  Maximum   \* the argument of drain_callbacks

ASSUME QueueAssumption ==
  /\ Slots \in Nat \ {0, 1}
  /\ NoEvent \notin Event
  /\ Maximum \in Nat \ {0}

VARIABLES
  slots,     \* callbacks
  write,     \* callback_write
  read,      \* callback_read
  overflow,  \* callback_overflow
  pc,        \* where push_callback is
  arriving,  \* its argument, once it has room
  dpc,       \* where drain_callbacks is
  gap,       \* its local callback_overflow
  popped,    \* the event copied out of its slot
  taken,     \* the event popped last
  applied    \* applied_count

producer == <<pc, arriving>>
consumer == <<dpc, gap, popped, taken, applied>>
queueVars == <<slots, write, read, overflow, producer, consumer>>

Wrap(n) == IF n >= Slots THEN n - Slots ELSE n

Successor(i) == Wrap(i + 1)

-----------------------------------------------------------------------------
(* push_callback *)

\* Variant: the whole ring used, so that a full ring looks like an empty one
RoomForAll(i) == TRUE

\* The index after the written one is free.
Room(i) == Successor(i) # read

\* An event comes: load callback_read.
Offer(e) ==
  /\ pc = "Idle"
  /\ IF Room(write)
     THEN pc' = "Room" /\ arriving' = e
     ELSE pc' = "Full" /\ UNCHANGED arriving
  /\ UNCHANGED <<slots, write, read, overflow, consumer>>

FlagLoss ==
  /\ pc = "Full"
  /\ overflow' = TRUE
  /\ pc' = "Idle"
  /\ UNCHANGED <<slots, write, read, arriving, consumer>>

StoreEvent ==
  /\ pc = "Room"
  /\ slots' = [slots EXCEPT ![write] = arriving]
  /\ pc' = "Stored"
  /\ UNCHANGED <<write, read, overflow, arriving, consumer>>

Publish ==
  /\ pc = "Stored"
  /\ write' = Successor(write)
  /\ pc' = "Idle"
  /\ arriving' = NoEvent
  /\ UNCHANGED <<slots, read, overflow, consumer>>

Push == FlagLoss \/ StoreEvent \/ Publish

-----------------------------------------------------------------------------
(* drain_callbacks, and pop_callback within it *)

\* Variant: a flag left from the drain before is not a loss of this one
BeginDrainForgetting ==
  /\ dpc = "Idle"
  /\ gap' = FALSE
  /\ overflow' = FALSE
  /\ applied' = 0
  /\ dpc' = "Pop"
  /\ UNCHANGED <<slots, write, read, producer, popped, taken>>

\* callback_overflow.exchange(false)
BeginDrain ==
  /\ dpc = "Idle"
  /\ gap' = overflow
  /\ overflow' = FALSE
  /\ applied' = 0
  /\ dpc' = "Pop"
  /\ UNCHANGED <<slots, write, read, producer, popped, taken>>

\* The loop condition: the maximum, then the load of callback_write
Pop ==
  /\ dpc = "Pop"
  /\ dpc' = IF applied < Maximum /\ read # write THEN "Copy" ELSE "End"
  /\ UNCHANGED <<slots, write, read, overflow, producer,
                 gap, popped, taken, applied>>

CopyEvent ==
  /\ dpc = "Copy"
  /\ popped' = slots[read]
  /\ dpc' = "Advance"
  /\ UNCHANGED <<slots, write, read, overflow, producer, gap, taken, applied>>

\* The slot is given back before the event is handled.
Advance ==
  /\ dpc = "Advance"
  /\ read' = Successor(read)
  /\ taken' = popped
  /\ applied' = applied + 1
  /\ dpc' = "Pop"
  /\ UNCHANGED <<slots, write, overflow, producer, gap, popped>>

\* Variant: the flag cleared when the drain ends, not exchanged when it begins
EndDrainClearing ==
  /\ dpc = "End"
  /\ dpc' = "Idle"
  /\ gap' = FALSE
  /\ overflow' = FALSE
  /\ UNCHANGED <<slots, write, read, producer, popped, taken, applied>>

\* What the drain does about the gap is part of CallbackDrain.
EndDrain ==
  /\ dpc = "End"
  /\ dpc' = "Idle"
  /\ gap' = FALSE
  /\ UNCHANGED <<slots, write, read, overflow, producer, popped, taken, applied>>

Drain == BeginDrain \/ Pop \/ CopyEvent \/ Advance \/ EndDrain

-----------------------------------------------------------------------------
(* The specification *)

QueueInit ==
  /\ slots = [i \in 0 .. Slots - 1 |-> NoEvent]
  /\ write = 0 /\ read = 0
  /\ overflow = FALSE
  /\ pc = "Idle" /\ arriving = NoEvent
  /\ dpc = "Idle" /\ gap = FALSE /\ popped = NoEvent /\ taken = NoEvent /\ applied = 0

QueueNext == Push \/ Drain \/ \E e \in Event : Offer(e)

\* The account thread polls without end, and a callback that has begun returns.
QueueSpec ==
  /\ QueueInit /\ [][QueueNext]_queueVars
  /\ WF_queueVars(Drain) /\ WF_queueVars(Push)

-----------------------------------------------------------------------------
(* Properties *)

QueueTypeOK ==
  /\ slots \in [0 .. Slots - 1 -> Event \cup {NoEvent}]
  /\ write \in 0 .. Slots - 1 /\ read \in 0 .. Slots - 1
  /\ overflow \in BOOLEAN
  /\ pc \in {"Idle", "Full", "Room", "Stored"}
  /\ arriving \in Event \cup {NoEvent}
  /\ dpc \in {"Idle", "Pop", "Copy", "Advance", "End"}
  /\ gap \in BOOLEAN
  /\ popped \in Event \cup {NoEvent} /\ taken \in Event \cup {NoEvent}
  /\ applied \in 0 .. Maximum

\* The two threads are never in one slot at a time (trading.cpp 1296 and 1316).
NoSlotRace == pc = "Room" /\ dpc = "Copy" => write # read

\* What lies in slots s from index r to index w
Depth(r, w) == IF w >= r THEN w - r ELSE Slots - r + w
Waiting(s, r, w) == [i \in 1 .. Depth(r, w) |-> s[Wrap(r + i - 1)]]

\* The ring implements LossyFifo: what waits is what lies from callback_read to
\* callback_write, and a loss is known to the producer before the flag says so.
Fifo ==
  INSTANCE LossyFifo WITH
    Capacity <- Slots - 1,
    fifo <- Waiting(slots, read, write),
    lost <- overflow \/ pc = "Full"
ImplementsLossyFifo == Fifo!Spec

\* Every loss is noticed by some later drain.
LossNoticed == overflow ~> gap
=============================================================================
