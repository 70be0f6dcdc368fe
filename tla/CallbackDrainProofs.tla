------------------------- MODULE CallbackDrainProofs ------------------------
(***************************************************************************)
(* Proofs about CallbackQueue and CallbackDrain, for a ring of any size,   *)
(* any events and any argument of drain_callbacks.                         *)
(*                                                                         *)
(* The queue: the types of its variables, that the two threads never meet  *)
(* in a slot, and that it implements LossyFifo.                            *)
(*                                                                         *)
(* The session: the types of its variables, and that an account which may  *)
(* trade has asked for everything it missed. A loss is known in one of     *)
(* three ways, and each leads to the next: the flag says so, or the        *)
(* producer is about to raise it; a drain that took the flag is under way  *)
(* (gap), in a phase that makes its end act on the gap; or the session is  *)
(* in a phase it leaves by a new request only.                             *)
(***************************************************************************)
EXTENDS CallbackDrain, SequenceTheorems, TLAPS

-----------------------------------------------------------------------------
(* The queue: the inductive invariant *)

\* While the producer fills a slot, the index after it stays free, and while
\* the consumer empties one, it stays in use.
Apart ==
  /\ pc \in {"Room", "Stored"} => Successor(write) # read
  /\ dpc \in {"Copy", "Advance"} => read # write /\ applied < Maximum

\* What each thread has in its hands is what the slot holds.
InHand ==
  /\ IF pc \in {"Room", "Stored"} THEN arriving \in Event ELSE arriving = NoEvent
  /\ pc = "Stored" => slots[write] = arriving
  /\ dpc = "Advance" => popped = slots[read]
  /\ dpc = "Idle" => gap = FALSE

QueueInv == QueueTypeOK /\ Apart /\ InHand

-----------------------------------------------------------------------------
(* Arithmetic of the ring *)

\* The successor of an index is an index, and another one.
LEMMA SuccessorIsIndex ==
  ASSUME NEW i \in 0 .. Slots - 1
  PROVE  /\ Successor(i) \in 0 .. Slots - 1
         /\ Successor(i) # i
  BY QueueAssumption DEF Successor, Wrap

\* Different indexes have different successors.
LEMMA SuccessorInjective ==
  ASSUME NEW i \in 0 .. Slots - 1, NEW j \in 0 .. Slots - 1, i # j
  PROVE  Successor(i) # Successor(j)
  BY QueueAssumption DEF Successor, Wrap

-----------------------------------------------------------------------------
(* The queue: the invariant is inductive *)

\* The invariant holds of the queue as it is made.
LEMMA QueueInitInv == QueueInit => QueueInv
<1> SUFFICES ASSUME QueueInit PROVE QueueInv
  OBVIOUS
<1>1. /\ overflow \in BOOLEAN /\ gap \in BOOLEAN
      /\ gap = FALSE
  BY Zenon DEF QueueInit
<1>2. slots \in [0 .. Slots - 1 -> Event \cup {NoEvent}]
  BY DEF QueueInit
<1> QED
  BY <1>1, <1>2, QueueAssumption
  DEF QueueInit, QueueInv, QueueTypeOK, Apart, InHand

\* Every step of push_callback keeps it.
LEMMA ProducerInv ==
  ASSUME QueueInv, Push \/ \E e \in Event : Offer(e)
  PROVE  QueueInv'
<1> USE QueueAssumption DEF QueueInv, QueueTypeOK, Apart, InHand, consumer
<1>1. CASE \E e \in Event : Offer(e)
  BY <1>1 DEF Offer, Room
<1>2. CASE FlagLoss
  BY <1>2 DEF FlagLoss
<1>3. CASE StoreEvent
  BY <1>3 DEF StoreEvent
<1>4. CASE Publish
  <2>1. Successor(write) \in 0 .. Slots - 1
    BY SuccessorIsIndex
  <2> QED BY <1>4, <2>1 DEF Publish
<1> QED BY <1>1, <1>2, <1>3, <1>4 DEF Push

\* Every step of drain_callbacks keeps it.
LEMMA ConsumerInv ==
  ASSUME QueueInv, Drain
  PROVE  QueueInv'
<1> USE QueueAssumption DEF QueueInv, QueueTypeOK, Apart, InHand, producer
<1>1. CASE BeginDrain
  <2>1. overflow' \in BOOLEAN /\ gap' \in BOOLEAN
    BY <1>1, Zenon DEF BeginDrain
  <2> QED BY <1>1, <2>1 DEF BeginDrain
<1>2. CASE Pop
  BY <1>2 DEF Pop
<1>3. CASE CopyEvent
  BY <1>3 DEF CopyEvent
<1>4. CASE Advance
  <2>1. Successor(read) \in 0 .. Slots - 1
    BY SuccessorIsIndex
  <2>2. Successor(write) # Successor(read)
    BY <1>4, SuccessorInjective DEF Advance
  <2> QED BY <1>4, <2>1, <2>2 DEF Advance
<1>5. CASE EndDrain
  BY <1>5 DEF EndDrain
<1> QED BY <1>1, <1>2, <1>3, <1>4, <1>5 DEF Drain

\* The invariant is kept by every step, those of a stuttering queue included.
LEMMA QueueNextInv == QueueInv /\ [QueueNext]_queueVars => QueueInv'
<1> SUFFICES ASSUME QueueInv, [QueueNext]_queueVars PROVE QueueInv'
  OBVIOUS
<1>1. CASE QueueNext
  BY <1>1, ProducerInv, ConsumerInv DEF QueueNext
<1>2. CASE UNCHANGED queueVars
  BY <1>2 DEF queueVars, producer, consumer, QueueInv, QueueTypeOK, Apart, InHand
<1> QED BY <1>1, <1>2

\* The queue keeps its types and never has both threads in one slot
\* (trading.cpp 1287-1321).
THEOREM QueueCorrect == QueueSpec => [](QueueTypeOK /\ NoSlotRace)
<1>1. QueueInv => QueueTypeOK /\ NoSlotRace
  BY DEF QueueInv, Apart, NoSlotRace
<1> QED BY <1>1, QueueInitInv, QueueNextInv, PTL DEF QueueSpec

-----------------------------------------------------------------------------
(* What waits in the ring, as a sequence *)

Index == 0 .. Slots - 1
Content == Event \cup {NoEvent}

\* The waiting events are a sequence, and fewer than there are slots.
LEMMA WaitingIsSeq ==
  ASSUME NEW s \in [Index -> Content], NEW r \in Index, NEW w \in Index
  PROVE  /\ Depth(r, w) \in Index
         /\ Waiting(s, r, w) \in Seq(Content)
         /\ Len(Waiting(s, r, w)) = Depth(r, w)
         /\ \A i \in 1 .. Depth(r, w) :
              /\ Wrap(r + i - 1) \in Index
              /\ Waiting(s, r, w)[i] = s[Wrap(r + i - 1)]
<1>1. Depth(r, w) \in Index
  BY QueueAssumption DEF Depth, Index
<1>2. \A i \in 1 .. Depth(r, w) : Wrap(r + i - 1) \in Index
  BY QueueAssumption DEF Depth, Wrap, Index
<1>3. Waiting(s, r, w) \in [1 .. Depth(r, w) -> Content]
  BY <1>2 DEF Waiting
<1>4. Depth(r, w) \in Nat
  BY <1>1, QueueAssumption DEF Index
<1>5. Waiting(s, r, w) \in Seq(Content)
  BY <1>3, <1>4, SeqDef
<1>6. Len(Waiting(s, r, w)) = Depth(r, w)
  BY <1>3, <1>4, <1>5, LenProperties
<1> QED BY <1>1, <1>2, <1>5, <1>6 DEF Waiting

\* Publishing the written slot appends what it holds.
LEMMA WaitingPublish ==
  ASSUME NEW s \in [Index -> Content], NEW r \in Index, NEW w \in Index,
         Successor(w) # r
  PROVE  Waiting(s, r, Successor(w)) = Append(Waiting(s, r, w), s[w])
<1> DEFINE old == Waiting(s, r, w)
           new == Waiting(s, r, Successor(w))
<1>1. Successor(w) \in Index
  BY SuccessorIsIndex DEF Index
<1>2. Depth(r, Successor(w)) = Depth(r, w) + 1
  BY QueueAssumption DEF Depth, Successor, Wrap, Index
<1>3. Wrap(r + (Depth(r, w) + 1) - 1) = w
  BY QueueAssumption DEF Depth, Wrap, Index
<1>4. /\ old \in Seq(Content) /\ Len(old) = Depth(r, w)
      /\ \A i \in 1 .. Depth(r, w) : old[i] = s[Wrap(r + i - 1)]
      /\ Depth(r, w) \in Index
  BY WaitingIsSeq
<1>9. /\ new \in Seq(Content) /\ Len(new) = Depth(r, w) + 1
      /\ \A i \in 1 .. Depth(r, w) + 1 : new[i] = s[Wrap(r + i - 1)]
  BY <1>1, <1>2, WaitingIsSeq
<1>10. Depth(r, w) \in Nat
  BY <1>4, QueueAssumption DEF Index
<1>5. s[w] \in Content
  BY DEF Index
<1> HIDE DEF old, new
<1>6. /\ Append(old, s[w]) \in Seq(Content)
      /\ Len(Append(old, s[w])) = Depth(r, w) + 1
      /\ \A i \in 1 .. Depth(r, w) : Append(old, s[w])[i] = old[i]
      /\ Append(old, s[w])[Depth(r, w) + 1] = s[w]
  BY <1>4, <1>5, <1>10
<1>7. \A i \in 1 .. Len(new) : new[i] = Append(old, s[w])[i]
  <2>1. new[Depth(r, w) + 1] = s[w]
    BY <1>3, <1>9, <1>10
  <2>2. \A i \in 1 .. Depth(r, w) : new[i] = old[i]
    BY <1>4, <1>9, <1>10
  <2>3. 1 .. Len(new) = (1 .. Depth(r, w)) \cup {Depth(r, w) + 1}
    BY <1>9, <1>10
  <2> QED BY <1>6, <2>1, <2>2, <2>3
<1>8. new = Append(old, s[w])
  BY <1>6, <1>7, <1>9, SeqEqual
<1> QED BY <1>8 DEF old, new

\* Filling the free slot changes nothing that waits.
LEMMA WaitingStore ==
  ASSUME NEW s \in [Index -> Content], NEW r \in Index, NEW w \in Index,
         NEW e \in Content
  PROVE  Waiting([s EXCEPT ![w] = e], r, w) = Waiting(s, r, w)
<1>1. \A i \in 1 .. Depth(r, w) : Wrap(r + i - 1) \in Index \ {w}
  BY QueueAssumption DEF Depth, Wrap, Index
<1>2. \A i \in 1 .. Depth(r, w) :
        [s EXCEPT ![w] = e][Wrap(r + i - 1)] = s[Wrap(r + i - 1)]
  BY <1>1
<1> QED BY <1>2 DEF Waiting

\* Giving a slot back takes the first of what waits.
LEMMA WaitingAdvance ==
  ASSUME NEW s \in [Index -> Content], NEW r \in Index, NEW w \in Index, r # w
  PROVE  /\ Waiting(s, r, w) # <<>>
         /\ Head(Waiting(s, r, w)) = s[r]
         /\ Tail(Waiting(s, r, w)) = Waiting(s, Successor(r), w)
<1> DEFINE old == Waiting(s, r, w)
           new == Waiting(s, Successor(r), w)
<1>1. Successor(r) \in Index
  BY SuccessorIsIndex DEF Index
<1>2. Depth(r, w) = Depth(Successor(r), w) + 1
  BY QueueAssumption DEF Depth, Successor, Wrap, Index
<1>3. /\ Wrap(r + 1 - 1) = r
      /\ \A i \in 1 .. Depth(Successor(r), w) :
            Wrap(r + (i + 1) - 1) = Wrap(Successor(r) + i - 1)
  BY QueueAssumption DEF Depth, Successor, Wrap, Index
<1>4. /\ old \in Seq(Content) /\ Len(old) = Depth(r, w)
      /\ \A i \in 1 .. Depth(r, w) : old[i] = s[Wrap(r + i - 1)]
  BY WaitingIsSeq
<1>9. /\ new \in Seq(Content) /\ Len(new) = Depth(Successor(r), w)
      /\ \A i \in 1 .. Depth(Successor(r), w) :
            new[i] = s[Wrap(Successor(r) + i - 1)]
      /\ Depth(Successor(r), w) \in Index
  BY <1>1, WaitingIsSeq
<1>10. Depth(Successor(r), w) \in Nat
  BY <1>9, QueueAssumption DEF Index
<1> HIDE DEF old, new
<1>5. old # <<>> /\ Head(old) = s[r]
  BY <1>2, <1>3, <1>4, <1>10
<1>6. /\ Tail(old) \in Seq(Content)
      /\ Len(Tail(old)) = Depth(Successor(r), w)
      /\ \A i \in 1 .. Depth(Successor(r), w) : Tail(old)[i] = old[i + 1]
  BY <1>2, <1>4, <1>5, <1>10, HeadTailProperties
<1>7. \A i \in 1 .. Len(new) : Tail(old)[i] = new[i]
  BY <1>2, <1>3, <1>4, <1>6, <1>9, <1>10
<1>8. Tail(old) = new
  BY <1>6, <1>7, <1>9, SeqEqual
<1> QED BY <1>5, <1>8 DEF old, new

-----------------------------------------------------------------------------
(* The refinement *)

\* The queue as it is made is an empty LossyFifo.
LEMMA InitRefines == QueueInit => Fifo!Init
<1> SUFFICES ASSUME QueueInit PROVE Fifo!Init
  OBVIOUS
<1>1. Waiting(slots, read, write) = <<>>
  <2>1. /\ slots \in [Index -> Content] /\ read \in Index /\ write \in Index
        /\ Depth(read, write) = 0
    BY QueueAssumption DEF QueueInit, Index, Content, Depth
  <2>2. /\ Waiting(slots, read, write) \in Seq(Content)
        /\ Len(Waiting(slots, read, write)) = 0
    BY <2>1, WaitingIsSeq
  <2> QED BY <2>2, EmptySeq
<1>2. (overflow \/ pc = "Full") = FALSE
  BY DEF QueueInit
<1> QED BY <1>1, <1>2, Zenon DEF QueueInit, Fifo!Init

\* Every step of the ring is a step of the LossyFifo or changes none of it.
LEMMA NextRefines ==
  ASSUME QueueInv, [QueueNext]_queueVars
  PROVE  [Fifo!Next]_(Fifo!fifoVars)
<1> DEFINE fifo == Waiting(slots, read, write)
           lost == overflow \/ pc = "Full"
<1> USE QueueAssumption
<1>1. /\ slots \in [Index -> Content] /\ read \in Index /\ write \in Index
      /\ Depth(read, write) \in Index
      /\ Len(fifo) = Depth(read, write)
  <2>1. /\ slots \in [Index -> Content] /\ read \in Index /\ write \in Index
    BY DEF QueueInv, QueueTypeOK, Index, Content
  <2> QED BY <2>1, WaitingIsSeq
<1>2. CASE \E e \in Event : Offer(e)
  <2>1. PICK e \in Event : Offer(e)
    BY <1>2
  <2>2. fifo' = fifo
    BY <2>1 DEF Offer
  <2>3. arriving = NoEvent /\ UNCHANGED <<taken, gap>>
    BY <2>1 DEF Offer, consumer, QueueInv, InHand
  <2>4. CASE Room(write)
    <3>1. Depth(read, write) < Slots - 1
      BY <1>1, <2>4 DEF Room, Depth, Successor, Wrap, Index
    <3>2. arriving' \in Event
      BY <2>1, <2>4 DEF Offer
    <3>3. UNCHANGED lost
      BY <2>1, <2>4 DEF Offer
    <3>4. Fifo!Arrive
      BY <1>1, <2>2, <2>3, <3>1, <3>2, <3>3 DEF Fifo!Arrive
    <3> QED BY <3>4 DEF Fifo!Next
  <2>5. CASE ~Room(write)
    <3>1. Depth(read, write) = Slots - 1
      BY <1>1, <2>5 DEF Room, Depth, Successor, Wrap, Index
    <3>2. lost' /\ UNCHANGED arriving
      BY <2>1, <2>5 DEF Offer
    <3>3. Fifo!Lose
      BY <1>1, <2>2, <2>3, <3>1, <3>2 DEF Fifo!Lose
    <3> QED BY <3>3 DEF Fifo!Next
  <2> QED BY <2>4, <2>5
<1>3. CASE FlagLoss
  <2>1. lost /\ lost'
    BY <1>3 DEF FlagLoss
  <2>2. UNCHANGED <<arriving, fifo, taken, gap>>
    BY <1>3 DEF FlagLoss, consumer
  <2> QED BY <2>1, <2>2 DEF Fifo!fifoVars
<1>4. CASE StoreEvent
  <2>1. fifo' = fifo
    <3>1. arriving \in Content
      BY DEF QueueInv, QueueTypeOK, Content
    <3>2. fifo' = Waiting([slots EXCEPT ![write] = arriving], read, write)
      BY <1>4 DEF StoreEvent
    <3> QED BY <1>1, <3>1, <3>2, WaitingStore
  <2>2. UNCHANGED <<arriving, taken, gap>> /\ UNCHANGED lost
    BY <1>4 DEF StoreEvent, consumer
  <2> QED BY <2>1, <2>2 DEF Fifo!fifoVars
<1>5. CASE Publish
  <2>1. arriving \in Event /\ slots[write] = arriving /\ Successor(write) # read
    BY <1>5 DEF Publish, QueueInv, Apart, InHand
  <2>2. fifo' = Append(fifo, arriving)
    <3>1. fifo' = Waiting(slots, read, Successor(write))
      BY <1>5 DEF Publish
    <3> QED BY <1>1, <2>1, <3>1, WaitingPublish
  <2>3. arriving' = NoEvent /\ UNCHANGED <<taken, gap>> /\ UNCHANGED lost
    BY <1>5 DEF Publish, consumer
  <2>4. Fifo!Put
    BY <2>1, <2>2, <2>3 DEF Fifo!Put
  <2> QED BY <2>4 DEF Fifo!Next
<1>6. CASE BeginDrain
  <2>1. UNCHANGED <<arriving, fifo, taken>> /\ ~gap
    <3>1. gap = FALSE
      BY <1>6 DEF BeginDrain, QueueInv, InHand
    <3>2. UNCHANGED <<arriving, fifo, taken>>
      BY <1>6 DEF BeginDrain, producer
    <3> QED BY <3>1, <3>2, Zenon
  <2>2. CASE overflow
    <3>1. lost /\ lost' \in BOOLEAN
      BY <2>2, Zenon
    <3>2. gap' = TRUE
      BY <1>6, <2>2, Zenon DEF BeginDrain, QueueInv, QueueTypeOK
    <3>3. Fifo!Notice
      BY <2>1, <3>1, <3>2, Zenon DEF Fifo!Notice
    <3> QED BY <3>3 DEF Fifo!Next
  <2>3. CASE ~overflow
    <3>1. overflow = FALSE /\ gap = FALSE
      BY <1>6, <2>3, Zenon DEF BeginDrain, QueueInv, QueueTypeOK, InHand
    <3>2. UNCHANGED gap /\ UNCHANGED overflow /\ UNCHANGED pc
      BY <1>6, <3>1, Zenon DEF BeginDrain, producer
    <3>3. UNCHANGED lost
      BY <3>2, Zenon
    <3> QED BY <2>1, <3>2, <3>3, Zenon DEF Fifo!fifoVars
  <2> QED BY <2>2, <2>3
<1>7. CASE Pop
  BY <1>7 DEF Pop, producer, Fifo!fifoVars
<1>8. CASE CopyEvent
  BY <1>8 DEF CopyEvent, producer, Fifo!fifoVars
<1>9. CASE Advance
  <2>1. read # write /\ popped = slots[read]
    BY <1>9 DEF Advance, QueueInv, Apart, InHand
  <2>2. fifo # <<>> /\ Head(fifo) = popped
    BY <1>1, <2>1, WaitingAdvance
  <2>3. fifo' = Tail(fifo)
    <3>1. fifo' = Waiting(slots, Successor(read), write)
      BY <1>9 DEF Advance
    <3> QED BY <1>1, <2>1, <3>1, WaitingAdvance
  <2>4. taken' = popped /\ UNCHANGED <<arriving, gap>> /\ UNCHANGED lost
    BY <1>9 DEF Advance, producer
  <2>5. Fifo!Take
    BY <2>2, <2>3, <2>4 DEF Fifo!Take
  <2> QED BY <2>5 DEF Fifo!Next
<1>10. CASE EndDrain
  <2>1. UNCHANGED <<arriving, fifo, taken>> /\ UNCHANGED lost /\ gap' = FALSE
    BY <1>10 DEF EndDrain, producer
  <2>2. CASE gap
    BY <2>1, <2>2, Zenon DEF Fifo!DealWith, Fifo!Next
  <2>3. CASE ~gap
    <3>1. UNCHANGED gap
      BY <2>1, <2>3, Zenon DEF QueueInv, QueueTypeOK
    <3> QED BY <2>1, <3>1 DEF Fifo!fifoVars
  <2> QED BY <2>2, <2>3
<1>11. CASE UNCHANGED queueVars
  BY <1>11 DEF queueVars, producer, consumer, Fifo!fifoVars
<1> QED
  BY <1>2, <1>3, <1>4, <1>5, <1>6, <1>7, <1>8, <1>9, <1>10, <1>11
  DEF QueueNext, Push, Drain

\* The ring implements the LossyFifo: every event put is taken once, unchanged
\* and in order, a loss happens only with Slots - 1 events waiting, and only a
\* drain that is told of it ends it.
THEOREM QueueImplementsFifo == QueueSpec => ImplementsLossyFifo
<1>1. QueueInv /\ [QueueNext]_queueVars => [Fifo!Next]_(Fifo!fifoVars)
  BY NextRefines
<1> QED
  BY <1>1, QueueInitInv, QueueNextInv, InitRefines, PTL
  DEF QueueSpec, ImplementsLossyFifo, Fifo!Spec

-----------------------------------------------------------------------------
(* The session: the inductive invariant *)

\* Phases left for Ready by a new request only
Asks == {"Disconnected", "Frozen"}

\* What the phase may be at the end of a drain that knows of a gap, if nothing
\* has been requested since it began
GapWillClose ==
  /\ gapPhase = "Ready" => phase \in {"Ready"} \cup Asks
  /\ gapPhase \in Asks => phase \in Asks

Unflagged == missed = TRUE /\ overflow = FALSE /\ pc # "Full"
GapKnown == Unflagged => (gap = TRUE /\ GapWillClose) \/ phase \in Asks

TradesWhenReady == frozen = FALSE => phase = "Ready"

DrainTypes ==
  /\ phase \in Phases /\ gapPhase \in Phases
  /\ frozen \in BOOLEAN /\ linked \in BOOLEAN
  /\ owed \in BOOLEAN /\ missed \in BOOLEAN

DrainInv == QueueInv /\ DrainTypes /\ TradesWhenReady /\ GapKnown

-----------------------------------------------------------------------------
(* Steps of the queue *)

\* A step of the session is a step of its queue.
LEMMA SessionStepsQueue ==
  ASSUME [Next]_vars
  PROVE  [QueueNext]_queueVars
<1>1. CASE Connect \/ Disconnect \/ Respond \/ ReportFill
  <2>1. \E e \in Event : Offer(e)
    BY <1>1, CallbackAssumption
    DEF Connect, Disconnect, Respond, ReportFill, Callback, Callbacks
  <2> QED BY <2>1 DEF QueueNext
<1>2. CASE PushOn
  BY <1>2 DEF PushOn, QueueNext
<1>3. CASE Account
  BY <1>3 DEF Account, StartDrain, TakeEvent, FinishDrain, QueueNext, Drain
<1>4. CASE RequestReconciliation
  BY <1>4 DEF RequestReconciliation
<1>5. CASE UNCHANGED vars
  BY <1>5 DEF vars
<1> QED BY <1>1, <1>2, <1>3, <1>4, <1>5 DEF Next

-----------------------------------------------------------------------------
(* The invariant is inductive *)

\* The invariant holds of the session that start leaves.
LEMMA DrainInitInv == Init => DrainInv
<1> SUFFICES ASSUME Init PROVE DrainInv
  OBVIOUS
<1>1. QueueInv
  BY QueueInitInv DEF Init
<1>2. frozen = TRUE /\ linked = FALSE /\ owed = FALSE /\ missed = FALSE
  BY Zenon DEF Init
<1>3. phase = "Connecting" /\ gapPhase = "Connecting"
  BY DEF Init
<1> QED
  BY <1>1, <1>2, <1>3
  DEF DrainInv, DrainTypes, TradesWhenReady, GapKnown, Unflagged, Phases

\* A callback changes what is known of a loss only when the flag is to follow.
LEMMA CallbackKnown ==
  ASSUME DrainInv, NEW e, Callback(e)
  PROVE  /\ missed' \in BOOLEAN
         /\ TradesWhenReady'
         /\ GapKnown'
<1>1. phase' = phase /\ frozen' = frozen /\ gapPhase' = gapPhase
      /\ overflow' = overflow /\ gap' = gap
  BY Zenon DEF Callback, Offer, consumer
<1>2. missed' \in BOOLEAN
  BY Zenon DEF Callback
<1>3. CASE Room(write)
  <2>1. missed' = missed
    BY <1>3, Zenon DEF Callback, DrainInv, DrainTypes
  <2>2. pc # "Full"
    BY <1>3 DEF Callback, Offer
  <2> QED
    BY <1>1, <1>2, <2>1, <2>2
    DEF DrainInv, GapKnown, GapWillClose, Unflagged, TradesWhenReady
<1>4. CASE ~Room(write)
  <2>1. pc' = "Full"
    BY <1>4 DEF Callback, Offer
  <2> QED
    BY <1>1, <1>2, <2>1 DEF DrainInv, GapKnown, Unflagged, TradesWhenReady
<1> QED BY <1>3, <1>4

\* The steps of the CTP thread keep the invariant.
LEMMA LinkInv ==
  ASSUME DrainInv, Connect \/ Disconnect \/ Respond \/ ReportFill \/ PushOn,
         QueueInv'
  PROVE  DrainInv'
<1>1. CASE Connect \/ Disconnect \/ Respond \/ ReportFill
  <2>1. PICK e : Callback(e)
    BY <1>1 DEF Connect, Disconnect, Respond, ReportFill
  <2>2. phase' = phase /\ gapPhase' = gapPhase /\ frozen' = frozen
    BY <2>1, Zenon DEF Callback
  <2>3. linked' \in BOOLEAN /\ owed' \in BOOLEAN
    BY <1>1, Zenon
    DEF Connect, Disconnect, Respond, ReportFill, DrainInv, DrainTypes
  <2>4. missed' \in BOOLEAN /\ TradesWhenReady' /\ GapKnown'
    BY <2>1, CallbackKnown
  <2> QED BY <2>2, <2>3, <2>4 DEF DrainInv, DrainTypes
<1>2. CASE PushOn
  <2>1. UNCHANGED <<phase, frozen, gapPhase, linked, owed, missed>> /\ gap' = gap
    BY <1>2, Zenon
    DEF PushOn, Push, FlagLoss, StoreEvent, Publish, consumer
  <2>2. \/ overflow' = TRUE
        \/ overflow' = overflow /\ pc # "Full"
    BY <1>2, Zenon DEF PushOn, Push, FlagLoss, StoreEvent, Publish, consumer
  <2> QED
    BY <2>1, <2>2
    DEF DrainInv, DrainTypes, GapKnown, GapWillClose, Unflagged, TradesWhenReady
<1> QED BY <1>1, <1>2

\* A request makes up for all losses, or leaves the session Frozen.
LEMMA RequestKnown ==
  ASSUME DrainInv, RequestAll
  PROVE  /\ phase' \in Phases /\ frozen' = TRUE
         /\ owed' \in BOOLEAN /\ missed' \in BOOLEAN
         /\ missed' = FALSE \/ phase' \in Asks
<1>1. CASE phase' = "Querying" /\ owed' = TRUE /\ missed' = FALSE
  BY <1>1, Zenon DEF RequestAll, Phases
<1>2. CASE phase' = "Frozen" /\ UNCHANGED <<owed, missed>>
  BY <1>2, Zenon DEF RequestAll, Phases, Asks, DrainInv, DrainTypes
<1> QED BY <1>1, <1>2 DEF RequestAll

\* A recovery that fails leaves the session Frozen.
LEMMA FailureKnown ==
  ASSUME DrainInv, RecoveryFailure
  PROVE  phase' = "Frozen" /\ frozen' = TRUE
<1>1. frozen = TRUE \/ phase # "Frozen"
  BY DEF DrainInv, DrainTypes, TradesWhenReady
<1> QED BY <1>1, Zenon DEF RecoveryFailure

\* The exchange at the start of a drain hands the loss over from the flag to
\* the drain.
LEMMA StartDrainInv ==
  ASSUME DrainInv, StartDrain, QueueInv'
  PROVE  DrainInv'
<1>1. UNCHANGED <<phase, linked, owed, missed, pc>> /\ gapPhase' = phase
      /\ overflow' = FALSE /\ gap' = overflow
  BY Zenon DEF StartDrain, BeginDrain, producer
<1>2. DrainTypes'
  <2>1. frozen' \in BOOLEAN
    BY Zenon DEF StartDrain
  <2> QED BY <1>1, <2>1 DEF DrainInv, DrainTypes
<1>3. TradesWhenReady'
  <2>1. frozen = TRUE => frozen' = TRUE
    BY Zenon DEF StartDrain
  <2> QED BY <1>1, <2>1 DEF DrainInv, DrainTypes, TradesWhenReady
<1>4. GapKnown'
  <2>1. CASE overflow = TRUE
    BY <1>1, <2>1 DEF GapKnown, GapWillClose, Asks
  <2>2. CASE overflow = FALSE
    <3>1. gap # TRUE
      BY DEF StartDrain, BeginDrain, DrainInv, QueueInv, InHand
    <3> QED BY <1>1, <2>2, <3>1 DEF DrainInv, GapKnown, Unflagged
  <2>3. overflow = TRUE \/ overflow = FALSE
    BY DEF DrainInv, QueueInv, QueueTypeOK
  <2> QED BY <2>1, <2>2, <2>3
<1> QED BY <1>2, <1>3, <1>4 DEF DrainInv

\* No event takes the session out of Ready, Disconnected or Frozen into the
\* middle of a recovery without a new request.
LEMMA TakeEventInv ==
  ASSUME DrainInv, TakeEvent, QueueInv'
  PROVE  DrainInv'
<1>1. UNCHANGED <<gapPhase, linked, overflow, pc, gap>>
  BY Zenon DEF TakeEvent, Pop, CopyEvent, Advance, producer
<1>2. CASE UNCHANGED <<phase, frozen, owed, missed>>
  BY <1>1, <1>2
  DEF DrainInv, DrainTypes, TradesWhenReady, GapKnown, GapWillClose, Unflagged
<1>3. CASE Handle(popped)
  <2>1. CASE phase' = "Disconnected" /\ frozen' = TRUE /\ NoRequest
    BY <1>1, <2>1
    DEF DrainInv, DrainTypes, TradesWhenReady, GapKnown, Unflagged, Asks,
        NoRequest, Phases
  <2>2. CASE RequestAll
    BY <1>1, <2>2, RequestKnown
    DEF DrainInv, DrainTypes, TradesWhenReady, GapKnown, Unflagged
  <2>3. CASE phase = "Querying" /\ phase' = "Ready" /\ frozen' = FALSE
             /\ NoRequest
    BY <1>1, <2>3
    DEF DrainInv, DrainTypes, TradesWhenReady, GapKnown, GapWillClose,
        Unflagged, Asks, NoRequest, Phases
  <2>4. CASE RecoveryFailure /\ NoRequest
    BY <1>1, <2>4, FailureKnown
    DEF DrainInv, DrainTypes, TradesWhenReady, GapKnown, Unflagged, Asks,
        NoRequest, Phases
  <2>5. CASE UNCHANGED <<phase, frozen>> /\ NoRequest
    BY <1>1, <1>2, <2>5 DEF NoRequest
  <2> QED BY <1>3, <2>1, <2>2, <2>3, <2>4, <2>5 DEF Handle
<1> QED BY <1>2, <1>3 DEF TakeEvent

\* The end of a drain acts on a gap in every phase that could trade again.
LEMMA FinishDrainInv ==
  ASSUME DrainInv, FinishDrain, QueueInv'
  PROVE  DrainInv'
<1>1. UNCHANGED <<gapPhase, linked, overflow, pc>> /\ gap' = FALSE
  BY Zenon DEF FinishDrain, EndDrain, producer
<1>2. CASE RecoveryFailure /\ NoRequest
  BY <1>1, <1>2, FailureKnown
  DEF DrainInv, DrainTypes, TradesWhenReady, GapKnown, Unflagged, Asks,
      NoRequest, Phases
<1>3. CASE RequestAll
  BY <1>1, <1>3, RequestKnown
  DEF DrainInv, DrainTypes, TradesWhenReady, GapKnown, Unflagged
<1>4. CASE /\ \/ ~gap
              \/ gapPhase \in {"Disconnected", "Frozen"}
              \/ gapPhase = "Ready" /\ phase # "Ready"
           /\ NoRequest
           /\ UNCHANGED <<phase, frozen>>
  <2>1. DrainTypes' /\ TradesWhenReady'
    BY <1>1, <1>4 DEF DrainInv, DrainTypes, TradesWhenReady, NoRequest
  <2>2. missed' = missed /\ phase' = phase
    BY <1>4, Zenon DEF NoRequest
  <2>3. Unflagged => phase \in Asks
    BY <1>4 DEF DrainInv, GapKnown, GapWillClose, Asks, Unflagged
  <2>4. GapKnown'
    BY <1>1, <2>2, <2>3 DEF GapKnown, Unflagged
  <2> QED BY <2>1, <2>4 DEF DrainInv
<1> QED BY <1>2, <1>3, <1>4, Zenon DEF FinishDrain, CloseGap

\* The invariant is kept by every step.
LEMMA DrainNextInv == DrainInv /\ [Next]_vars => DrainInv'
<1> SUFFICES ASSUME DrainInv, [Next]_vars PROVE DrainInv'
  OBVIOUS
<1>1. QueueInv'
  BY SessionStepsQueue, QueueNextInv DEF DrainInv
<1>2. CASE Connect \/ Disconnect \/ Respond \/ ReportFill \/ PushOn
  BY <1>1, <1>2, LinkInv
<1>3. CASE Account
  BY <1>1, <1>3, StartDrainInv, TakeEventInv, FinishDrainInv DEF Account
<1>4. CASE RequestReconciliation
  <2>1. UNCHANGED <<gapPhase, linked, overflow, pc, gap>>
    BY <1>4, Zenon DEF RequestReconciliation, queueVars, producer, consumer
  <2>2. RequestAll
    BY <1>4 DEF RequestReconciliation
  <2> QED
    BY <1>1, <2>1, <2>2, RequestKnown
    DEF DrainInv, DrainTypes, TradesWhenReady, GapKnown, Unflagged
<1>5. CASE UNCHANGED vars
  <2>1. UNCHANGED <<phase, frozen, gapPhase, linked, owed, missed,
                    overflow, pc, gap>>
    BY <1>5 DEF vars, queueVars, producer, consumer
  <2> QED
    BY <1>1, <2>1
    DEF DrainInv, DrainTypes, TradesWhenReady, GapKnown, GapWillClose, Unflagged
<1> QED BY <1>2, <1>3, <1>4, <1>5 DEF Next

-----------------------------------------------------------------------------
(* Theorems *)

\* The inductive invariant always holds.
THEOREM AlwaysDrainInv == Spec => []DrainInv
  BY DrainInitInv, DrainNextInv, PTL DEF Spec

\* The session keeps its types.
THEOREM DrainTypeCorrect == Spec => []TypeOK
<1>1. DrainInv => TypeOK
  BY DEF DrainInv, DrainTypes, QueueInv, TypeOK
<1> QED BY <1>1, AlwaysDrainInv, PTL

\* README.md:51, for a queue of any size: an account that may trade has asked
\* for everything it missed, but for a callback about to raise the flag.
THEOREM NoTradeOverAGap == Spec => []TradesWithoutGaps
<1>1. DrainInv => TradesWithoutGaps
  <2> SUFFICES ASSUME DrainInv, MayTrade, missed, pc # "Full" PROVE FALSE
    BY DEF TradesWithoutGaps
  <2>1. frozen = FALSE /\ overflow = FALSE /\ missed = TRUE
    BY Zenon DEF MayTrade, DrainInv, DrainTypes, QueueInv, QueueTypeOK
  <2>2. gap # TRUE
    BY DEF MayTrade, DrainInv, QueueInv, InHand
  <2>3. phase \in Asks
    BY <2>1, <2>2 DEF DrainInv, GapKnown, Unflagged
  <2>4. phase = "Ready"
    BY <2>1 DEF DrainInv, TradesWhenReady
  <2> QED BY <2>3, <2>4 DEF Asks
<1> QED BY <1>1, AlwaysDrainInv, PTL
=============================================================================
