----------------------------- MODULE JournalProofs -----------------------------
(***************************************************************************)
(* For every capacity, reserve and number of events and of flushes: the    *)
(* journal keeps its invariants and implements TraceLog.                   *)
(*                                                                         *)
(* The argument: what was recorded lies, in order, in the stream, the      *)
(* writer's hand and the queue, without a gap while the stream has not     *)
(* failed; numbers grow along it, so that a number written or flushed      *)
(* stands for all events before it. Behind the first Capacity - Reserve    *)
(* places of the queue there are critical events only.                     *)
(***************************************************************************)
EXTENDS Journal, TLAPS, SequenceTheorems

Entries ==
  [seq : Nat \ {0}, kind : {"Best", "Critical", "CleanStop"}, code : Nat]

JTypes ==
  /\ sequence \in 0 .. MaxEvents
  /\ account \in {"Free", "Pushed", "Full", "Marked", "Join", "Stopped"}
  /\ queue \in Seq(Entries) /\ log \in Seq(Entries)
  /\ lost \in Nat /\ running \in BOOLEAN /\ largest \in Nat
  /\ writer \in {"Running", "Depth", "Take", "Write", "Request", "Flush", "End",
                 "Ended"}
  /\ held \in Seq(Entries) /\ Len(held) = (IF writer = "Write" THEN 1 ELSE 0)
  /\ written \in Nat /\ requested \in Nat /\ flushed \in Nat /\ failed \in BOOLEAN
  /\ request \in Nat /\ target \in Nat /\ calls \in Nat /\ owed \in Nat
  /\ control \in {"Free", "Largest", "Request", "Flushed", "Failed"}
  /\ result \in {"None", "True", "False"}
  /\ stream \in Seq(Entries) /\ durable \in Nat /\ bad \in BOOLEAN

\* The number of the nth event, 0 before the first
Number(n) == IF n = 0 THEN 0 ELSE log[n].seq

\* How many events the writer has taken out of the queue
Out == Len(log) - Len(queue)

\* The numbers of the events grow, and only the mark is not one of them.
LogInv ==
  /\ 0 <= Taken /\ largest = Number(Taken) /\ largest <= sequence
  /\ account = "Pushed" => Number(Len(log)) = sequence
  /\ \A i \in 1 .. Len(log) : account \in {"Free", "Pushed", "Full"} => log[i] \in Events
  /\ \A i, j \in 1 .. Len(log) : i < j => log[i].seq < log[j].seq
  /\ running <=> account \notin {"Join", "Stopped"}

\* The queue is the end of the log, critical behind its first places.
QueueInv ==
  /\ Len(queue) <= Len(log) /\ Len(queue) <= Capacity
  /\ \A i \in 1 .. Len(queue) : queue[i] = log[Out + i]
  /\ \A i \in 1 .. Len(queue) :
       account \in {"Free", "Pushed", "Full"} /\ i > Capacity - Reserve
         => queue[i].kind = "Critical"

\* The file is a beginning of the log, of all that was written unless it failed.
FileInv ==
  /\ Len(stream) + Len(held) <= Out
  /\ ~bad => Len(stream) + Len(held) = Out
  /\ \A i \in 1 .. Len(stream) : stream[i] = log[i]
  /\ \A i \in 1 .. Len(held) : held[i] = log[Out]
  /\ written = Number(Out - Len(held))
  /\ durable <= Len(stream)

\* The writer ends after the last push, with an empty queue.
WriterInv ==
  /\ writer = "Depth" => ~running
  /\ writer \in {"End", "Ended"} => ~running /\ Len(queue) = 0
  /\ writer = "Ended" /\ ~bad => durable = Len(stream)
  /\ account = "Stopped" => writer = "Ended"

\* A number flushed stands for events that were handed to the kernel.
FlushInv ==
  /\ writer = "Flush" => requested <= written
  /\ flushed <= written
  /\ \A i \in 1 .. Len(log) : log[i].seq <= flushed => i <= durable
  /\ owed <= Taken
  /\ control \in {"Request", "Flushed", "Failed"} => Number(owed) <= target
  /\ FlushIsABarrier

JInv ==
  /\ JTypes /\ LogInv /\ QueueInv /\ FileInv /\ WriterInv /\ FlushInv
  /\ CriticalHaveRoom

USE JournalAssumption

LEMMA JInit == Init => JInv
<1> SUFFICES ASSUME Init PROVE JInv
  OBVIOUS
<1> USE DEF Init
<1>0. <<>> \in Seq(Entries) /\ Len(<<>>) = 0
  BY EmptySeq
<1>1. JTypes
  <2>1. queue \in Seq(Entries) /\ log \in Seq(Entries) /\ held \in Seq(Entries)
        /\ stream \in Seq(Entries)
    BY <1>0
  <2>2. running \in BOOLEAN /\ failed \in BOOLEAN /\ bad \in BOOLEAN
    OBVIOUS
  <2>3. Len(held) = (IF writer = "Write" THEN 1 ELSE 0)
    BY <1>0
  <2>4. account \in {"Free", "Pushed", "Full", "Marked", "Join", "Stopped"}
    OBVIOUS
  <2>5. writer \in {"Running", "Depth", "Take", "Write", "Request", "Flush", "End",
                    "Ended"}
    OBVIOUS
  <2>6. control \in {"Free", "Largest", "Request", "Flushed", "Failed"}
        /\ result \in {"None", "True", "False"}
    OBVIOUS
  <2>7. sequence \in 0 .. MaxEvents
    OBVIOUS
  <2> QED
    BY <2>1, <2>2, <2>3, <2>4, <2>5, <2>6, <2>7 DEF JTypes
<1>2. LogInv
  BY DEF LogInv, Taken, Number
<1>3. QueueInv
  BY <1>0 DEF QueueInv, Out
<1>8. FileInv
  <2>1. Out = 0 /\ Len(held) = 0 /\ Len(stream) = 0
    BY <1>0 DEF Out
  <2>2. written = 0 /\ durable = 0
    OBVIOUS
  <2> HIDE DEF Init
  <2> QED
    BY <2>1, <2>2 DEF FileInv, Number
<1>4. WriterInv
  BY DEF WriterInv
<1>5. FlushInv
  BY DEF FlushInv, Taken, Number, FlushIsABarrier
<1>6. CriticalHaveRoom
  BY DEF CriticalHaveRoom
<1> QED
  BY <1>1, <1>2, <1>3, <1>4, <1>5, <1>6, <1>8 DEF JInv

\* An event is appended to the log and the queue by the account thread.
LEMMA PushKeeps ==
  ASSUME JInv, NEW e \in Entries,
         queue' = Append(queue, e), log' = Append(log, e),
         Len(queue) < Capacity, account \in {"Free", "Full"},
         e.seq > largest
  PROVE  /\ queue' \in Seq(Entries) /\ log' \in Seq(Entries)
         /\ Len(log') = Len(log) + 1 /\ Len(queue') = Len(queue) + 1
         /\ log'[Len(log')] = e /\ queue'[Len(queue')] = e
         /\ \A i \in 1 .. Len(log) : log'[i] = log[i]
         /\ \A i \in 1 .. Len(queue) : queue'[i] = queue[i]
         /\ \A i, j \in 1 .. Len(log') : i < j => log'[i].seq < log'[j].seq
         /\ Len(queue') <= Capacity
         /\ \A i \in 1 .. Len(queue') : queue'[i] = log'[Out' + i]
         /\ Out' = Out
         /\ \A n \in 0 .. Len(log) : Number(n)' = Number(n)
<1>1. /\ queue' \in Seq(Entries) /\ log' \in Seq(Entries)
      /\ Len(log') = Len(log) + 1 /\ Len(queue') = Len(queue) + 1
      /\ log'[Len(log')] = e /\ queue'[Len(queue')] = e
      /\ \A i \in 1 .. Len(log) : log'[i] = log[i]
      /\ \A i \in 1 .. Len(queue) : queue'[i] = queue[i]
  BY DEF JInv, JTypes
<1>2. Out' = Out
  BY <1>1 DEF Out, JInv, JTypes
<1>3. \A n \in 0 .. Len(log) : Number(n)' = Number(n)
  BY <1>1 DEF Number, JInv, JTypes
<1>4. \A i \in 1 .. Len(queue') : queue'[i] = log'[Out' + i]
  <2> SUFFICES ASSUME NEW i \in 1 .. Len(queue') PROVE queue'[i] = log'[Out' + i]
    OBVIOUS
  <2>1. Len(queue) \in Nat /\ Len(log) \in Nat /\ Len(queue) <= Len(log)
    BY DEF JInv, JTypes, QueueInv
  <2>2. CASE i = Len(queue')
    <3>1. Out' + i = Len(log')
      BY <1>1, <1>2, <2>1, <2>2 DEF Out
    <3> QED
      BY <1>1, <2>2, <3>1
  <2>3. CASE i \in 1 .. Len(queue)
    <3>1. Out + i \in 1 .. Len(log)
      BY <2>1, <2>3 DEF Out
    <3>2. queue[i] = log[Out + i]
      BY <2>3 DEF JInv, QueueInv
    <3> QED
      BY <1>1, <1>2, <2>3, <3>1, <3>2
  <2>4. i = Len(queue') \/ i \in 1 .. Len(queue)
    <3> HIDE DEF JInv
    <3> QED
      BY <1>1, <2>1
  <2> QED
    BY <2>2, <2>3, <2>4
<1>5. \A i \in 1 .. Len(log) : log[i].seq < e.seq
  <2>1. largest = Number(Len(log))
    BY DEF JInv, LogInv, Taken
  <2>2. \A i \in 1 .. Len(log) : log[i] \in Entries
    BY DEF JInv, JTypes
  <2>3. Len(log) \in Nat /\ e.seq \in Nat /\ \A i \in 1 .. Len(log) : log[i].seq \in Nat
    BY <2>2 DEF Entries, JInv, JTypes
  <2> SUFFICES ASSUME NEW i \in 1 .. Len(log) PROVE log[i].seq < e.seq
    OBVIOUS
  <2>4. largest = log[Len(log)].seq
    BY <2>1, <2>3 DEF Number
  <2>5. i = Len(log) \/ log[i].seq < log[Len(log)].seq
    BY <2>3 DEF JInv, LogInv
  <2>6. Len(log) \in 1 .. Len(log)
    BY <2>3
  <2> QED
    BY <2>3, <2>4, <2>5, <2>6
<1>6. \A i, j \in 1 .. Len(log') : i < j => log'[i].seq < log'[j].seq
  <2> SUFFICES ASSUME NEW i \in 1 .. Len(log'), NEW j \in 1 .. Len(log'), i < j
               PROVE  log'[i].seq < log'[j].seq
    OBVIOUS
  <2>1. Len(log) \in Nat /\ i \in 1 .. Len(log)
    BY <1>1 DEF JInv, JTypes
  <2>2. CASE j = Len(log')
    BY <1>1, <1>5, <2>1, <2>2
  <2>3. CASE j \in 1 .. Len(log)
    BY <1>1, <2>1, <2>3 DEF JInv, LogInv
  <2> QED
    BY <1>1, <2>1, <2>2, <2>3
<1>7. Len(queue') <= Capacity
  BY <1>1 DEF JInv, JTypes
<1> QED
  BY <1>1, <1>2, <1>3, <1>4, <1>6, <1>7

LEMMA OneEntry ==
  ASSUME NEW x \in Entries
  PROVE  <<x>> \in Seq(Entries) /\ Len(<<x>>) = 1 /\ <<x>>[1] = x
  OBVIOUS

LEMMA OneMore ==
  ASSUME NEW t \in Seq(Entries), NEW h \in Seq(Entries), Len(h) = 1
  PROVE  /\ Len(t \o h) = Len(t) + 1
         /\ \A i \in 1 .. Len(t) : (t \o h)[i] = t[i]
         /\ (t \o h)[Len(t) + 1] = h[1]
<1>1. Len(t) \in Nat
  OBVIOUS
<1>2. Len(t \o h) = Len(t) + Len(h)
  BY ConcatProperties, Zenon
<1>3. \A i \in 1 .. Len(t) + Len(h) :
        (t \o h)[i] = IF i <= Len(t) THEN t[i] ELSE h[i - Len(t)]
  BY ConcatProperties, Zenon
<1>4. Len(t) + 1 \in 1 .. Len(t) + Len(h) /\ (Len(t) + 1) - Len(t) = 1
  BY <1>1
<1>5. (t \o h)[Len(t) + 1] = h[1]
  BY <1>1, <1>3, <1>4
<1>6. \A i \in 1 .. Len(t) : (t \o h)[i] = t[i]
  BY <1>1, <1>3
<1> QED
  BY <1>2, <1>5, <1>6

\* The numbers of the events grow from 0.
LEMMA Numbers ==
  ASSUME JInv
  PROVE  /\ \A n \in 0 .. Len(log) : Number(n) \in Nat /\ (Number(n) = 0 => n = 0)
         /\ \A m, n \in 0 .. Len(log) : m <= n => Number(m) <= Number(n)
<1>1. \A i \in 1 .. Len(log) : log[i] \in Entries
  BY DEF JInv, JTypes
<1>2. \A i \in 1 .. Len(log) : log[i].seq \in Nat /\ log[i].seq # 0
  BY <1>1 DEF Entries
<1>3. \A i, j \in 1 .. Len(log) : i < j => log[i].seq < log[j].seq
  BY DEF JInv, LogInv
<1>4. Len(log) \in Nat
  BY DEF JInv, JTypes
<1> QED
  BY <1>2, <1>3, <1>4 DEF Number

LEMMA PublishKeeps == ASSUME JInv, PublishSequence PROVE JInv'
<1> USE DEF PublishSequence, recording, writing, flushing, file, JInv
<1>1. JTypes'
  BY DEF JTypes
<1>2. LogInv'
  BY DEF LogInv, JTypes, Taken, Number
<1>3. QueueInv'
  BY DEF QueueInv, JTypes, Out
<1>4. FileInv'
  BY DEF FileInv, JTypes, Out, Number
<1>5. WriterInv'
  BY DEF WriterInv, JTypes
<1>6. FlushInv'
  BY DEF FlushInv, JTypes, Taken, Number, FlushIsABarrier
<1>7. CriticalHaveRoom'
  BY DEF CriticalHaveRoom
<1> QED
  BY <1>1, <1>2, <1>3, <1>4, <1>5, <1>6, <1>7

LEMMA StopKeeps == ASSUME JInv, Stop PROVE JInv'
<1> USE DEF Stop, recording, writing, flushing, file, JInv
<1>1. JTypes'
  BY DEF JTypes
<1>2. LogInv'
  BY DEF LogInv, JTypes, Taken, Number
<1>3. QueueInv'
  BY DEF QueueInv, JTypes, Out
<1>4. FileInv'
  BY DEF FileInv, JTypes, Out, Number
<1>5. WriterInv'
  BY DEF WriterInv, JTypes
<1>6. FlushInv'
  BY DEF FlushInv, JTypes, Taken, Number, FlushIsABarrier
<1>7. CriticalHaveRoom'
  BY DEF CriticalHaveRoom
<1> QED
  BY <1>1, <1>2, <1>3, <1>4, <1>5, <1>6, <1>7

LEMMA EndRunningKeeps == ASSUME JInv, EndRunning PROVE JInv'
<1> USE DEF EndRunning, recording, writing, flushing, file, JInv
<1>1. JTypes'
  BY DEF JTypes
<1>2. LogInv'
  BY DEF LogInv, JTypes, Taken, Number
<1>3. QueueInv'
  BY DEF QueueInv, JTypes, Out
<1>4. FileInv'
  BY DEF FileInv, JTypes, Out, Number
<1>5. WriterInv'
  BY DEF WriterInv, JTypes
<1>6. FlushInv'
  BY DEF FlushInv, JTypes, Taken, Number, FlushIsABarrier
<1>7. CriticalHaveRoom'
  BY DEF CriticalHaveRoom
<1> QED
  BY <1>1, <1>2, <1>3, <1>4, <1>5, <1>6, <1>7

LEMMA JoinedKeeps == ASSUME JInv, Joined PROVE JInv'
<1> USE DEF Joined, recording, writing, flushing, file, JInv
<1>1. JTypes'
  BY DEF JTypes
<1>2. LogInv'
  BY DEF LogInv, JTypes, Taken, Number
<1>3. QueueInv'
  BY DEF QueueInv, JTypes, Out
<1>4. FileInv'
  BY DEF FileInv, JTypes, Out, Number
<1>5. WriterInv'
  BY DEF WriterInv, JTypes
<1>6. FlushInv'
  BY DEF FlushInv, JTypes, Taken, Number, FlushIsABarrier
<1>7. CriticalHaveRoom'
  BY DEF CriticalHaveRoom
<1> QED
  BY <1>1, <1>2, <1>3, <1>4, <1>5, <1>6, <1>7

LEMMA LookKeeps == ASSUME JInv, Look PROVE JInv'
<1> USE DEF Look, LookAgain, recording, writing, flushing, file, JInv
<1>1. JTypes'
  BY DEF JTypes
<1>2. LogInv'
  BY DEF LogInv, JTypes, Taken, Number
<1>3. QueueInv'
  BY DEF QueueInv, JTypes, Out
<1>4. FileInv'
  BY DEF FileInv, JTypes, Out, Number
<1>5. WriterInv'
  BY DEF WriterInv, JTypes
<1>6. FlushInv'
  BY DEF FlushInv, JTypes, Taken, Number, FlushIsABarrier
<1>7. CriticalHaveRoom'
  BY DEF CriticalHaveRoom
<1> QED
  BY <1>1, <1>2, <1>3, <1>4, <1>5, <1>6, <1>7

LEMMA TakeKeeps == ASSUME JInv, Take PROVE JInv'
<1> USE DEF Take, recording, writing, flushing, file, JInv
<1>1. JTypes'
  <2>1. CASE queue = <<>>
    BY <2>1 DEF JTypes
  <2>2. CASE queue # <<>>
    <3>1. Head(queue) \in Entries /\ Tail(queue) \in Seq(Entries)
      BY <2>2 DEF JTypes
    <3>2. held' \in Seq(Entries) /\ Len(held') = 1
      <4>1. held' = <<Head(queue)>>
        BY <2>2
      <4> QED
        BY <3>1, <4>1, OneEntry
    <3> QED
      BY <2>2, <3>1, <3>2 DEF JTypes
  <2> QED
    BY <2>1, <2>2
<1>2. LogInv'
  BY DEF LogInv, JTypes, Taken, Number
<1>3. QueueInv'
  <2>1. CASE queue = <<>>
    BY <2>1 DEF QueueInv, JTypes, Out
  <2>2. CASE queue # <<>>
    <3>1. /\ Len(queue') = Len(queue) - 1 /\ Len(queue) > 0
          /\ \A i \in 1 .. Len(queue') : queue'[i] = queue[i + 1]
      BY <2>2 DEF JTypes
    <3>2. Len(queue) \in Nat /\ Len(log) \in Nat
      BY DEF JTypes
    <3>3. \A i \in 1 .. Len(queue') : queue'[i] = log[Out' + i]
      <4> SUFFICES ASSUME NEW i \in 1 .. Len(queue') PROVE queue'[i] = log[Out' + i]
        OBVIOUS
      <4>1. i + 1 \in 1 .. Len(queue) /\ Out' + i = Out + (i + 1)
        BY <3>1, <3>2 DEF Out
      <4> QED
        BY <3>1, <4>1 DEF QueueInv
    <3>4. \A i \in 1 .. Len(queue') :
            account \in {"Free", "Pushed", "Full"} /\ i > Capacity - Reserve
              => queue'[i].kind = "Critical"
      BY <3>1, <3>2 DEF QueueInv
    <3> QED
      BY <3>1, <3>2, <3>3, <3>4 DEF QueueInv
  <2> QED
    BY <2>1, <2>2
<1>4. FileInv'
  <2>1. CASE queue = <<>>
    BY <2>1 DEF FileInv, JTypes, Out, Number
  <2>2. CASE queue # <<>>
    <3>1. /\ Len(queue') = Len(queue) - 1 /\ Len(queue) > 0
          /\ held' = <<queue[1]>> /\ Len(held') = 1 /\ Len(held) = 0
      BY <2>2 DEF JTypes
    <3>2. Len(queue) \in Nat /\ Len(log) \in Nat /\ Len(stream) \in Nat
      BY DEF JTypes
    <3>3. Out' = Out + 1 /\ queue[1] = log[Out + 1]
      BY <3>1, <3>2 DEF Out, QueueInv
    <3>4. held'[1] = log[Out']
      BY <3>1, <3>3
    <3>5. Out' - Len(held') = Out - Len(held) /\ Out \in Int
      BY <3>1, <3>2, <3>3 DEF Out
    <3>6. written' = Number(Out - Len(held)) /\ Number(Out - Len(held))' = Number(Out' - Len(held'))
      BY DEF FileInv, Number
    <3>7. Number(Out' - Len(held')) = Number(Out - Len(held))
      BY <3>5
    <3> QED
      BY <2>2, <3>1, <3>2, <3>3, <3>4, <3>5, <3>6, <3>7 DEF FileInv, Number
  <2> QED
    BY <2>1, <2>2
<1>5. WriterInv'
  BY DEF WriterInv, JTypes
<1>6. FlushInv'
  BY DEF FlushInv, JTypes, Taken, Number, FlushIsABarrier
<1>7. CriticalHaveRoom'
  BY DEF CriticalHaveRoom
<1> QED
  BY <1>1, <1>2, <1>3, <1>4, <1>5, <1>6, <1>7

LEMMA WriteKeeps == ASSUME JInv, Write PROVE JInv'
<1> USE DEF Write, recording, writing, flushing, file, JInv
<1>1. JTypes'
  <2>1. held' = <<>> /\ Len(held') = 0 /\ held' \in Seq(Entries)
    BY EmptySeq
  <2>2. held[1].seq \in Nat
    <3>1. held[1] \in Entries
      <4>1. held \in Seq(Entries) /\ Len(held) = 1
        BY DEF JTypes
      <4> HIDE DEF JInv, Write
      <4> QED
        BY <4>1
    <3> HIDE DEF JInv, Write
    <3> QED
      BY <3>1 DEF Entries
  <2>3. stream' \in Seq(Entries)
    BY ConcatProperties DEF JTypes
  <2>4. bad' \in BOOLEAN
    BY DEF JTypes
  <2> QED
    BY <2>1, <2>2, <2>3, <2>4 DEF JTypes
<1>2. LogInv'
  BY DEF LogInv, JTypes, Taken, Number
<1>3. QueueInv'
  BY DEF QueueInv, JTypes, Out
<1>4. FileInv'
  <2>1. /\ Len(held) = 1 /\ Len(held') = 0 /\ Len(stream) \in Nat
        /\ Len(log) \in Nat /\ Len(queue) \in Nat /\ Len(queue) <= Len(log)
    BY EmptySeq DEF JTypes, QueueInv
  <2>2. Out' = Out /\ Out \in Nat /\ Out >= 1 /\ held[1] = log[Out]
    BY <2>1 DEF Out, FileInv
  <2>3. written' = Number(Out) /\ Number(Out)' = Number(Out)
    BY <2>2 DEF Number
  <2>4. CASE bad'
    <3>1. stream' = stream
      BY <2>4
    <3> QED
      BY <2>1, <2>2, <2>3, <2>4, <3>1 DEF FileInv, Number
  <2>5. CASE ~bad'
    <3>1. stream' = stream \o held /\ ~bad
      BY <2>5
    <3>2. /\ Len(stream') = Len(stream) + 1
          /\ \A i \in 1 .. Len(stream) : stream'[i] = stream[i]
          /\ stream'[Len(stream) + 1] = held[1]
      <4>1. stream \in Seq(Entries) /\ held \in Seq(Entries)
        BY DEF JTypes
      <4> HIDE DEF JInv, Write
      <4> QED
        BY <2>1, <3>1, <4>1, OneMore
    <3>3. Len(stream) + 1 = Out
      BY <2>1, <3>1 DEF FileInv
    <3>4. \A i \in 1 .. Len(stream') : stream'[i] = log[i]
      BY <2>1, <2>2, <3>2, <3>3 DEF FileInv
    <3>5. durable' <= Len(stream')
      BY <2>1, <3>2 DEF FileInv, JTypes
    <3> QED
      BY <2>1, <2>2, <2>3, <2>5, <3>2, <3>3, <3>4, <3>5 DEF FileInv, Number
  <2> QED
    BY <2>4, <2>5
<1>5. WriterInv'
  BY DEF WriterInv, JTypes
<1>6. FlushInv'
  <2>1. /\ Len(held) = 1 /\ Len(queue) <= Len(log) /\ Len(queue) \in Nat
        /\ Len(log) \in Nat /\ Len(stream) \in Nat
    BY DEF JTypes, QueueInv
  <2>2. Out \in 1 .. Len(log) /\ written' = log[Out].seq
    BY <2>1 DEF Out, FileInv
  <2>4. log[Out].seq \in Nat /\ written <= log[Out].seq
    <3>1. written = Number(Out - 1) /\ Number(Out) = log[Out].seq
      BY <2>1, <2>2 DEF FileInv, Number
    <3>2. Out - 1 \in 0 .. Len(log) /\ Out \in 0 .. Len(log) /\ Out - 1 <= Out
      BY <2>1, <2>2
    <3> QED
      BY <3>1, <3>2, Numbers
  <2>5. flushed <= written' /\ written' \in Nat
    BY <2>2, <2>4 DEF FlushInv, JTypes
  <2> QED
    BY <2>5 DEF FlushInv, JTypes, Taken, Number, FlushIsABarrier
<1>7. CriticalHaveRoom'
  BY DEF CriticalHaveRoom
<1> QED
  BY <1>1, <1>2, <1>3, <1>4, <1>5, <1>6, <1>7

LEMMA LookForRequestKeeps == ASSUME JInv, LookForRequest PROVE JInv'
<1> USE DEF LookForRequest, Due, recording, writing, flushing, file, JInv
<1>1. JTypes'
  BY DEF JTypes
<1>2. LogInv'
  BY DEF LogInv, JTypes, Taken, Number
<1>3. QueueInv'
  BY DEF QueueInv, JTypes, Out
<1>4. FileInv'
  BY DEF FileInv, JTypes, Out, Number
<1>5. WriterInv'
  BY DEF WriterInv, JTypes
<1>6. FlushInv'
  BY DEF FlushInv, JTypes, Taken, Number, FlushIsABarrier
<1>7. CriticalHaveRoom'
  BY DEF CriticalHaveRoom
<1> QED
  BY <1>1, <1>2, <1>3, <1>4, <1>5, <1>6, <1>7

LEMMA FlushKeeps == ASSUME JInv, Flush PROVE JInv'
<1> USE DEF Flush, FlushStream, recording, writing, flushing, file, JInv
<1>1. JTypes'
  <2>1. durable' \in Nat /\ flushed' \in Nat
    BY DEF JTypes
  <2>2. bad' \in BOOLEAN /\ failed' \in BOOLEAN
    BY Zenon DEF JTypes
  <2> QED
    BY <2>1, <2>2 DEF JTypes
<1>2. LogInv'
  BY DEF LogInv, JTypes, Taken, Number
<1>3. QueueInv'
  BY DEF QueueInv, JTypes, Out
<1>4. FileInv'
  BY DEF FileInv, JTypes, Out, Number
<1>5. WriterInv'
  BY DEF WriterInv, JTypes
<1>6. FlushInv'
  <2>1. durable' >= durable /\ durable' \in Nat /\ durable \in Nat
    BY DEF FileInv, JTypes
  <2>2. flushed' <= written
    BY DEF FlushInv, JTypes
  <2>3. \A i \in 1 .. Len(log) : log[i].seq <= flushed' => i <= durable'
    <3>1. CASE bad'
      BY <2>1, <3>1 DEF FlushInv, JTypes
    <3>2. CASE ~bad'
      <4> SUFFICES ASSUME NEW i \in 1 .. Len(log), log[i].seq <= requested
                   PROVE  i <= Len(stream)
        BY <3>2
      <4>1. ~bad /\ Len(held) = 0 /\ Len(log) \in Nat /\ Len(queue) \in Nat
        BY <3>2 DEF JTypes
      <4>2. Len(stream) = Out /\ written = Number(Out) /\ Out \in 0 .. Len(log)
        BY <4>1 DEF FileInv, JTypes, Out, QueueInv
      <4>3. requested <= written /\ requested \in Nat
        BY DEF FlushInv, JTypes
      <4>4. Number(i) = log[i].seq /\ i \in 0 .. Len(log)
        BY <4>1 DEF Number
      <4>5. Number(i) <= Number(Out) /\ Number(i) \in Nat
        BY <4>2, <4>3, <4>4, Numbers
      <4>6. CASE i > Out
        <5>1. Number(Out) < Number(i)
          BY <4>2, <4>4, <4>6, Numbers DEF Number, LogInv
        <5> QED
          BY <4>2, <4>5, <5>1, Numbers
      <4> QED
        BY <4>1, <4>2, <4>6
    <3> QED
      BY <3>1, <3>2
  <2>4. FlushIsABarrier'
    BY <2>1 DEF FlushInv, FlushIsABarrier, JTypes
  <2> QED
    BY <2>2, <2>3, <2>4 DEF FlushInv, Taken, Number
<1>7. CriticalHaveRoom'
  BY DEF CriticalHaveRoom
<1> QED
  BY <1>1, <1>2, <1>3, <1>4, <1>5, <1>6, <1>7

LEMMA EndKeeps == ASSUME JInv, End PROVE JInv'
<1> USE DEF End, FlushStream, recording, writing, flushing, file, JInv
<1>1. JTypes'
  <2>1. durable' \in Nat
    BY DEF JTypes
  <2>2. bad' \in BOOLEAN
    OBVIOUS
  <2> QED
    BY <2>1, <2>2 DEF JTypes
<1>2. LogInv'
  BY DEF LogInv, JTypes, Taken, Number
<1>3. QueueInv'
  BY DEF QueueInv, JTypes, Out
<1>4. FileInv'
  BY DEF FileInv, JTypes, Out, Number
<1>5. WriterInv'
  BY DEF WriterInv, JTypes
<1>6. FlushInv'
  <2>1. durable' >= durable /\ durable' <= Len(stream) /\ durable' \in Nat
    BY DEF FileInv, JTypes
  <2>2. \A i \in 1 .. Len(log) : log[i].seq <= flushed => i <= durable'
    BY <2>1 DEF FlushInv, JTypes
  <2>3. FlushIsABarrier'
    BY <2>1 DEF FlushInv, FlushIsABarrier, JTypes
  <2> QED
    BY <2>2, <2>3 DEF FlushInv, Taken, Number
<1>7. CriticalHaveRoom'
  BY DEF CriticalHaveRoom
<1> QED
  BY <1>1, <1>2, <1>3, <1>4, <1>5, <1>6, <1>7

LEMMA SpillKeeps == ASSUME JInv, Spill PROVE JInv'
<1> USE DEF Spill, recording, writing, flushing, file, JInv
<1>1. JTypes'
  BY DEF JTypes
<1>2. LogInv'
  BY DEF LogInv, JTypes, Taken, Number
<1>3. QueueInv'
  BY DEF QueueInv, JTypes, Out
<1>4. FileInv'
  <2>1. durable' <= Len(stream)
    BY DEF JTypes
  <2> QED
    BY <2>1 DEF FileInv, Out, Number
<1>5. WriterInv'
  BY DEF WriterInv, JTypes
<1>6. FlushInv'
  BY DEF FlushInv, JTypes, Taken, Number, FlushIsABarrier
<1>7. CriticalHaveRoom'
  BY DEF CriticalHaveRoom
<1> QED
  BY <1>1, <1>2, <1>3, <1>4, <1>5, <1>6, <1>7

LEMMA CallFlushKeeps == ASSUME JInv, CallFlush PROVE JInv'
<1> USE DEF CallFlush, Return, recording, writing, flushing, file, JInv
<1>1. JTypes'
  <2>1. Taken \in Nat
    BY DEF LogInv, JTypes, Taken
  <2> QED
    BY <2>1 DEF JTypes
<1>2. LogInv'
  BY DEF LogInv, JTypes, Taken, Number
<1>3. QueueInv'
  BY DEF QueueInv, JTypes, Out
<1>4. FileInv'
  BY DEF FileInv, JTypes, Out, Number
<1>5. WriterInv'
  BY DEF WriterInv, JTypes
<1>6. FlushInv'
  BY DEF FlushInv, JTypes, Taken, Number, FlushIsABarrier
<1>7. CriticalHaveRoom'
  BY DEF CriticalHaveRoom
<1> QED
  BY <1>1, <1>2, <1>3, <1>4, <1>5, <1>6, <1>7

LEMMA ReadLargestKeeps == ASSUME JInv, ReadLargest PROVE JInv'
<1> USE DEF ReadLargest, Return, recording, writing, flushing, file, JInv
<1>1. JTypes'
  BY DEF JTypes
<1>2. LogInv'
  BY DEF LogInv, JTypes, Taken, Number
<1>3. QueueInv'
  BY DEF QueueInv, JTypes, Out
<1>4. FileInv'
  BY DEF FileInv, JTypes, Out, Number
<1>5. WriterInv'
  BY DEF WriterInv, JTypes
<1>6. FlushInv'
  <2>0. largest = Number(Taken) /\ owed <= Taken /\ Taken \in 0 .. Len(log) /\ owed \in 0 .. Len(log)
    BY DEF LogInv, FlushInv, JTypes, Taken
  <2>1. Number(owed) <= largest
    BY <2>0, Numbers
  <2>2. largest = 0 => owed = 0
    <3>1. Number(owed) \in Nat /\ (Number(owed) = 0 => owed = 0)
      BY <2>0, Numbers
    <3> QED
      BY <2>1, <3>1
  <2>3. FlushIsABarrier'
    BY <2>2 DEF FlushInv, FlushIsABarrier, JTypes
  <2> QED
    BY <2>1, <2>3 DEF FlushInv, Taken, Number
<1>7. CriticalHaveRoom'
  BY DEF CriticalHaveRoom
<1> QED
  BY <1>1, <1>2, <1>3, <1>4, <1>5, <1>6, <1>7

LEMMA StoreRequestKeeps == ASSUME JInv, StoreRequest PROVE JInv'
<1> USE DEF StoreRequest, recording, writing, flushing, file, JInv
<1>1. JTypes'
  BY DEF JTypes
<1>2. LogInv'
  BY DEF LogInv, JTypes, Taken, Number
<1>3. QueueInv'
  BY DEF QueueInv, JTypes, Out
<1>4. FileInv'
  BY DEF FileInv, JTypes, Out, Number
<1>5. WriterInv'
  BY DEF WriterInv, JTypes
<1>6. FlushInv'
  BY DEF FlushInv, JTypes, Taken, Number, FlushIsABarrier
<1>7. CriticalHaveRoom'
  BY DEF CriticalHaveRoom
<1> QED
  BY <1>1, <1>2, <1>3, <1>4, <1>5, <1>6, <1>7

LEMMA WaitKeeps == ASSUME JInv, Wait PROVE JInv'
<1> USE DEF Wait, Return, recording, writing, flushing, file, JInv
<1>1. JTypes'
  BY DEF JTypes
<1>2. LogInv'
  BY DEF LogInv, JTypes, Taken, Number
<1>3. QueueInv'
  BY DEF QueueInv, JTypes, Out
<1>4. FileInv'
  BY DEF FileInv, JTypes, Out, Number
<1>5. WriterInv'
  BY DEF WriterInv, JTypes
<1>6. FlushInv'
  <2>1. flushed >= target /\ control = "Flushed" => durable >= owed
    <3> SUFFICES ASSUME flushed >= target, control = "Flushed", owed # 0
                 PROVE  durable >= owed
      BY DEF JTypes
    <3>1. owed \in 1 .. Len(log) /\ log[owed].seq <= target
      BY DEF FlushInv, LogInv, JTypes, Taken, Number
    <3>2. log[owed].seq <= flushed
      <4>1. Number(owed) = log[owed].seq /\ owed \in 0 .. Len(log)
        BY <3>1 DEF Number
      <4>2. log[owed].seq \in Nat
        BY <4>1, Numbers
      <4> QED
        BY <3>1, <4>2 DEF JTypes
    <3> QED
      BY <3>1, <3>2 DEF FlushInv, JTypes
  <2>2. FlushIsABarrier'
    BY <2>1 DEF FlushInv, FlushIsABarrier
  <2> QED
    BY <2>2 DEF FlushInv, Taken, Number
<1>7. CriticalHaveRoom'
  BY DEF CriticalHaveRoom
<1> QED
  BY <1>1, <1>2, <1>3, <1>4, <1>5, <1>6, <1>7

\* The parts that a push disturbs in the same way, whatever is pushed
LEMMA PushKeepsTheRest ==
  ASSUME JInv, NEW e \in Entries,
         queue' = Append(queue, e), log' = Append(log, e),
         Len(queue) < Capacity, account \in {"Free", "Full"},
         account' \in {"Pushed", "Marked"}, running, e.seq > largest,
         UNCHANGED <<lost, running, largest, writing, flushing, file>>
  PROVE  FileInv' /\ WriterInv' /\ FlushInv' /\ CriticalHaveRoom'
<1> USE DEF writing, flushing, file
<1>1. /\ Len(log') = Len(log) + 1 /\ Len(queue') = Len(queue) + 1
      /\ log'[Len(log')] = e /\ Out' = Out
      /\ \A i \in 1 .. Len(log) : log'[i] = log[i]
      /\ \A n \in 0 .. Len(log) : Number(n)' = Number(n)
  BY PushKeeps
<1>2. /\ Len(log) \in Nat /\ Len(queue) \in Nat /\ Len(stream) \in Nat
      /\ Len(queue) <= Len(log) /\ Len(held) \in Nat
      /\ Out \in 0 .. Len(log)
  BY DEF JInv, JTypes, QueueInv, Out
<1>3. FileInv'
  <2>1. Len(held) > 0 => log'[Out] = log[Out]
    BY <1>1, <1>2 DEF JInv, FileInv
  <2>2. Number(Out - Len(held))' = Number(Out - Len(held))
    <3>1. Out - Len(held) \in 0 .. Len(log)
      BY <1>2 DEF JInv, FileInv
    <3>2. Out' - Len(held') = Out - Len(held)
      BY <1>1
    <3> QED
      BY <1>1, <3>1, <3>2 DEF Number
  <2>3. \A i \in 1 .. Len(stream) : stream[i] = log'[i]
    BY <1>1, <1>2 DEF JInv, FileInv
  <2>4. \A i \in 1 .. Len(held) : held[i] = log'[Out]
    BY <1>2, <2>1 DEF JInv, FileInv
  <2> QED
    BY <1>1, <1>2, <2>2, <2>3, <2>4 DEF JInv, FileInv
<1>4. WriterInv'
  BY <1>1 DEF JInv, WriterInv
<1>5. Taken' = Len(log) /\ Taken = Len(log)
  BY <1>1, <1>2 DEF Taken
<1>6. FlushInv'
  <2>1. flushed < e.seq
    <3>1. flushed <= written /\ written = Number(Out - Len(held))
      BY DEF JInv, FlushInv, FileInv
    <3>2. Out - Len(held) \in 0 .. Len(log) /\ Len(log) \in 0 .. Len(log)
      BY <1>2 DEF JInv, FileInv
    <3>3. Number(Out - Len(held)) <= Number(Len(log))
      BY <3>2, Numbers
    <3>4. largest = Number(Len(log)) /\ largest \in Nat /\ written \in Nat /\ flushed \in Nat
      BY <1>5 DEF JInv, LogInv, JTypes
    <3>5. e.seq \in Nat
      BY DEF Entries
    <3> QED
      BY <3>1, <3>3, <3>4, <3>5
  <2>2. ASSUME NEW i \in 1 .. Len(log'), log'[i].seq <= flushed PROVE i <= durable
    <3>1. flushed \in Nat /\ e.seq \in Nat
      BY DEF JInv, JTypes, Entries
    <3>2. i # Len(log')
      BY <1>1, <2>1, <2>2, <3>1
    <3>3. i \in 1 .. Len(log)
      BY <1>1, <1>2, <3>2
    <3> QED
      BY <1>1, <2>2, <3>3 DEF JInv, FlushInv
  <2>3. owed \in 0 .. Len(log)
    BY <1>2, <1>5 DEF JInv, FlushInv, JTypes
  <2>4. Number(owed)' = Number(owed)
    BY <1>1, <2>3 DEF Number
  <2>5. FlushIsABarrier'
    BY DEF JInv, FlushInv, FlushIsABarrier
  <2> QED
    BY <1>5, <2>2, <2>3, <2>4, <2>5 DEF JInv, FlushInv
<1>7. CriticalHaveRoom'
  <2> SUFFICES ASSUME lost > 0 PROVE CriticalHaveRoom'
    BY DEF CriticalHaveRoom
  <2>1. PICK first \in 1 .. Len(log) :
          /\ first + Reserve - 1 <= Len(log)
          /\ \A i \in first .. first + Reserve - 1 : log[i].kind = "Critical"
    BY DEF JInv, CriticalHaveRoom
  <2>2. \A i \in first .. first + Reserve - 1 : log'[i].kind = "Critical"
    BY <1>1, <1>2, <2>1
  <2> QED
    BY <1>1, <1>2, <2>1, <2>2 DEF CriticalHaveRoom
<1> QED
  BY <1>3, <1>4, <1>6, <1>7

LEMMA PushMarkKeeps == ASSUME JInv, PushMark PROVE JInv'
<1> DEFINE mark == CleanStop(largest + 1, StopCode)
<1>1. /\ account = "Full" /\ account' = "Marked" /\ Len(queue) < Capacity
      /\ queue' = Append(queue, mark) /\ log' = Append(log, mark)
      /\ UNCHANGED <<sequence, lost, running, largest, writing, flushing, file>>
  BY DEF PushMark
<1>2. mark \in Entries /\ mark.seq = largest + 1 /\ largest \in Nat
  BY DEF CleanStop, StopCode, Entries, JInv, JTypes
<1>3. mark.seq > largest /\ running
  BY <1>1, <1>2 DEF JInv, LogInv
<1> HIDE DEF mark
<1>4. FileInv' /\ WriterInv' /\ FlushInv' /\ CriticalHaveRoom'
  BY <1>1, <1>2, <1>3, PushKeepsTheRest
<1>5. /\ queue' \in Seq(Entries) /\ log' \in Seq(Entries)
      /\ Len(log') = Len(log) + 1 /\ Len(queue') = Len(queue) + 1
      /\ \A i, j \in 1 .. Len(log') : i < j => log'[i].seq < log'[j].seq
      /\ Len(queue') <= Capacity
      /\ \A i \in 1 .. Len(queue') : queue'[i] = log'[Out' + i]
      /\ \A n \in 0 .. Len(log) : Number(n)' = Number(n)
  BY <1>1, <1>2, <1>3, PushKeeps
<1>6. JTypes'
  BY <1>1, <1>5 DEF JInv, JTypes, writing, flushing, file
<1>7. Taken' = Len(log) /\ Taken = Len(log) /\ Len(log) \in Nat /\ Len(queue) \in Nat
  BY <1>1, <1>5 DEF Taken, JInv, JTypes
<1>8. LogInv'
  <2>1. Number(Taken)' = Number(Taken)
    BY <1>5, <1>7 DEF Number
  <2> QED
    BY <1>1, <1>5, <1>7, <2>1 DEF JInv, LogInv
<1>9. QueueInv'
  <2>1. Len(queue') <= Len(log')
    BY <1>5, <1>7 DEF JInv, QueueInv
  <2> QED
    BY <1>1, <1>5, <2>1 DEF QueueInv
<1> QED
  BY <1>4, <1>6, <1>8, <1>9 DEF JInv

LEMMA TryRecordKeeps == ASSUME JInv, TryRecord PROVE JInv'
<1>1. /\ account = "Free" /\ sequence < MaxEvents /\ sequence' = sequence + 1
      /\ UNCHANGED <<running, largest, writing, flushing, file>>
  BY DEF TryRecord
<1>2. PICK kind \in {"Best", "Critical"} :
        LET e == [seq |-> sequence + 1, kind |-> kind, code |-> 0] IN
        \/ /\ Fits(kind)
           /\ queue' = Append(queue, e) /\ log' = Append(log, e)
           /\ account' = "Pushed"
           /\ UNCHANGED lost
        \/ /\ ~Fits(kind)
           /\ lost' = IF kind = "Critical" THEN lost + 1 ELSE lost
           /\ UNCHANGED <<queue, log, account>>
  BY DEF TryRecord
<1> DEFINE e == [seq |-> sequence + 1, kind |-> kind, code |-> 0]
<1>3. /\ Len(log) \in Nat /\ Len(queue) \in Nat /\ sequence \in Nat
      /\ sequence + 1 \in 1 .. MaxEvents /\ Len(queue) <= Len(log)
      /\ Taken = Len(log) /\ largest = Number(Len(log)) /\ largest <= sequence
  BY <1>1 DEF JInv, JTypes, LogInv, QueueInv, Taken
<1>4. CASE /\ Fits(kind)
           /\ queue' = Append(queue, e) /\ log' = Append(log, e)
           /\ account' = "Pushed"
           /\ UNCHANGED lost
  <2>1. e \in Entries /\ e \in Events /\ e.seq = sequence + 1 /\ e.kind = kind
    BY <1>3 DEF Entries, Events
  <2>2. e.seq > largest /\ running
    BY <1>1, <1>3, <2>1 DEF JInv, JTypes, LogInv
  <2> HIDE DEF e
  <2>3. Len(queue) < Capacity /\ (kind = "Best" => Len(queue) < Capacity - Reserve)
    BY <1>3, <1>4 DEF Fits
  <2>4. FileInv' /\ WriterInv' /\ FlushInv' /\ CriticalHaveRoom'
    BY <1>1, <1>4, <2>1, <2>2, <2>3, PushKeepsTheRest
  <2>5. /\ queue' \in Seq(Entries) /\ log' \in Seq(Entries)
        /\ Len(log') = Len(log) + 1 /\ Len(queue') = Len(queue) + 1
        /\ log'[Len(log')] = e /\ queue'[Len(queue')] = e
        /\ \A i \in 1 .. Len(log) : log'[i] = log[i]
        /\ \A i \in 1 .. Len(queue) : queue'[i] = queue[i]
        /\ \A i, j \in 1 .. Len(log') : i < j => log'[i].seq < log'[j].seq
        /\ Len(queue') <= Capacity
        /\ \A i \in 1 .. Len(queue') : queue'[i] = log'[Out' + i]
        /\ \A n \in 0 .. Len(log) : Number(n)' = Number(n)
    BY <1>1, <1>4, <2>1, <2>2, <2>3, PushKeeps
  <2>6. JTypes'
    BY <1>1, <1>3, <1>4, <2>5 DEF JInv, JTypes, writing, flushing, file
  <2>7. LogInv'
    <3>1. Taken' = Len(log)
      BY <1>3, <1>4, <2>5 DEF Taken
    <3>2. Number(Taken)' = Number(Len(log)) /\ Number(Len(log))' = sequence'
      BY <1>1, <1>3, <2>1, <2>5, <3>1 DEF Number
    <3>3. \A i \in 1 .. Len(log') : log'[i] \in Events
      <4>1. \A i \in 1 .. Len(log) : log[i] \in Events
        BY <1>1 DEF JInv, LogInv
      <4> QED
        BY <1>3, <2>1, <2>5, <4>1
    <3>4. 0 <= Taken' /\ largest' = Number(Taken)' /\ largest' <= sequence'
      BY <1>1, <1>3, <2>5, <3>1, <3>2 DEF Number
    <3>5. running' /\ account' \notin {"Join", "Stopped"}
      BY <1>1, <1>4, <2>2
    <3> QED
      BY <2>5, <3>2, <3>3, <3>4, <3>5 DEF LogInv
  <2>8. QueueInv'
    <3>1. \A i \in 1 .. Len(queue') : i > Capacity - Reserve => queue'[i].kind = "Critical"
      <4>1. \A i \in 1 .. Len(queue) : i > Capacity - Reserve => queue[i].kind = "Critical"
        BY <1>1 DEF JInv, QueueInv
      <4>2. Len(queue') > Capacity - Reserve => kind = "Critical"
        BY <1>2, <1>3, <2>3, <2>5
      <4>3. \A i \in 1 .. Len(queue') : i = Len(queue') \/ i \in 1 .. Len(queue)
        BY <1>3, <2>5
      <4> SUFFICES ASSUME NEW i \in 1 .. Len(queue'), i > Capacity - Reserve
                   PROVE  queue'[i].kind = "Critical"
        OBVIOUS
      <4>4. CASE i = Len(queue')
        BY <2>1, <2>5, <4>2, <4>4
      <4>5. CASE i \in 1 .. Len(queue)
        BY <2>5, <4>1, <4>5
      <4> QED
        BY <4>3, <4>4, <4>5
    <3> QED
      BY <1>3, <2>5, <3>1 DEF QueueInv
  <2> QED
    BY <2>4, <2>6, <2>7, <2>8 DEF JInv
<1>5. CASE /\ ~Fits(kind)
           /\ lost' = IF kind = "Critical" THEN lost + 1 ELSE lost
           /\ UNCHANGED <<queue, log, account>>
  <2> USE <1>1, <1>5 DEF JInv, writing, flushing, file
  <2>1. JTypes'
    BY <1>3 DEF JTypes
  <2>2. LogInv'
    BY <1>3 DEF LogInv, Taken, Number
  <2>3. QueueInv' /\ FileInv'
    BY DEF QueueInv, FileInv, Out, Number
  <2>4. WriterInv' /\ FlushInv'
    BY DEF WriterInv, FlushInv, FlushIsABarrier, Taken, Number
  <2>5. CriticalHaveRoom'
    <3>1. CASE kind = "Best"
      BY <3>1 DEF CriticalHaveRoom
    <3>2. CASE kind = "Critical"
      <4>1. Len(queue) = Capacity
        BY <1>3, <3>2 DEF Fits, QueueInv
      <4> DEFINE first == Len(log) - Reserve + 1
      <4>2. first \in 1 .. Len(log) /\ first + Reserve - 1 <= Len(log)
        BY <1>3, <4>1
      <4>3. ASSUME NEW i \in first .. first + Reserve - 1 PROVE log[i].kind = "Critical"
        <5> DEFINE k == i - Out
        <5>1. k \in 1 .. Len(queue) /\ k > Capacity - Reserve /\ Out + k = i
          BY <1>3, <4>1 DEF Out
        <5> QED
          BY <5>1 DEF QueueInv
      <4> HIDE DEF first
      <4> QED
        BY <4>2, <4>3 DEF CriticalHaveRoom
    <3> QED
      BY <1>2, <3>1, <3>2
  <2> QED
    BY <2>1, <2>2, <2>3, <2>4, <2>5
<1> QED
  BY <1>2, <1>4, <1>5

THEOREM AlwaysJInv == Spec => []JInv
<1>1. JInv /\ [Next]_vars => JInv'
  <2> SUFFICES ASSUME JInv, [Next]_vars PROVE JInv'
    OBVIOUS
  <2>1. CASE AccountStep
    BY <2>1, TryRecordKeeps, PublishKeeps, StopKeeps, PushMarkKeeps, EndRunningKeeps,
       JoinedKeeps DEF AccountStep
  <2>2. CASE WriterStep
    BY <2>2, LookKeeps, TakeKeeps, WriteKeeps, LookForRequestKeeps, FlushKeeps,
       EndKeeps DEF WriterStep
  <2>3. CASE Spill \/ CallFlush
    BY <2>3, SpillKeeps, CallFlushKeeps
  <2>4. CASE FlushStep
    BY <2>4, ReadLargestKeeps, StoreRequestKeeps, WaitKeeps DEF FlushStep
  <2>5. CASE UNCHANGED vars
    <3> USE <2>5 DEF vars, recording, writing, flushing, file, JInv
    <3>1. JTypes'
      BY DEF JTypes
    <3>2. LogInv' /\ QueueInv' /\ FileInv'
      BY DEF LogInv, QueueInv, FileInv, Taken, Number, Out
    <3>3. WriterInv' /\ FlushInv' /\ CriticalHaveRoom'
      BY DEF WriterInv, FlushInv, CriticalHaveRoom, FlushIsABarrier, Taken, Number
    <3> QED
      BY <3>1, <3>2, <3>3
  <2> QED
    BY <2>1, <2>2, <2>3, <2>4, <2>5 DEF Next
<1> QED
  BY <1>1, JInit, PTL DEF Spec

\* FlushIsABarrier: when flush has returned true, what try_record had taken
\* before the call has been handed to the kernel, for any queue and any number of events.
THEOREM FlushedIsOnDisk == Spec => []FlushIsABarrier
<1>1. JInv => FlushIsABarrier
  BY DEF JInv, FlushInv
<1> QED
  BY <1>1, AlwaysJInv, PTL

\* StopKeepsAll: a journal that was stopped holds all that was recorded, with
\* its mark, unless the stream failed.
THEOREM StoppedIsOnDisk == Spec => []StopKeepsAll
<1>1. JInv => StopKeepsAll
  BY DEF JInv, JTypes, QueueInv, FileInv, WriterInv, StopKeepsAll, Out
<1> QED
  BY <1>1, AlwaysJInv, PTL

\* CriticalHaveRoom: no critical event is refused before Reserve of them were
\* taken in a row, whatever else is recorded and however slow the writer is.
THEOREM CriticalTaken == Spec => []CriticalHaveRoom
<1>1. JInv => CriticalHaveRoom
  BY DEF JInv
<1> QED
  BY <1>1, AlwaysJInv, PTL

\* What is on disk is a beginning of the log.
LEMMA DiskOfLog ==
  JInv => /\ Disk = SubSeq(log, 1, durable) /\ Len(Disk) = durable
          /\ durable \in 0 .. Len(log)
<1> SUFFICES ASSUME JInv
             PROVE  /\ Disk = SubSeq(log, 1, durable) /\ Len(Disk) = durable
                    /\ durable \in 0 .. Len(log)
  OBVIOUS
<1>1. /\ stream \in Seq(Entries) /\ log \in Seq(Entries)
      /\ durable \in 0 .. Len(stream) /\ Len(stream) <= Len(log)
      /\ \A i \in 1 .. Len(stream) : stream[i] = log[i]
  BY DEF JInv, JTypes, FileInv, QueueInv, Out
<1> HIDE DEF JInv
<1>2. durable \in 0 .. Len(log) /\ Len(stream) \in Nat /\ Len(log) \in Nat
  BY <1>1
<1>3. /\ SubSeq(stream, 1, durable) = [i \in 1 .. durable |-> stream[i]]
      /\ SubSeq(log, 1, durable) = [i \in 1 .. durable |-> log[i]]
  BY <1>1, <1>2
<1>4. \A i \in 1 .. durable : stream[i] = log[i]
  BY <1>1, <1>2
<1>5. Len(SubSeq(log, 1, durable)) = durable
  BY <1>1, <1>2
<1> QED
  BY <1>2, <1>3, <1>4, <1>5 DEF Disk

LEMMA DiskOfLogNext ==
  JInv' => Disk' = SubSeq(log', 1, durable') /\ durable' \in 0 .. Len(log')
<1>1. (JInv => /\ Disk = SubSeq(log, 1, durable) /\ Len(Disk) = durable
               /\ durable \in 0 .. Len(log))'
  BY DiskOfLog, PTL
<1> QED
  BY <1>1

\* A step that leaves the log and the loss, and takes nothing from the disk
LEMMA DiskGrows ==
  ASSUME JInv, JInv', UNCHANGED <<log, lost>>, durable <= durable'
  PROVE  Promise!Persist
<1>1. Disk' = SubSeq(log, 1, durable') /\ durable' \in 0 .. Len(log)
  <2>1. Disk' = SubSeq(log', 1, durable') /\ durable' \in 0 .. Len(log')
    BY DiskOfLogNext
  <2> QED
    BY <2>1
<1>2. Len(Disk) = durable /\ durable \in Nat
  BY DiskOfLog
<1>3. durable' \in Len(Disk) .. Len(log)
  BY <1>1, <1>2
<1> QED
  BY <1>1, <1>3 DEF Promise!Persist

\* A push leaves the disk alone.
LEMMA SameDisk ==
  ASSUME UNCHANGED file PROVE Disk' = Disk
  BY DEF Disk, file

\* ImplementsTraceLog: whatever the threads and the file do, the disk holds a
\* beginning of what was recorded, in its order, and the mark tells the loss.
THEOREM JournalImplementsTraceLog == Spec => ImplementsTraceLog
<1>1. Init => Promise!Init
  <2> SUFFICES ASSUME Init PROVE Promise!Init
    OBVIOUS
  <2>1. JInv /\ durable = 0 /\ log = <<>> /\ lost = 0
    BY JInit DEF Init
  <2>2. Disk = SubSeq(log, 1, 0)
    BY <2>1, DiskOfLog
  <2>3. SubSeq(<<>>, 1, 0) = <<>>
    OBVIOUS
  <2> QED
    BY <2>1, <2>2, <2>3 DEF Promise!Init
<1>2. JInv /\ JInv' /\ [Next]_vars => [Promise!Next]_Promise!vars
  <2> SUFFICES ASSUME JInv, JInv', [Next]_vars PROVE [Promise!Next]_Promise!vars
    OBVIOUS
  <2>1. CASE TryRecord
    <3>1. UNCHANGED file /\ account = "Free" /\ sequence < MaxEvents
      BY <2>1 DEF TryRecord
    <3>2. Disk' = Disk
      BY <3>1, SameDisk
    <3>3. ~Promise!Marked
      BY <3>1 DEF Promise!Marked, JInv, LogInv
    <3>4. PICK kind \in {"Best", "Critical"} :
            LET e == [seq |-> sequence + 1, kind |-> kind, code |-> 0] IN
            \/ log' = Append(log, e) /\ UNCHANGED lost
            \/ /\ lost' = IF kind = "Critical" THEN lost + 1 ELSE lost
               /\ UNCHANGED log
      BY <2>1 DEF TryRecord
    <3> DEFINE e == [seq |-> sequence + 1, kind |-> kind, code |-> 0]
    <3>5. e \in Events
      BY <3>1 DEF Events, JInv, JTypes
    <3>6. CASE log' = Append(log, e) /\ UNCHANGED lost
      BY <3>2, <3>3, <3>5, <3>6 DEF Promise!Next, Promise!Record
    <3>7. CASE lost' = lost + 1 /\ UNCHANGED log
      BY <3>2, <3>3, <3>7 DEF Promise!Next, Promise!Refuse
    <3>8. CASE UNCHANGED <<log, lost>>
      BY <3>2, <3>8 DEF Promise!vars
    <3> QED
      BY <3>4, <3>6, <3>7, <3>8
  <2>2. CASE PushMark
    <3>1. Disk' = Disk /\ UNCHANGED lost /\ account = "Full"
      BY <2>2, SameDisk DEF PushMark
    <3>2. ~Promise!Marked
      BY <3>1 DEF Promise!Marked, JInv, LogInv
    <3>3. largest = LastNumber(log)
      <4>1. Len(log) \in Nat /\ largest = Number(Len(log)) /\ (Len(log) = 0 <=> log = <<>>)
        BY <3>1 DEF JInv, LogInv, Taken, JTypes
      <4> QED
        BY <4>1 DEF LastNumber, Number
    <3>4. log' = Append(log, MarkOf(log, lost))
      BY <2>2, <3>3 DEF PushMark, MarkOf, StopCode
    <3> QED
      BY <3>1, <3>2, <3>4 DEF Promise!Next, Promise!Close
  <2>3. CASE UNCHANGED <<log, lost>> /\ durable <= durable'
    BY <2>3, DiskGrows DEF Promise!Next
  <2>4. durable \in Nat /\ durable <= Len(stream)
    BY DEF JInv, JTypes, FileInv
  <2>5. CASE Flush \/ End \/ Spill
    BY <2>3, <2>4, <2>5 DEF Flush, End, Spill, FlushStream, recording
  <2>6. CASE PublishSequence \/ Stop \/ EndRunning \/ Joined
    BY <2>3, <2>4, <2>6 DEF PublishSequence, Stop, EndRunning, Joined, file
  <2>7. CASE Look \/ Take \/ Write \/ LookForRequest
    BY <2>3, <2>4, <2>7 DEF Look, Take, Write, LookForRequest, recording, file
  <2>8. CASE CallFlush \/ FlushStep
    BY <2>3, <2>4, <2>8 DEF CallFlush, FlushStep, ReadLargest, StoreRequest, Wait,
       recording, file
  <2>9. CASE UNCHANGED vars
    BY <2>3, <2>4, <2>9 DEF vars, recording, file
  <2> QED
    BY <2>1, <2>2, <2>5, <2>6, <2>7, <2>8, <2>9 DEF Next, AccountStep, WriterStep
<1> QED
  BY <1>1, <1>2, AlwaysJInv, PTL DEF Spec, ImplementsTraceLog, Promise!Spec
=============================================================================
