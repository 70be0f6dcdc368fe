-------------------------------- MODULE Journal --------------------------------
(***************************************************************************)
(* The trace journal of an account (AsyncTraceJournal of src/telemetry.cpp *)
(* and TraceQueue of telemetry.hpp) from start to stop. Three threads: the *)
(* account thread records events and at the end stops the journal, a       *)
(* writer takes them from a queue to the file, and a control thread may    *)
(* ask for what has been recorded to be flushed.                           *)
(*                                                                         *)
(* Steps are those on shared atomics. SpscQueue is a sequence (its indices *)
(* have one writer each, as in CallbackQueue); the depth that try_push     *)
(* looks at before it pushes can only fall in between. The file is a       *)
(* stream with a buffer, which may be written out by itself and may fail,  *)
(* for good, at any moment (a full disk). What is "on disk" here has been   *)
(* handed to the kernel: the code flushes its ofstream and never syncs, so *)
(* such a line survives a crash of the process, not one of the machine.    *)
(***************************************************************************)
EXTENDS Integers, Sequences

CONSTANTS
  Capacity,    \* kTraceQueueCapacity
  Reserve,     \* kCriticalTraceReserve
  MaxEvents,   \* bounds of the model: events offered and
  MaxFlushes   \* calls of flush

ASSUME JournalAssumption ==
  /\ Capacity \in Nat /\ Reserve \in Nat \ {0} /\ Reserve < Capacity
  /\ MaxEvents \in Nat /\ MaxFlushes \in Nat

VARIABLES
  sequence,   \* trace_sequence of the session, which numbers events
  account,    \* the account thread: "Free", "Pushed" (in try_record), "Full",
              \* "Marked", "Join" (in stop) or "Stopped"
  queue,      \* queue_
  lost,       \* critical_dropped_
  running,    \* running
  largest,    \* largest_sequence
  writer,     \* the writer thread: where it is in run
  held,       \* event, in run, while it is not written: <<>> or <<event>>
  written,    \* written_sequence
  requested,  \* requested, in run
  flushed,    \* flushed_sequence
  failed,     \* flush_failed
  request,    \* flush_request
  control,    \* the control thread: "Free", or where it is in flush
  target,     \* target, in flush
  result,     \* what flush returned: "True" or "False", else "None"
  calls,      \* calls of flush so far
  stream,     \* the lines the writer has put out
  durable,    \* how many of them the kernel has been given
  bad,        \* the stream has failed
  log,        \* every event that was accepted
  owed        \* how many try_record had returned when flush was last called

recording == <<sequence, account, queue, lost, running, largest, log>>
writing == <<writer, held, written, requested, flushed, failed>>
flushing == <<request, control, target, result, calls, owed>>
file == <<stream, durable, bad>>
vars == <<recording, writing, flushing, file>>

-----------------------------------------------------------------------------
(* Events *)

\* code is that of a CleanStop: the critical events lost.
Events == [seq : 1 .. MaxEvents, kind : {"Best", "Critical"}, code : {0}]
CleanStop(seq, code) == [seq |-> seq, kind |-> "CleanStop", code |-> code]

Init ==
  /\ sequence = 0 /\ account = "Free" /\ queue = <<>> /\ lost = 0
  /\ running = TRUE /\ largest = 0 /\ log = <<>>
  /\ writer = "Running" /\ held = <<>> /\ written = 0 /\ requested = 0
  /\ flushed = 0 /\ failed = FALSE
  /\ request = 0 /\ control = "Free" /\ target = 0 /\ result = "None"
  /\ calls = 0 /\ owed = 0
  /\ stream = <<>> /\ durable = 0 /\ bad = FALSE

-----------------------------------------------------------------------------
(* The account thread *)

\* Variant: no room kept for critical events
FitsAnyhow(kind) == Len(queue) < Capacity

\* TraceQueue::try_push
Fits(kind) ==
  IF kind = "Critical" THEN Len(queue) < Capacity
  ELSE Len(queue) < Capacity - Reserve

\* try_record. A refused event leaves a gap in the numbers.
TryRecord ==
  /\ account = "Free" /\ sequence < MaxEvents
  /\ sequence' = sequence + 1
  /\ \E kind \in {"Best", "Critical"} :
       LET e == [seq |-> sequence + 1, kind |-> kind, code |-> 0] IN
       \/ /\ Fits(kind)
          /\ queue' = Append(queue, e) /\ log' = Append(log, e)
          /\ account' = "Pushed"
          /\ UNCHANGED lost
       \/ /\ ~Fits(kind)
          /\ lost' = IF kind = "Critical" THEN lost + 1 ELSE lost
          /\ UNCHANGED <<queue, log, account>>
  /\ UNCHANGED <<running, largest, writing, flushing, file>>

\* The end of try_record
PublishSequence ==
  /\ account = "Pushed"
  /\ largest' = IF largest < sequence THEN sequence ELSE largest
  /\ account' = "Free"
  /\ UNCHANGED <<sequence, queue, lost, running, log, writing, flushing, file>>

Stop ==
  /\ account = "Free"
  /\ account' = "Full"
  /\ UNCHANGED <<sequence, queue, lost, running, largest, log, writing, flushing, file>>

\* Variant: the loss is not told
StopCodeForgotten == 0

\* stop: the code of the mark
StopCode == lost

\* stop waits for room, so that the mark itself is not lost. No other thread
\* pushes: it is not refused then.
PushMark ==
  /\ account = "Full" /\ Len(queue) < Capacity
  /\ LET mark == CleanStop(largest + 1, StopCode) IN
       queue' = Append(queue, mark) /\ log' = Append(log, mark)
  /\ account' = "Marked"
  /\ UNCHANGED <<sequence, lost, running, largest, writing, flushing, file>>

EndRunning ==
  /\ account = "Marked"
  /\ running' = FALSE
  /\ account' = "Join"
  /\ UNCHANGED <<sequence, queue, lost, largest, log, writing, flushing, file>>

\* join and close
Joined ==
  /\ account = "Join" /\ writer = "Ended"
  /\ account' = "Stopped"
  /\ UNCHANGED <<sequence, queue, lost, running, largest, log, writing, flushing, file>>

-----------------------------------------------------------------------------
(* The writer thread. "Running" and "Depth" are the condition of its loop. *)

\* Variant: the depth is read first
LookAgainReversed ==
  \/ /\ writer = "Running"
     /\ writer' = IF queue # <<>> THEN "Take" ELSE "Depth"
  \/ /\ writer = "Depth"
     /\ writer' = IF running THEN "Take" ELSE "End"

LookAgain ==
  \/ /\ writer = "Running"
     /\ writer' = IF running THEN "Take" ELSE "Depth"
  \/ /\ writer = "Depth"
     /\ writer' = IF queue # <<>> THEN "Take" ELSE "End"

Look ==
  /\ LookAgain
  /\ UNCHANGED <<held, written, requested, flushed, failed, recording, flushing, file>>

Take ==
  /\ writer = "Take"
  /\ IF queue = <<>>
     THEN /\ writer' = "Request"
          /\ UNCHANGED <<queue, held>>
     ELSE /\ held' = <<Head(queue)>> /\ queue' = Tail(queue)
          /\ writer' = "Write"
  /\ UNCHANGED <<sequence, account, lost, running, largest, log,
                 written, requested, flushed, failed, flushing, file>>

\* A stream that has failed takes no more, and the event counts as written.
Write ==
  /\ writer = "Write"
  /\ \/ bad' = bad
     \/ bad' = TRUE
  /\ stream' = IF bad' THEN stream ELSE stream \o held
  /\ written' = held[1].seq
  /\ held' = <<>>
  /\ writer' = "Request"
  /\ UNCHANGED <<requested, flushed, failed, durable, recording, flushing>>

\* Variant: a request is answered at once
DueAtOnce == request # 0 /\ flushed < request

Due == request # 0 /\ written >= request /\ flushed < request

LookForRequest ==
  /\ writer = "Request"
  /\ IF Due THEN writer' = "Flush" /\ requested' = request
     ELSE writer' = "Running" /\ UNCHANGED requested
  /\ UNCHANGED <<held, written, flushed, failed, recording, flushing, file>>

\* output.flush()
FlushStream ==
  /\ UNCHANGED stream
  /\ \/ ~bad /\ durable' = Len(stream) /\ bad' = FALSE
     \/ bad' = TRUE /\ durable' = durable

\* Variant: a failed flush is not told
FlushFailingSilently ==
  /\ writer = "Flush"
  /\ FlushStream
  /\ flushed' = IF bad' THEN flushed ELSE requested
  /\ writer' = "Running"
  /\ UNCHANGED <<held, written, requested, failed, recording, flushing>>

Flush ==
  /\ writer = "Flush"
  /\ FlushStream
  /\ flushed' = IF bad' THEN flushed ELSE requested
  /\ failed' = (failed \/ bad')
  /\ writer' = "Running"
  /\ UNCHANGED <<held, written, requested, recording, flushing>>

End ==
  /\ writer = "End"
  /\ FlushStream
  /\ writer' = "Ended"
  /\ UNCHANGED <<held, written, requested, flushed, failed, recording, flushing>>

\* A line in the buffer of the stream is handed to the kernel.
Spill ==
  /\ durable < Len(stream)
  /\ durable' = durable + 1
  /\ UNCHANGED <<stream, bad, recording, writing, flushing>>

-----------------------------------------------------------------------------
(* The control thread: flush *)

\* The events for which try_record has returned: not the one it is about to
\* publish, nor the mark.
Taken == IF account \in {"Free", "Full"} THEN Len(log) ELSE Len(log) - 1

Return(value) == control' = "Free" /\ result' = value

CallFlush ==
  /\ control = "Free" /\ calls < MaxFlushes
  /\ calls' = calls + 1
  /\ owed' = Taken
  /\ IF running THEN control' = "Largest" /\ result' = "None"
     ELSE Return("False")
  /\ UNCHANGED <<request, target, recording, writing, file>>

ReadLargest ==
  /\ control = "Largest"
  /\ target' = largest
  /\ IF largest = 0 THEN Return("True")
     ELSE control' = "Request" /\ UNCHANGED result
  /\ UNCHANGED <<request, calls, owed, recording, writing, file>>

StoreRequest ==
  /\ control = "Request"
  /\ request' = target
  /\ control' = "Flushed"
  /\ UNCHANGED <<target, result, calls, owed, recording, writing, file>>

Wait ==
  /\ \/ /\ control = "Flushed"
        /\ IF flushed >= target THEN Return("True")
           ELSE control' = "Failed" /\ UNCHANGED result
     \/ /\ control = "Failed"
        /\ IF failed \/ ~running THEN Return("False")
           ELSE control' = "Flushed" /\ UNCHANGED result
  /\ UNCHANGED <<request, target, calls, owed, recording, writing, file>>

-----------------------------------------------------------------------------
(* The specification. Threads are scheduled; a stop is not compelled, nor a *)
(* call of flush, nor that a buffer spills.                                 *)

AccountStep == TryRecord \/ PublishSequence \/ Stop \/ PushMark \/ EndRunning \/ Joined
WriterStep == Look \/ Take \/ Write \/ LookForRequest \/ Flush \/ End
FlushStep == ReadLargest \/ StoreRequest \/ Wait

Next == AccountStep \/ WriterStep \/ Spill \/ CallFlush \/ FlushStep

Fairness ==
  /\ WF_vars(PublishSequence \/ PushMark \/ EndRunning \/ Joined)
  /\ WF_vars(WriterStep)
  /\ WF_vars(FlushStep)

Spec == Init /\ [][Next]_vars
FairSpec == Spec /\ Fairness

-----------------------------------------------------------------------------
(* Properties *)

\* The file is what TraceLog promises: a beginning of what was recorded, and
\* the mark at the end of a clean stop tells the loss.
Disk == SubSeq(stream, 1, durable)
LastNumber(l) == IF l = <<>> THEN 0 ELSE l[Len(l)].seq
MarkOf(l, n) == CleanStop(LastNumber(l) + 1, n)
Promise == INSTANCE TraceLog WITH Entry <- Events, Mark <- MarkOf, disk <- Disk
ImplementsTraceLog == Promise!Spec

\* When flush has returned true, every event that try_record had taken before
\* the call has been handed to the kernel: the barrier the comment on flush
\* promises.
FlushIsABarrier == result = "True" => durable >= owed

\* When stop returns, the kernel has everything recorded and the mark at the end,
\* unless the stream failed: the writer ends only after it has seen the mark.
StopKeepsAll == account = "Stopped" /\ ~bad => durable = Len(log)

\* A critical event is refused only after Reserve critical ones were taken in
\* a row. By the count of the comment on kCriticalTraceCapacityRequired there
\* are not as many in a run: none is lost, however many others are recorded.
CriticalHaveRoom ==
  lost > 0 =>
    \E first \in 1 .. Len(log) :
      /\ first + Reserve - 1 <= Len(log)
      /\ \A i \in first .. first + Reserve - 1 : log[i].kind = "Critical"

\* A call of flush and a call of stop return, whatever the file does and the
\* other threads do meanwhile.
CallsReturn ==
  /\ control # "Free" ~> control = "Free"
  /\ account = "Full" ~> account = "Stopped"
=============================================================================
