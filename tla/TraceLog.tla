------------------------------- MODULE TraceLog -------------------------------
(***************************************************************************)
(* What the trace journal of an account promises: the file is at every     *)
(* moment, that of a crash included, a beginning of what has been          *)
(* recorded, in the order of the recording, and what has reached it stays; *)
(* nothing is recorded after the mark of a clean stop, and the mark tells  *)
(* how many critical events were lost. The module Restart builds on this.  *)
(***************************************************************************)
EXTENDS Integers, Sequences

CONSTANT Entry,      \* what may be recorded, but for the mark
         Mark(_, _)  \* the mark, of what is recorded before and what was lost

VARIABLES
  log,   \* the entries recorded, and the mark
  lost,  \* critical events refused so far
  disk   \* what a reader of the file would find after a crash of the process

vars == <<log, lost, disk>>

Marked == \E i \in 1 .. Len(log) : log[i] \notin Entry

Init == log = <<>> /\ lost = 0 /\ disk = <<>>

Record ==
  /\ ~Marked
  /\ \E e \in Entry : log' = Append(log, e)
  /\ UNCHANGED <<lost, disk>>

Refuse ==
  /\ ~Marked
  /\ lost' = lost + 1
  /\ UNCHANGED <<log, disk>>

Close ==
  /\ ~Marked
  /\ log' = Append(log, Mark(log, lost))
  /\ UNCHANGED <<lost, disk>>

Persist ==
  /\ \E n \in Len(disk) .. Len(log) : disk' = SubSeq(log, 1, n)
  /\ UNCHANGED <<log, lost>>

Next == Record \/ Refuse \/ Close \/ Persist

Spec == Init /\ [][Next]_vars
=============================================================================
