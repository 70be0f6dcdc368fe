---------------------------- MODULE RestartProofs ----------------------------
(***************************************************************************)
(* Proofs about Restart for any number of references, runs, crashes and    *)
(* days and any limits, with and without a journal that loses events.      *)
(*                                                                         *)
(* The argument runs over the handover from one run to the next. While a   *)
(* run is on, its records and its journal stay below its next reference,   *)
(* and its counts leave no order out that it knows. A run that ends hands  *)
(* over either a checkpoint that counts every order of its journal, or     *)
(* nothing; the next run then learns the rest from the order query, which  *)
(* counts what it imports. What the two folds (the image over the events,  *)
(* the answer over its rows) do is shown step by step along the table that *)
(* FoldLeft stands for.                                                    *)
(***************************************************************************)
EXTENDS Restart, FiniteSetTheorems, SequenceTheorems, WellFoundedInduction, TLAPS

-----------------------------------------------------------------------------
(* The inductive invariant *)

\* Phases after the login, and phases of a run that has a journal
LoggedIn == {"Querying", "Ready", "Frozen"}
Running == LoggedIn \cup {"Connecting"}

\* Types of the journal and of what a login is to restore
JournalEvent ==
  [kind : {"Submitted", "Reported", "Ended", "Checkpoint"}, ref : 0 .. MaxRef,
   signal : Nat, offset : Offsets, day : Nat, daily : Daily]

JournalType ==
  [status : {"None", "Open", "Clean", "Cut", "Torn"},
   events : Seq(JournalEvent), dropped : BOOLEAN]

RTypes ==
  /\ RestartTypeOK
  /\ journal \in JournalType
  /\ restored \in [pending : BOOLEAN, day : Nat, daily : Daily]

\* What runs has records below its next reference and a journal of its own.
RunInv ==
  /\ \A r \in Known : r < nextRef
  /\ phase \notin Running => Known = {} /\ tradingDay = 0 /\ journal.status # "Open"
  /\ phase \in Running =>
       /\ journal.status = "Open"
       /\ \A e \in Range(journal.events) :
            /\ e.kind # "Checkpoint" /\ e.ref < nextRef
            /\ e.kind = "Submitted" => e.ref \in Known
       /\ tradingDay = 0 => journal.events = <<>>

\* The day of the session is the counter's, or the counter is empty since.
DayInv ==
  /\ phase \in LoggedIn => tradingDay = day
  /\ tradingDay # 0 => ~restored.pending
  /\ tradingDay \notin {0, day} => AtCounter = {}

\* What the journal says of an order stays true.
JournalInv ==
  \A e \in Range(journal.events) :
    /\ e.kind # "Checkpoint" => e.ref \in Refs
    /\ e.kind = "Ended" => e.ref \notin OpenAtCounter
    /\ e.kind = "Submitted" /\ e.ref \in AtCounter => e.offset = orders[e.ref].offset

\* The entries among the orders at the counter
Entries == {r \in AtCounter : orders[r].offset = "Open"}

\* The counts of d leave out none of the orders a and none of the entries b,
\* as far as the limits go.
CountsAll(d, a, b) ==
  /\ d.orders < MaxOrders => Cardinality(a) <= d.orders
  /\ d.signals < MaxSignals => Cardinality(b) <= d.signals
Counts(d, s) == CountsAll(d, s \cap AtCounter, s \cap Entries)

\* The references a journal submitted orders under
SubmittedRefs(events) == {e.ref : e \in {x \in Range(events) : x.kind = "Submitted"}}

\* What a clean stop hands over counts every order of its run that is at the
\* counter, or the counter has begun a new day.
CheckpointInv ==
  /\ journal.status = "Clean" /\ ~journal.dropped
  /\ journal.events # <<>> /\ Last(journal.events).kind = "Checkpoint"
  => IF Last(journal.events).day = day
     THEN Counts(Last(journal.events).daily, SubmittedRefs(journal.events))
     ELSE AtCounter = {}

\* The counts the session has, or will have once it is logged in, leave none of
\* the orders out that it knows.
CountInv == Counts(DailyOfLogin, Known)

\* A record that stands for an order of the counter has its offset.
OffsetInv == \A r \in Known \cap AtCounter : records[r].offset = orders[r].offset

\* No record counts as named by an answer that has not come.
SeenInv == phase = "Querying" => \A r \in Refs : ~records[r].seen

\* A session that may trade knows every order at the counter, and takes none for
\* ended that is not; what it took over from an image is there.
ReadyInv ==
  phase = "Ready" =>
    /\ \A r \in AtCounter : /\ r \in Known
                            /\ orders[r].status \in Live => records[r].state \in Live
    /\ \A r \in Refs : records[r].origin = "Image" /\ records[r].state \in Live
                       => r \in AtCounter

RestartInv ==
  /\ RTypes /\ RunInv /\ DayInv /\ JournalInv /\ CheckpointInv /\ CountInv
  /\ OffsetInv /\ SeenInv /\ ReadyInv
  /\ OrdersWithinDailyLimits /\ OpenOrdersWithinLimit

-----------------------------------------------------------------------------
(* Numbers and maxima *)

\* What holds of 0, and of the successor of every number it holds of
LEMMA AllNumbers ==
  ASSUME NEW G, 0 \in G, \A n \in Nat : n \in G => n + 1 \in G
  PROVE  \A n \in Nat : n \in G
<1> DEFINE bad == {n \in Nat : n \notin G}
<1> SUFFICES ASSUME bad # {} PROVE FALSE
  OBVIOUS
<1>1. PICK n \in bad : \A m \in bad : <<m, n>> \notin OpToRel(<, Nat)
  <2>1. bad \subseteq Nat
    OBVIOUS
  <2> HIDE DEF bad
  <2> QED BY <2>1, NatLessThanWellFounded, WFMin
<1>2. n \in Nat /\ n \notin G /\ n # 0
  BY <1>1
<1>3. n - 1 \in Nat /\ (n - 1) + 1 = n
  BY <1>2
<1>4. <<n - 1, n>> \in OpToRel(<, Nat)
  BY <1>2, <1>3 DEF OpToRel
<1>5. n - 1 \in G
  BY <1>1, <1>3, <1>4
<1> QED BY <1>2, <1>3, <1>5

\* A bounded set of numbers has a largest one.
LEMMA LargestNumber ==
  ASSUME NEW n \in Nat, NEW S \in SUBSET (0 .. n), S # {}
  PROVE  Max(S) \in S /\ \A x \in S : x <= Max(S)
<1> DEFINE D == {m \in 0 .. n : \A x \in S : x <= m}
<1>1. D \subseteq Nat /\ n \in D
  OBVIOUS
<1>2. PICK m \in D : \A k \in D : <<k, m>> \notin OpToRel(<, Nat)
  <2> HIDE DEF D
  <2> QED BY <1>1, NatLessThanWellFounded, WFMin
<1>3. m \in S
  <2> SUFFICES ASSUME m \notin S PROVE FALSE
    OBVIOUS
  <2>1. PICK x \in S : TRUE
    OBVIOUS
  <2>2. m \in 0 .. n /\ x <= m /\ x \in 0 .. n /\ x # m
    BY <1>2, <2>1
  <2>3. \A y \in S : y \in 0 .. n /\ y <= m /\ y # m
    BY <1>2
  <2>4. m - 1 \in 0 .. n /\ \A y \in S : y <= m - 1
    BY <2>2, <2>3
  <2>5. m - 1 \in D
    BY <2>4
  <2>6. <<m - 1, m>> \in OpToRel(<, Nat)
    BY <2>2, <2>4 DEF OpToRel
  <2> QED BY <1>2, <2>5, <2>6
<1>4. \A x \in S : m >= x
  BY <1>2
<1>5. \E x \in S : \A y \in S : x >= y
  BY <1>3, <1>4
<1>6. Max(S) \in S /\ \A y \in S : Max(S) >= y
  BY <1>5 DEF Max
<1> QED BY <1>6

-----------------------------------------------------------------------------
(* Folds over sequences *)

\* A fold of W over n places, as it goes: its steps, and the table of them
FoldStep(W, base, t, s) ==
  IF s = {} THEN base ELSE LET x == Max(s) IN W[x][t[s \ {x}]]
\* A step for every place, and what it is to fold by them
Steps(n, A) == [1 .. n -> [A -> A]]
FoldsTo(n, A, W, base, f) ==
  /\ f \in [SUBSET (1 .. n) -> A]
  /\ \A s \in SUBSET (1 .. n) : f[s] = FoldStep(W, base, f, s)

\* A step looks at one set, with one member less.
LEMMA FoldLooksBelow ==
  ASSUME NEW n \in Nat, NEW s \in SUBSET (1 .. n), NEW W, NEW base, NEW f, NEW g,
         \A t \in SUBSET s : Cardinality(t) < Cardinality(s) => f[t] = g[t]
  PROVE  FoldStep(W, base, f, s) = FoldStep(W, base, g, s)
<1>1. CASE s = {}
  BY <1>1 DEF FoldStep
<1>2. CASE s # {}
  <2> DEFINE x == Max(s)
  <2>1. x \in s
    BY <1>2, LargestNumber, s \in SUBSET (0 .. n)
  <2> HIDE DEF x
  <2>2. IsFiniteSet(s)
    BY FS_Interval, FS_Subset, 1 \in Int, n \in Int
  <2>3. Cardinality(s \ {x}) = Cardinality(s) - 1 /\ Cardinality(s) \in Nat
    BY <2>1, <2>2, FS_RemoveElement, FS_CardinalityType
  <2>4. f[s \ {x}] = g[s \ {x}]
    BY <2>3
  <2> QED BY <1>2, <2>4 DEF FoldStep, x
<1> QED BY <1>1, <1>2

\* There is such a table: it can be filled in by the size of the sets, and its
\* values stay in a set that the step does not leave.
LEMMA FoldTable ==
  ASSUME NEW n \in Nat, NEW A, NEW W \in Steps(n, A), NEW base \in A
  PROVE  \E f : FoldsTo(n, A, W, base, f)
<1> DEFINE S == 1 .. n
           UpTo(m) == {s \in SUBSET S : Cardinality(s) < m}
           Fills(g, m) == \A s \in UpTo(m) : g[s] \in A /\ g[s] = FoldStep(W, base, g, s)
           G == {m \in Nat : \E g : Fills(g, m)}
<1>0. IsFiniteSet(S)
  BY FS_Interval, 1 \in Int, n \in Int
<1> HIDE DEF S
<1>1. \A s \in SUBSET S : IsFiniteSet(s) /\ Cardinality(s) \in Nat
                          /\ Cardinality(s) <= Cardinality(S)
  BY <1>0, FS_Subset, FS_CardinalityType
<1>2. 0 \in G
  BY <1>1
<1>3. ASSUME NEW m \in Nat, m \in G PROVE m + 1 \in G
  <2>1. PICK g : Fills(g, m)
    BY <1>3
  <2> DEFINE h == [s \in SUBSET S |-> IF Cardinality(s) < m THEN g[s]
                                      ELSE FoldStep(W, base, g, s)]
  <2>2. ASSUME NEW s \in UpTo(m + 1) PROVE h[s] \in A /\ h[s] = FoldStep(W, base, h, s)
    <3>0. s \in SUBSET (1 .. n)
      BY <2>2 DEF S
    <3>1. h[s] = FoldStep(W, base, g, s)
      BY <2>1, <2>2
    <3>2. \A t \in SUBSET s : Cardinality(t) < Cardinality(s) => g[t] = h[t]
      BY <1>1, <2>2
    <3>3. FoldStep(W, base, g, s) \in A
      <4>1. CASE s = {}
        BY <4>1 DEF FoldStep
      <4>2. CASE s # {}
        <5> DEFINE x == Max(s)
        <5>1. x \in s
          BY <3>0, <4>2, LargestNumber, s \in SUBSET (0 .. n)
        <5> HIDE DEF x
        <5>2. Cardinality(s \ {x}) = Cardinality(s) - 1
          BY <1>1, <2>2, <5>1, FS_RemoveElement
        <5>3. s \ {x} \in UpTo(m)
          BY <1>1, <2>2, <5>2
        <5>4. g[s \ {x}] \in A
          BY <2>1, <5>3
        <5>5. W[x][g[s \ {x}]] \in A
          BY <3>0, <5>1, <5>4 DEF Steps
        <5> QED BY <4>2, <5>5 DEF FoldStep, x
      <4> QED BY <4>1, <4>2
    <3> HIDE DEF h
    <3>4. FoldStep(W, base, g, s) = FoldStep(W, base, h, s)
      BY <3>0, <3>2, FoldLooksBelow
    <3> QED BY <3>1, <3>3, <3>4
  <2>3. Fills(h, m + 1)
    BY <2>2
  <2> HIDE DEF Fills, h
  <2> QED BY <2>3
<1>4. Cardinality(S) + 1 \in Nat
  BY <1>0, FS_CardinalityType
<1>5. PICK g : Fills(g, Cardinality(S) + 1)
  <2>1. Cardinality(S) + 1 \in G
    <3> HIDE DEF G
    <3> QED BY <1>2, <1>3, <1>4, AllNumbers
  <2> QED BY <2>1
<1> DEFINE f == [s \in SUBSET S |-> g[s]]
<1>6. ASSUME NEW s \in SUBSET S PROVE f[s] \in A /\ f[s] = FoldStep(W, base, f, s)
  <2>1. f[s] \in A /\ f[s] = FoldStep(W, base, g, s)
    BY <1>1, <1>4, <1>5
  <2>2. \A t \in SUBSET s : Cardinality(t) < Cardinality(s) => g[t] = f[t]
    OBVIOUS
  <2>3. s \in SUBSET (1 .. n)
    BY DEF S
  <2> HIDE DEF f
  <2> QED BY <2>1, <2>2, <2>3, FoldLooksBelow
<1>7. f \in [SUBSET S -> A]
  BY <1>6
<1> HIDE DEF f
<1> QED BY <1>6, <1>7 DEF S, FoldsTo

\* The places up to i, without the last of them
LEMMA PlacesUpTo ==
  ASSUME NEW n \in Nat, NEW i \in 1 .. n
  PROVE  /\ 1 .. i \in SUBSET (1 .. n) /\ 1 .. i # {}
         /\ Max(1 .. i) = i
         /\ (1 .. i) \ {i} = 1 .. (i - 1)
<1>1. 1 .. i \in SUBSET (0 .. n) /\ 1 .. i # {} /\ i \in 1 .. i
  OBVIOUS
<1>2. Max(1 .. i) \in 1 .. i /\ i <= Max(1 .. i)
  BY ONLY <1>1, LargestNumber, n \in Nat
<1> QED BY <1>1, <1>2

-----------------------------------------------------------------------------
(* The answer to the order query, row by row *)

\* What the answer has made of the session so far, and what is known in it
RowAcc ==
  [records : [Refs -> Record], daily : Daily, nextRef : 1 .. MaxRef + 1,
   exit : Refs \cup {0}, events : Seq(JournalEvent), failed : BOOLEAN]

KnownIn(rs) == {r \in Refs : rs[r].state # "None"}

\* References and limits are numbers.
LEMMA RefsAreNumbers == MaxRef \in Nat /\ Refs \subseteq Nat /\ 0 \notin Refs
                        /\ MaxOrders \in Nat /\ MaxSignals \in Nat /\ MaxCancels \in Nat
BY RestartAssumption DEF Refs

\* What the journal says of a report
LEMMA ReportEventType ==
  ASSUME NEW r \in Refs, NEW state
  PROVE  /\ ReportEvent(r, state) \in JournalEvent
         /\ ReportEvent(r, state).ref = r
         /\ ReportEvent(r, state).kind = IF state = "Done" THEN "Ended" ELSE "Reported"
BY RefsAreNumbers DEF ReportEvent, Event, JournalEvent, Offsets, NoneToday, Daily, Refs

\* An imported order raises the counts, up to their limits.
LEMMA CountImportType ==
  ASSUME NEW d \in Daily, NEW offset \in Offsets
  PROVE  /\ CountImport(d, offset) \in Daily
         /\ CountImport(d, offset).orders = Capped(d.orders, MaxOrders)
         /\ CountImport(d, offset).signals =
              IF offset = "Open" THEN Capped(d.signals, MaxSignals) ELSE d.signals
         /\ CountImport(d, offset).cancels = d.cancels
<1>1. /\ d.orders \in 0 .. MaxOrders /\ d.signals \in 0 .. MaxSignals
      /\ d.cancels \in 0 .. MaxCancels
      /\ d = [signals |-> d.signals, orders |-> d.orders, cancels |-> d.cancels]
  BY DEF Daily
<1>2. /\ Capped(d.orders, MaxOrders) \in 0 .. MaxOrders
      /\ Capped(d.signals, MaxSignals) \in 0 .. MaxSignals
  BY <1>1, RefsAreNumbers DEF Capped
<1>3. CASE offset = "Open"
  BY <1>1, <1>2, <1>3 DEF CountImport, Daily
<1>4. CASE offset # "Open"
  BY <1>1, <1>2, <1>4 DEF CountImport, Daily
<1> QED BY <1>3, <1>4

\* What a row does to the records, counts and references taken so far, if
\* nothing fails
RowTaken(acc, ref, new) ==
  LET known == acc.records[ref].state # "None" IN
  /\ ~acc.failed
  /\ \A r \in Refs \ {ref} : new.records[r] = acc.records[r]
  /\ new.records[ref].state = orders[ref].status
  /\ new.records[ref].offset =
       IF known THEN acc.records[ref].offset ELSE orders[ref].offset
  /\ new.daily = IF known THEN acc.daily ELSE CountImport(acc.daily, orders[ref].offset)
  /\ new.nextRef = IF known THEN acc.nextRef ELSE Later(acc.nextRef, ref + 1)
  /\ new.events \in {acc.events,
                      Append(acc.events, ReportEvent(ref, orders[ref].status))}

\* A row fails, finds the answer failed already, or is taken in (import_owned_order
\* and the state of the row).
LEMMA TakeRowType ==
  ASSUME orders \in [Refs -> CounterOrder], NEW acc \in RowAcc, NEW ref \in Refs
  PROVE  /\ TakeRow(acc, ref) \in RowAcc
         /\ \/ TakeRow(acc, ref) = acc /\ acc.failed
            \/ TakeRow(acc, ref) = [acc EXCEPT !.failed = TRUE]
            \/ RowTaken(acc, ref, TakeRow(acc, ref))
<1> DEFINE order == orders[ref]
           known == acc.records[ref].state # "None"
           full == Cardinality({r \in Refs : acc.records[r].state # "None"})
                     >= RecordCapacity
           record == IF known THEN acc.records[ref] ELSE ImportedRecord(ref)
           follows == /\ record.origin = "Counter" /\ order.offset = "Close"
                      /\ order.status \in Live
           taken == [records |-> [acc.records EXCEPT
                          ![ref] = [record EXCEPT !.state = order.status,
                                                  !.seen = TRUE]],
           daily |-> IF known THEN acc.daily
                     ELSE CountImport(acc.daily, order.offset),
           nextRef |-> IF known THEN acc.nextRef
                       ELSE RefAfterImport(acc.nextRef, ref),
           exit |-> IF follows /\ acc.exit = 0 THEN ref ELSE acc.exit,
           events |-> IF record.state = order.status THEN acc.events
                      ELSE Append(acc.events, ReportEvent(ref, order.status)),
           failed |-> follows /\ acc.exit \notin {0, ref}]
<1>1. order.offset \in Offsets /\ order.status \in States /\ order \in CounterOrder
  BY DEF CounterOrder
<1>2. /\ acc.records \in [Refs -> Record] /\ acc.daily \in Daily /\ acc.failed \in BOOLEAN
      /\ acc.nextRef \in 1 .. MaxRef + 1 /\ acc.events \in Seq(JournalEvent)
      /\ acc.exit \in Refs \cup {0}
  BY DEF RowAcc
<1>3. record \in Record
  <2>1. ImportedRecord(ref) \in Record
    BY <1>1, RefsAreNumbers DEF ImportedRecord, Record, States, Live
  <2> QED BY <1>2, <2>1
<1>4. [acc EXCEPT !.failed = TRUE] \in RowAcc
  BY DEF RowAcc
<1>5. taken \in RowAcc
  <2>1. [record EXCEPT !.state = order.status, !.seen = TRUE] \in Record
    BY <1>1, <1>3 DEF Record
  <2>2. taken.records \in [Refs -> Record]
    BY <1>2, <2>1
  <2>3. taken.daily \in Daily
    BY <1>1, <1>2, CountImportType
  <2>4. taken.nextRef \in 1 .. MaxRef + 1
    BY <1>2, RefsAreNumbers DEF RefAfterImport, Later, Refs
  <2>5. taken.events \in Seq(JournalEvent)
    BY <1>2, ReportEventType, AppendProperties
  <2>6. taken.failed \in BOOLEAN /\ taken.exit \in Refs \cup {0}
    BY <1>2
  <2> HIDE DEF record, order, known, follows
  <2> QED BY <2>2, <2>3, <2>4, <2>5, <2>6 DEF RowAcc
<1>6. TakeRow(acc, ref) = IF acc.failed THEN acc
                          ELSE IF ~known /\ full THEN [acc EXCEPT !.failed = TRUE]
                          ELSE taken
  BY Zenon DEF TakeRow
<1>7. ASSUME ~acc.failed PROVE RowTaken(acc, ref, taken)
  <2>1. record \in Record
    BY <1>3
  <2>2. /\ taken.records[ref] = [record EXCEPT !.state = order.status, !.seen = TRUE]
        /\ \A r \in Refs \ {ref} : taken.records[r] = acc.records[r]
    BY <1>2
  <2>3. taken.records[ref].state = order.status /\ taken.records[ref].offset = record.offset
    <3> HIDE DEF record, taken
    <3> QED BY <2>1, <2>2 DEF Record
  <2>4. record.offset = IF known THEN acc.records[ref].offset ELSE order.offset
    BY DEF ImportedRecord
  <2>5. /\ taken.daily = IF known THEN acc.daily ELSE CountImport(acc.daily, order.offset)
        /\ taken.nextRef = IF known THEN acc.nextRef ELSE Later(acc.nextRef, ref + 1)
        /\ taken.events \in {acc.events, Append(acc.events, ReportEvent(ref, order.status))}
    BY DEF RefAfterImport
  <2> HIDE DEF taken, record
  <2> QED BY <1>7, <2>2, <2>3, <2>4, <2>5 DEF RowTaken
<1> HIDE DEF taken, known, full
<1> QED BY <1>4, <1>5, <1>6, <1>7

\* The table of the fold of TakeRow
RowTable(rows, base) ==
  CHOOSE t : t = [s \in SUBSET DOMAIN rows |->
                    IF s = {} THEN base
                    ELSE LET x == Max(s) IN TakeRow(t[s \ {x}], rows[x])]

\* The fold is the last entry of its table.
LEMMA RowsFromTable ==
  ASSUME NEW rows, NEW base
  PROVE  FoldLeft(TakeRow, base, rows) = RowTable(rows, base)[DOMAIN rows]
BY DEF FoldLeft, MapThenFoldSet, RowTable

\* The answer is taken row by row, from the first on.
LEMMA RowsTaken ==
  ASSUME orders \in [Refs -> CounterOrder], NEW base \in RowAcc,
         NEW n \in Nat, NEW rows \in [1 .. n -> Refs]
  PROVE  \E acc \in [0 .. n -> RowAcc] :
           /\ acc[0] = base
           /\ \A i \in 1 .. n : acc[i] = TakeRow(acc[i - 1], rows[i])
           /\ FoldLeft(TakeRow, base, rows) = acc[n]
<1> DEFINE W == [i \in 1 .. n |-> [a \in RowAcc |-> TakeRow(a, rows[i])]]
           Step(t, s) == IF s = {} THEN base
                         ELSE LET x == Max(s) IN TakeRow(t[s \ {x}], rows[x])
<1>1. W \in Steps(n, RowAcc)
  <2>1. \A a \in RowAcc, i \in 1 .. n : TakeRow(a, rows[i]) \in RowAcc
    BY TakeRowType
  <2> QED BY <2>1 DEF Steps
<1>2. PICK f : FoldsTo(n, RowAcc, W, base, f)
  <2> HIDE DEF W
  <2> QED BY <1>1, FoldTable
<1>3. ASSUME NEW s \in SUBSET (1 .. n) PROVE f[s] = Step(f, s)
  <2>1. CASE s = {}
    BY <1>2, <2>1 DEF FoldStep, FoldsTo
  <2>2. CASE s # {}
    <3> DEFINE x == Max(s)
    <3>1. x \in s /\ x \in 1 .. n
      BY <2>2, LargestNumber, s \in SUBSET (0 .. n)
    <3> HIDE DEF x
    <3>2. f[s \ {x}] \in RowAcc
      BY <1>2 DEF FoldsTo
    <3>3. W[x][f[s \ {x}]] = TakeRow(f[s \ {x}], rows[x])
      BY <3>1, <3>2
    <3>4. f[s] = W[x][f[s \ {x}]]
      BY <1>2, <2>2 DEF FoldStep, FoldsTo, x
    <3>5. Step(f, s) = TakeRow(f[s \ {x}], rows[x])
      BY <2>2 DEF x
    <3> QED BY <3>3, <3>4, <3>5
  <2> QED BY <2>1, <2>2
<1>4. f = [s \in SUBSET DOMAIN rows |-> Step(f, s)]
  BY <1>2, <1>3 DEF FoldsTo
<1> DEFINE t == RowTable(rows, base)
<1>5. t = [s \in SUBSET DOMAIN rows |-> Step(t, s)]
  BY <1>4 DEF RowTable
<1> HIDE DEF t
<1>6. ASSUME NEW s \in SUBSET (1 .. n) PROVE t[s] = Step(t, s)
  BY <1>5
<1>7. t[1 .. 0] = base
  <2>1. 1 .. 0 = {}
    OBVIOUS
  <2> QED BY <1>6, <2>1
<1>8. ASSUME NEW i \in 1 .. n PROVE t[1 .. i] = TakeRow(t[1 .. (i - 1)], rows[i])
  <2>1. t[1 .. i] = Step(t, 1 .. i)
    BY <1>6, PlacesUpTo
  <2>2. Step(t, 1 .. i) = TakeRow(t[(1 .. i) \ {i}], rows[i])
    BY PlacesUpTo
  <2> QED BY <2>1, <2>2, PlacesUpTo
<1> DEFINE G == {i \in Nat : i <= n => t[1 .. i] \in RowAcc}
<1>9. 0 \in G
  BY <1>7
<1>10. ASSUME NEW i \in Nat, i \in G PROVE i + 1 \in G
  <2> SUFFICES ASSUME i + 1 <= n PROVE t[1 .. (i + 1)] \in RowAcc
    OBVIOUS
  <2>1. i + 1 \in 1 .. n /\ (i + 1) - 1 = i /\ i <= n
    OBVIOUS
  <2>2. t[1 .. (i + 1)] = TakeRow(t[1 .. i], rows[i + 1])
    BY <1>8, <2>1
  <2>3. t[1 .. i] \in RowAcc /\ rows[i + 1] \in Refs
    BY <1>10, <2>1
  <2> QED BY <2>2, <2>3, TakeRowType
<1>11. \A i \in Nat : i \in G
  <2> HIDE DEF G
  <2> QED BY <1>9, <1>10, AllNumbers
<1> DEFINE acc == [i \in 0 .. n |-> t[1 .. i]]
<1>12. acc \in [0 .. n -> RowAcc]
  <2>1. ASSUME NEW i \in 0 .. n PROVE t[1 .. i] \in RowAcc
    <3>1. i \in Nat /\ i <= n
      OBVIOUS
    <3> QED BY <1>11, <3>1
  <2> HIDE DEF G
  <2> QED BY <2>1
<1>13. acc[0] = base /\ acc[n] = t[1 .. n]
  BY <1>7
<1>14. \A i \in 1 .. n : acc[i] = TakeRow(acc[i - 1], rows[i])
  <2>1. \A i \in 1 .. n : i - 1 \in 0 .. n /\ i \in 0 .. n
    OBVIOUS
  <2> QED BY <1>8, <2>1
<1>15. FoldLeft(TakeRow, base, rows) = acc[n]
  BY <1>13, RowsFromTable DEF t
<1> HIDE DEF acc
<1> QED BY <1>12, <1>13, <1>14, <1>15

-----------------------------------------------------------------------------
(* Counting the orders of the day *)

\* There are finitely many references.
LEMMA RefsFinite == IsFiniteSet(Refs)
BY RefsAreNumbers, FS_Interval, 1 \in Int, MaxRef \in Int DEF Refs

\* Counts that leave nothing out leave nothing out of a part either.
LEMMA CountsFewer ==
  ASSUME NEW d \in Daily, NEW a \in SUBSET Refs, NEW b \in SUBSET Refs, CountsAll(d, a, b),
         NEW s \in SUBSET a, NEW t \in SUBSET b
  PROVE  CountsAll(d, s, t)
<1>1. IsFiniteSet(a) /\ IsFiniteSet(b)
  BY RefsFinite, FS_Subset
<1>2. /\ Cardinality(s) <= Cardinality(a) /\ Cardinality(t) <= Cardinality(b)
      /\ IsFiniteSet(s) /\ IsFiniteSet(t)
  BY <1>1, FS_Subset
<1>3. {Cardinality(a), Cardinality(b), Cardinality(s), Cardinality(t)} \subseteq Nat
  BY <1>1, <1>2, FS_CardinalityType
<1>4. d.orders \in Nat /\ d.signals \in Nat
  BY RefsAreNumbers DEF Daily
<1> QED BY <1>2, <1>3, <1>4 DEF CountsAll

\* Counting one order more keeps the counts complete.
LEMMA CountsOneMore ==
  ASSUME NEW d \in Daily, NEW a \in SUBSET Refs, NEW b \in SUBSET Refs, CountsAll(d, a, b),
         NEW offset \in Offsets, NEW r \in Refs
  PROVE  CountsAll(CountImport(d, offset), a \cup {r},
                   IF offset = "Open" THEN b \cup {r} ELSE b)
<1>1. IsFiniteSet(a) /\ IsFiniteSet(b)
  BY RefsFinite, FS_Subset
<1>2. {Cardinality(a), Cardinality(b)} \subseteq Nat
  BY <1>1, FS_CardinalityType
<1>3. /\ Cardinality(a \cup {r}) \in {Cardinality(a), Cardinality(a) + 1}
      /\ Cardinality(b \cup {r}) \in {Cardinality(b), Cardinality(b) + 1}
  BY <1>1, FS_AddElement
<1>4. d.orders \in 0 .. MaxOrders /\ d.signals \in 0 .. MaxSignals
  BY DEF Daily
<1>5. /\ CountImport(d, offset).orders = Capped(d.orders, MaxOrders)
      /\ CountImport(d, offset).signals =
           IF offset = "Open" THEN Capped(d.signals, MaxSignals) ELSE d.signals
  BY CountImportType
<1> DEFINE c == CountImport(d, offset)
<1>6. c.orders < MaxOrders => Cardinality(a \cup {r}) <= c.orders
  BY <1>2, <1>3, <1>4, <1>5, RefsAreNumbers DEF CountsAll, Capped
<1>7. CASE offset = "Open"
  <2>1. c.signals < MaxSignals => Cardinality(b \cup {r}) <= c.signals
    BY <1>2, <1>3, <1>4, <1>5, <1>7, RefsAreNumbers DEF CountsAll, Capped
  <2> HIDE DEF c
  <2> QED BY <1>6, <1>7, <2>1 DEF CountsAll, c
<1>8. CASE offset # "Open"
  <2>1. c.signals < MaxSignals => Cardinality(b) <= c.signals
    BY <1>2, <1>4, <1>5, <1>8 DEF CountsAll
  <2> HIDE DEF c
  <2> QED BY <1>6, <1>8, <2>1 DEF CountsAll, c
<1> QED BY <1>7, <1>8

-----------------------------------------------------------------------------
(* What the rows keep *)

\* What holds of the session at every row, as RestartInv says it of its variables
RowFacts(acc) ==
  /\ Known \subseteq KnownIn(acc.records)
  /\ \A r \in KnownIn(acc.records) : r < acc.nextRef
  /\ nextRef <= acc.nextRef
  /\ \A r \in Refs : acc.records[r].seen => r \in AtCounter
  /\ \A r \in KnownIn(acc.records) \cap AtCounter : acc.records[r].offset = orders[r].offset
  /\ Counts(acc.daily, KnownIn(acc.records))
  /\ \A i \in 1 .. Len(acc.events) :
       LET e == acc.events[i] IN
       /\ e.kind \in {"Reported", "Ended"} /\ e.ref \in Refs /\ e.ref < acc.nextRef
       /\ e.kind = "Ended" => orders[e.ref].status = "Done"

\* What is at the counter is an order with a reference.
LEMMA AtCounterRefs ==
  AtCounter \subseteq Refs /\ Entries \subseteq AtCounter /\ OpenAtCounter \subseteq AtCounter
BY DEF AtCounter, Entries, OpenAtCounter, Live

\* A row of the counter keeps what holds of the session.
LEMMA RowKeeps ==
  ASSUME orders \in [Refs -> CounterOrder], nextRef \in 1 .. MaxRef + 1,
         NEW acc \in RowAcc, NEW ref \in AtCounter, RowFacts(acc)
  PROVE  RowFacts(TakeRow(acc, ref))
<1> DEFINE new == TakeRow(acc, ref)
<1>1. /\ new \in RowAcc
      /\ \/ new = acc
         \/ new = [acc EXCEPT !.failed = TRUE]
         \/ RowTaken(acc, ref, new)
  BY TakeRowType, AtCounterRefs
<1> HIDE DEF new
<1>2. CASE new = acc
  BY <1>2 DEF new
<1>3. CASE new = [acc EXCEPT !.failed = TRUE]
  <2>1. /\ new.records = acc.records /\ new.nextRef = acc.nextRef
        /\ new.daily = acc.daily /\ new.events = acc.events
    BY <1>3 DEF RowAcc
  <2>2. RowFacts(new) = RowFacts(acc)
    BY <2>1 DEF RowFacts
  <2> QED BY <2>2 DEF new
<1>4. CASE RowTaken(acc, ref, new)
  <2>0. ref \in Refs /\ ref \in Nat /\ orders[ref].offset \in Offsets
        /\ orders[ref].status \in States \ {"None"} /\ Refs \subseteq Nat
    BY RefsAreNumbers DEF AtCounter, CounterOrder, States, Live
  <2>1. /\ acc.nextRef \in Nat /\ new.nextRef \in Nat /\ nextRef \in Nat
        /\ acc.daily \in Daily /\ new.daily \in Daily
        /\ acc.events \in Seq(JournalEvent) /\ new.events \in Seq(JournalEvent)
    BY <1>1, RefsAreNumbers DEF RowAcc
  <2>2. /\ acc.nextRef <= new.nextRef /\ ref < new.nextRef
    <3>1. CASE acc.records[ref].state # "None"
      BY <1>4, <2>0, <2>1, <3>1 DEF RowTaken, RowFacts, KnownIn
    <3>2. CASE acc.records[ref].state = "None"
      BY <1>4, <2>0, <2>1, <3>2 DEF RowTaken, Later
    <3> QED BY <3>1, <3>2
  <2>3. KnownIn(new.records) = KnownIn(acc.records) \cup {ref}
    BY <1>4, <2>0 DEF RowTaken, KnownIn
  <2>4. Known \subseteq KnownIn(new.records) /\ nextRef <= new.nextRef
    BY <2>1, <2>2, <2>3 DEF RowFacts
  <2>5. \A r \in KnownIn(new.records) : r < new.nextRef
    <3>1. KnownIn(acc.records) \subseteq Nat
      BY <2>0 DEF KnownIn
    <3> QED BY <2>0, <2>1, <2>2, <2>3, <3>1 DEF RowFacts
  <2>6. \A r \in Refs : new.records[r].seen => r \in AtCounter
    BY <1>4, <2>0 DEF RowTaken, RowFacts
  <2>7. \A r \in KnownIn(new.records) \cap AtCounter : new.records[r].offset = orders[r].offset
    BY <1>4, <2>0, <2>3 DEF RowTaken, RowFacts, KnownIn
  <2>8. Counts(new.daily, KnownIn(new.records))
    <3>1. CASE acc.records[ref].state # "None"
      <4>1. ref \in KnownIn(acc.records)
        BY <2>0, <3>1 DEF KnownIn
      <4>2. KnownIn(new.records) = KnownIn(acc.records) /\ new.daily = acc.daily
        BY <1>4, <2>3, <3>1, <4>1 DEF RowTaken
      <4> QED BY <4>2 DEF RowFacts
    <3>2. CASE acc.records[ref].state = "None"
      <4> DEFINE a == KnownIn(acc.records) \cap AtCounter
                 b == KnownIn(acc.records) \cap Entries
      <4>1. a \in SUBSET Refs /\ b \in SUBSET Refs
        BY AtCounterRefs
      <4>2. CountsAll(acc.daily, a, b)
        BY DEF RowFacts, Counts
      <4>3. KnownIn(new.records) \cap AtCounter = a \cup {ref}
        BY <2>3
      <4>4. KnownIn(new.records) \cap Entries = IF orders[ref].offset = "Open"
                                                THEN b \cup {ref} ELSE b
        BY <2>3 DEF Entries
      <4>5. new.daily = CountImport(acc.daily, orders[ref].offset)
        BY <1>4, <3>2 DEF RowTaken
      <4> HIDE DEF a, b
      <4>6. CountsAll(CountImport(acc.daily, orders[ref].offset), a \cup {ref},
                      IF orders[ref].offset = "Open" THEN b \cup {ref} ELSE b)
        BY <2>0, <2>1, <4>1, <4>2, CountsOneMore
      <4> QED BY <4>3, <4>4, <4>5, <4>6 DEF Counts
    <3> QED BY <3>1, <3>2
  <2>9. ASSUME NEW i \in 1 .. Len(new.events)
        PROVE  LET e == new.events[i] IN
               /\ e.kind \in {"Reported", "Ended"} /\ e.ref \in Refs /\ e.ref < new.nextRef
               /\ e.kind = "Ended" => orders[e.ref].status = "Done"
    <3> DEFINE report == ReportEvent(ref, orders[ref].status)
    <3>1. /\ report.ref = ref
          /\ report.kind = IF orders[ref].status = "Done" THEN "Ended" ELSE "Reported"
      BY <2>0, ReportEventType
    <3> HIDE DEF report
    <3>2. CASE i \in 1 .. Len(acc.events) /\ new.events[i] = acc.events[i]
      <4> DEFINE e == acc.events[i]
      <4>1. /\ e.kind \in {"Reported", "Ended"} /\ e.ref \in Refs /\ e.ref < acc.nextRef
            /\ e.kind = "Ended" => orders[e.ref].status = "Done"
        BY <3>2 DEF RowFacts
      <4> HIDE DEF e
      <4>2. e.ref < new.nextRef
        <5> DEFINE m == e.ref
        <5>1. m \in Nat /\ m < acc.nextRef
          BY <2>0, <4>1
        <5> HIDE DEF m
        <5>2. m < new.nextRef
          BY <2>1, <2>2, <5>1
        <5> QED BY <5>2 DEF m
      <4> QED BY <3>2, <4>1, <4>2 DEF e
    <3>3. CASE new.events[i] = report
      BY <2>0, <2>2, <3>1, <3>3
    <3>4. new.events = acc.events \/ new.events = Append(acc.events, report)
      BY <1>4 DEF RowTaken, report
    <3>5. CASE new.events = acc.events
      BY <2>9, <3>2, <3>5
    <3>6. CASE new.events = Append(acc.events, report)
      <4>1. report \in JournalEvent
        BY <2>0, ReportEventType DEF report
      <4>2. /\ Len(new.events) = Len(acc.events) + 1 /\ Len(acc.events) \in Nat
            /\ \A k \in 1 .. Len(acc.events) : new.events[k] = acc.events[k]
            /\ new.events[Len(acc.events) + 1] = report
        BY <2>1, <3>6, <4>1, AppendProperties, LenProperties
      <4>3. i \in 1 .. Len(acc.events) \/ i = Len(acc.events) + 1
        BY <2>9, <4>2
      <4> QED BY <3>2, <3>3, <4>2, <4>3
    <3> QED BY <3>4, <3>5, <3>6
  <2> QED BY <2>4, <2>5, <2>6, <2>7, <2>8, <2>9 DEF RowFacts, new
<1> QED BY <1>1, <1>2, <1>3, <1>4 DEF new

\* A whole answer keeps it too, and if nothing fails, the records have the
\* states of the counter.
LEMMA AnswerTaken ==
  ASSUME orders \in [Refs -> CounterOrder], nextRef \in 1 .. MaxRef + 1,
         NEW base \in RowAcc, RowFacts(base),
         NEW rows \in SetToAllKPermutations(AtCounter)
  PROVE  LET taken == FoldLeft(TakeRow, base, rows) IN
         /\ taken \in RowAcc /\ RowFacts(taken)
         /\ ~taken.failed /\ Len(rows) = Cardinality(AtCounter) =>
              \A r \in AtCounter : taken.records[r].state = orders[r].status
<1>0. IsFiniteSet(AtCounter)
  BY RefsFinite, AtCounterRefs, FS_Subset
<1>1. PICK s \in SUBSET AtCounter : rows \in SetToSeqs(s)
  BY DEF SetToAllKPermutations
<1> DEFINE n == Cardinality(s)
<1>2. IsFiniteSet(s) /\ n \in Nat
  BY <1>0, FS_Subset, FS_CardinalityType
<1>3. /\ rows \in [1 .. n -> s]
      /\ \A i, j \in 1 .. n : i # j => rows[i] # rows[j]
  BY <1>1 DEF SetToSeqs
<1> HIDE DEF n
<1>4. rows \in [1 .. n -> Refs]
  BY <1>3, AtCounterRefs
<1>5. Len(rows) = n
  BY <1>2, <1>4, IsASeq, LenProperties
<1>6. PICK acc \in [0 .. n -> RowAcc] :
        /\ acc[0] = base
        /\ \A i \in 1 .. n : acc[i] = TakeRow(acc[i - 1], rows[i])
        /\ FoldLeft(TakeRow, base, rows) = acc[n]
  BY <1>2, <1>4, RowsTaken
<1> DEFINE Kept(i) == /\ RowFacts(acc[i])
                      /\ ~acc[i].failed =>
                           \A k \in 1 .. i : acc[i].records[rows[k]].state
                                               = orders[rows[k]].status
           G == {i \in Nat : i <= n => Kept(i)}
<1>7. 0 \in G
  BY <1>6
<1>8. ASSUME NEW i \in Nat, i \in G PROVE i + 1 \in G
  <2> SUFFICES ASSUME i + 1 <= n PROVE Kept(i + 1)
    OBVIOUS
  <2>1. /\ i + 1 \in 1 .. n /\ (i + 1) - 1 = i /\ i <= n /\ i \in 0 .. n
        /\ i + 1 \in 0 .. n
    BY <1>2
  <2> DEFINE old == acc[i]
             ref == rows[i + 1]
             new == acc[i + 1]
  <2>2. new = TakeRow(old, ref) /\ old \in RowAcc /\ new \in RowAcc
        /\ ref \in AtCounter /\ ref \in Refs
    BY <1>3, <1>4, <1>6, <2>1
  <2>3. Kept(i)
    BY <1>8, <2>1
  <2>4. RowFacts(old)
    BY <2>3
  <2>5. RowFacts(new)
    <3> HIDE DEF old, new, ref
    <3> QED BY <2>2, <2>4, RowKeeps
  <2>6. ASSUME ~new.failed, NEW k \in 1 .. (i + 1)
        PROVE  new.records[rows[k]].state = orders[rows[k]].status
    <3>1. \/ new = old /\ old.failed
          \/ new = [old EXCEPT !.failed = TRUE]
          \/ RowTaken(old, ref, new)
      <4> HIDE DEF old, new, ref
      <4> QED BY <2>2, TakeRowType
    <3>2. [old EXCEPT !.failed = TRUE].failed = TRUE
      <4> HIDE DEF old
      <4> QED BY <2>2 DEF RowAcc
    <3>3. RowTaken(old, ref, new)
      BY <2>6, <3>1, <3>2
    <3>4. k \in 1 .. n /\ rows[k] \in Refs
      <4>1. k \in 1 .. n
        BY <1>2, <2>1
      <4> QED BY <1>4, <4>1
    <3>5. CASE rows[k] = ref
      <4> HIDE DEF old, new, ref
      <4> QED BY <3>3, <3>5 DEF RowTaken
    <3>6. CASE rows[k] # ref
      <4>1. k \in 1 .. i
        BY <3>6
      <4>2. ~old.failed
        <5> HIDE DEF old, new, ref
        <5> QED BY <3>3 DEF RowTaken
      <4>3. old.records[rows[k]].state = orders[rows[k]].status
        BY <2>3, <4>1, <4>2
      <4>4. new.records[rows[k]] = old.records[rows[k]]
        <5> HIDE DEF old, new, ref
        <5> QED BY <3>3, <3>4, <3>6 DEF RowTaken
      <4> QED BY <4>3, <4>4
    <3> QED BY <3>5, <3>6
  <2> QED BY <2>5, <2>6
<1>9. n \in G
  <2>1. \A i \in Nat : i \in G
    <3> HIDE DEF G
    <3> QED BY <1>7, <1>8, AllNumbers
  <2> QED BY <1>2, <2>1
<1>10. Kept(n) /\ acc[n] \in RowAcc
  BY <1>2, <1>6, <1>9
<1>11. ASSUME n = Cardinality(AtCounter), NEW r \in AtCounter
       PROVE  \E k \in 1 .. n : rows[k] = r
  <2>1. s = AtCounter
    BY <1>0, <1>11, FS_Subset DEF n
  <2>2. rows \in Injection(1 .. n, s)
    BY <1>3 DEF Injection, IsInjective
  <2>3. Cardinality(1 .. n) = Cardinality(s)
    BY <1>2, FS_Interval DEF n
  <2>4. rows \in Surjection(1 .. n, s)
    BY <1>2, <2>2, <2>3, FS_Injection
  <2> QED BY <2>1, <2>4 DEF Surjection
<1> HIDE DEF Kept
<1>12. ASSUME ~acc[n].failed, n = Cardinality(AtCounter), NEW r \in AtCounter
       PROVE  acc[n].records[r].state = orders[r].status
  BY <1>10, <1>11, <1>12 DEF Kept
<1>13. RowFacts(acc[n])
  BY <1>10 DEF Kept
<1> QED BY <1>5, <1>6, <1>10, <1>12, <1>13

-----------------------------------------------------------------------------
(* The restart image, event by event *)

\* The part of the image that the events decide
Uncertain == [valid : BOOLEAN, uncertain : SUBSET JournalEvent]

\* What an event does to the image, if it does not make it worthless
EventTaken(acc, e, new) ==
  /\ acc.uncertain \subseteq new.uncertain
     \/ /\ e.kind = "Ended"
        /\ new.uncertain = {s \in acc.uncertain : s.ref # e.ref}
  /\ new.uncertain \subseteq acc.uncertain \cup {e}
  /\ e \in new.uncertain \ acc.uncertain => e.kind = "Submitted"
  /\ new.valid => acc.valid
  /\ e.kind = "Submitted" => ~new.valid \/ e \in new.uncertain

\* Every event does to the image one of the things build_restart_image knows.
LEMMA TakeEventType ==
  ASSUME NEW acc \in Uncertain, NEW e \in JournalEvent
  PROVE  /\ TakeEvent(acc, e) \in Uncertain
         /\ EventTaken(acc, e, TakeEvent(acc, e))
<1>1. acc.valid \in BOOLEAN /\ acc.uncertain \in SUBSET JournalEvent
  BY DEF Uncertain
<1>2. CASE e.kind = "Submitted"
  <2>1. CASE \E s \in acc.uncertain : s.ref = e.ref \/ s.signal = e.signal
    <3>1. TakeEvent(acc, e) = [acc EXCEPT !.valid = FALSE]
      BY <1>2, <2>1 DEF TakeEvent
    <3> QED BY <1>1, <3>1 DEF Uncertain, EventTaken
  <2>2. CASE ~\E s \in acc.uncertain : s.ref = e.ref \/ s.signal = e.signal
    <3>1. TakeEvent(acc, e) = [acc EXCEPT !.uncertain = @ \cup {e}]
      BY <1>2, <2>2 DEF TakeEvent
    <3> QED BY <1>1, <1>2, <3>1 DEF Uncertain, EventTaken
  <2> QED BY <2>1, <2>2
<1>3. CASE e.kind = "Ended"
  <2>1. TakeEvent(acc, e) = [acc EXCEPT !.uncertain = {s \in @ : s.ref # e.ref}]
    BY <1>3 DEF TakeEvent
  <2> QED BY <1>1, <1>3, <2>1 DEF Uncertain, EventTaken
<1>4. CASE e.kind \notin {"Submitted", "Ended"}
  <2>1. TakeEvent(acc, e) = acc
    BY <1>4 DEF TakeEvent
  <2> QED BY <1>1, <1>4, <2>1 DEF Uncertain, EventTaken
<1> QED BY <1>2, <1>3, <1>4

\* The table of the fold of TakeEvent
EventTable(events, base) ==
  CHOOSE t : t = [s \in SUBSET DOMAIN events |->
                    IF s = {} THEN base
                    ELSE LET x == Max(s) IN TakeEvent(t[s \ {x}], events[x])]

\* The fold is the last entry of its table.
LEMMA EventsFromTable ==
  ASSUME NEW events, NEW base
  PROVE  FoldLeft(TakeEvent, base, events) = EventTable(events, base)[DOMAIN events]
BY DEF FoldLeft, MapThenFoldSet, EventTable

\* The image is built event by event, from the first on.
LEMMA EventsTaken ==
  ASSUME NEW base \in Uncertain,
         NEW n \in Nat, NEW events \in [1 .. n -> JournalEvent]
  PROVE  \E acc \in [0 .. n -> Uncertain] :
           /\ acc[0] = base
           /\ \A i \in 1 .. n : acc[i] = TakeEvent(acc[i - 1], events[i])
           /\ FoldLeft(TakeEvent, base, events) = acc[n]
<1> DEFINE W == [i \in 1 .. n |-> [a \in Uncertain |-> TakeEvent(a, events[i])]]
           Step(t, s) == IF s = {} THEN base
                         ELSE LET x == Max(s) IN TakeEvent(t[s \ {x}], events[x])
<1>1. W \in Steps(n, Uncertain)
  <2>1. \A a \in Uncertain, i \in 1 .. n : TakeEvent(a, events[i]) \in Uncertain
    BY TakeEventType
  <2> QED BY <2>1 DEF Steps
<1>2. PICK f : FoldsTo(n, Uncertain, W, base, f)
  <2> HIDE DEF W
  <2> QED BY <1>1, FoldTable
<1>3. ASSUME NEW s \in SUBSET (1 .. n) PROVE f[s] = Step(f, s)
  <2>1. CASE s = {}
    BY <1>2, <2>1 DEF FoldStep, FoldsTo
  <2>2. CASE s # {}
    <3> DEFINE x == Max(s)
    <3>1. x \in s /\ x \in 1 .. n
      BY <2>2, LargestNumber, s \in SUBSET (0 .. n)
    <3> HIDE DEF x
    <3>2. f[s \ {x}] \in Uncertain
      BY <1>2 DEF FoldsTo
    <3>3. W[x][f[s \ {x}]] = TakeEvent(f[s \ {x}], events[x])
      BY <3>1, <3>2
    <3>4. f[s] = W[x][f[s \ {x}]]
      BY <1>2, <2>2 DEF FoldStep, FoldsTo, x
    <3>5. Step(f, s) = TakeEvent(f[s \ {x}], events[x])
      BY <2>2 DEF x
    <3> QED BY <3>3, <3>4, <3>5
  <2> QED BY <2>1, <2>2
<1>4. f = [s \in SUBSET DOMAIN events |-> Step(f, s)]
  BY <1>2, <1>3 DEF FoldsTo
<1> DEFINE t == EventTable(events, base)
<1>5. t = [s \in SUBSET DOMAIN events |-> Step(t, s)]
  BY <1>4 DEF EventTable
<1> HIDE DEF t
<1>6. ASSUME NEW s \in SUBSET (1 .. n) PROVE t[s] = Step(t, s)
  BY <1>5
<1>7. t[1 .. 0] = base
  <2>1. 1 .. 0 = {}
    OBVIOUS
  <2> QED BY <1>6, <2>1
<1>8. ASSUME NEW i \in 1 .. n PROVE t[1 .. i] = TakeEvent(t[1 .. (i - 1)], events[i])
  <2>1. t[1 .. i] = Step(t, 1 .. i)
    BY <1>6, PlacesUpTo
  <2>2. Step(t, 1 .. i) = TakeEvent(t[(1 .. i) \ {i}], events[i])
    BY PlacesUpTo
  <2> QED BY <2>1, <2>2, PlacesUpTo
<1> DEFINE G == {i \in Nat : i <= n => t[1 .. i] \in Uncertain}
<1>9. 0 \in G
  BY <1>7
<1>10. ASSUME NEW i \in Nat, i \in G PROVE i + 1 \in G
  <2> SUFFICES ASSUME i + 1 <= n PROVE t[1 .. (i + 1)] \in Uncertain
    OBVIOUS
  <2>1. i + 1 \in 1 .. n /\ (i + 1) - 1 = i /\ i <= n
    OBVIOUS
  <2>2. t[1 .. (i + 1)] = TakeEvent(t[1 .. i], events[i + 1])
    BY <1>8, <2>1
  <2>3. t[1 .. i] \in Uncertain /\ events[i + 1] \in JournalEvent
    BY <1>10, <2>1
  <2> QED BY <2>2, <2>3, TakeEventType
<1>11. \A i \in Nat : i \in G
  <2> HIDE DEF G
  <2> QED BY <1>9, <1>10, AllNumbers
<1> DEFINE acc == [i \in 0 .. n |-> t[1 .. i]]
<1>12. acc \in [0 .. n -> Uncertain]
  <2>1. ASSUME NEW i \in 0 .. n PROVE t[1 .. i] \in Uncertain
    <3>1. i \in Nat /\ i <= n
      OBVIOUS
    <3> QED BY <1>11, <3>1
  <2> HIDE DEF G
  <2> QED BY <2>1
<1>13. acc[0] = base /\ acc[n] = t[1 .. n]
  BY <1>7
<1>14. \A i \in 1 .. n : acc[i] = TakeEvent(acc[i - 1], events[i])
  <2>1. \A i \in 1 .. n : i - 1 \in 0 .. n /\ i \in 0 .. n
    OBVIOUS
  <2> QED BY <1>8, <2>1
<1>15. FoldLeft(TakeEvent, base, events) = acc[n]
  BY <1>13, EventsFromTable DEF t
<1> HIDE DEF acc
<1> QED BY <1>12, <1>13, <1>14, <1>15

\* The image holds what was submitted and not ended since, and no more.
LEMMA ImageTaken ==
  ASSUME NEW events \in Seq(JournalEvent)
  PROVE  LET taken == FoldLeft(TakeEvent, [valid |-> TRUE, uncertain |-> {}], events)
         IN /\ taken \in Uncertain
            /\ taken.uncertain \subseteq {e \in Range(events) : e.kind = "Submitted"}
            /\ taken.valid =>
                 \A e \in Range(events) : e.kind = "Submitted" =>
                   \/ \E s \in taken.uncertain : s.ref = e.ref
                   \/ \E d \in Range(events) : d.kind = "Ended" /\ d.ref = e.ref
<1> DEFINE n == Len(events)
           base == [valid |-> TRUE, uncertain |-> {}]
<1>1. n \in Nat /\ events \in [1 .. n -> JournalEvent] /\ DOMAIN events = 1 .. n
  BY LenProperties
<1>2. base \in Uncertain
  BY DEF Uncertain
<1> HIDE DEF n, base
<1>3. PICK acc \in [0 .. n -> Uncertain] :
        /\ acc[0] = base
        /\ \A i \in 1 .. n : acc[i] = TakeEvent(acc[i - 1], events[i])
        /\ FoldLeft(TakeEvent, base, events) = acc[n]
  BY <1>1, <1>2, EventsTaken
<1> DEFINE Holds(i) ==
             /\ \A s \in acc[i].uncertain :
                  s.kind = "Submitted" /\ \E k \in 1 .. i : s = events[k]
             /\ acc[i].valid =>
                  \A k \in 1 .. i : events[k].kind = "Submitted" =>
                    \/ \E s \in acc[i].uncertain : s.ref = events[k].ref
                    \/ \E m \in 1 .. i : /\ events[m].kind = "Ended"
                                          /\ events[m].ref = events[k].ref
           G == {i \in Nat : i <= n => Holds(i)}
<1>4. 0 \in G
  BY <1>3 DEF base
<1>5. ASSUME NEW i \in Nat, i \in G PROVE i + 1 \in G
  <2> SUFFICES ASSUME i + 1 <= n PROVE Holds(i + 1)
    OBVIOUS
  <2>1. /\ i + 1 \in 1 .. n /\ (i + 1) - 1 = i /\ i <= n /\ i \in 0 .. n
        /\ i + 1 \in 0 .. n
    BY <1>1
  <2> DEFINE old == acc[i]
             e == events[i + 1]
             new == acc[i + 1]
  <2>2. new = TakeEvent(old, e) /\ old \in Uncertain /\ e \in JournalEvent
    BY <1>1, <1>3, <2>1
  <2>3. EventTaken(old, e, new)
    <3> HIDE DEF old, new, e
    <3> QED BY <2>2, TakeEventType
  <2>4. Holds(i)
    BY <1>5, <2>1
  <2>5. ASSUME NEW s \in new.uncertain
        PROVE  s.kind = "Submitted" /\ \E k \in 1 .. (i + 1) : s = events[k]
    <3>1. s \in old.uncertain \/ (s = e /\ s.kind = "Submitted")
      <4> HIDE DEF old, new, e
      <4> QED BY <2>3 DEF EventTaken
    <3>2. CASE s \in old.uncertain
      <4>1. s.kind = "Submitted" /\ \E k \in 1 .. i : s = events[k]
        BY <2>4, <3>2
      <4> QED BY <4>1
    <3>3. CASE s = e /\ s.kind = "Submitted"
      BY <3>3
    <3> QED BY <3>1, <3>2, <3>3
  <2>6. ASSUME new.valid, NEW k \in 1 .. (i + 1), events[k].kind = "Submitted"
        PROVE  \/ \E s \in new.uncertain : s.ref = events[k].ref
               \/ \E m \in 1 .. (i + 1) : /\ events[m].kind = "Ended"
                                           /\ events[m].ref = events[k].ref
    <3>1. CASE k = i + 1
      <4>1. e.kind = "Submitted"
        BY <2>6, <3>1
      <4>2. e \in new.uncertain
        <5> HIDE DEF old, new, e
        <5> QED BY <2>3, <2>6, <4>1 DEF EventTaken
      <4> QED BY <3>1, <4>2
    <3>2. CASE k \in 1 .. i
      <4>1. old.valid
        <5> HIDE DEF old, new, e
        <5> QED BY <2>3, <2>6 DEF EventTaken
      <4>2. \/ \E s \in old.uncertain : s.ref = events[k].ref
            \/ \E m \in 1 .. i : /\ events[m].kind = "Ended"
                                  /\ events[m].ref = events[k].ref
        BY <2>4, <2>6, <3>2, <4>1
      <4>3. ASSUME NEW s \in old.uncertain, s.ref = events[k].ref
            PROVE  s \in new.uncertain \/ (e.kind = "Ended" /\ e.ref = events[k].ref)
        <5> HIDE DEF old, new, e
        <5> QED BY <2>3, <4>3 DEF EventTaken
      <4>4. \A m \in 1 .. i : m \in 1 .. (i + 1)
        OBVIOUS
      <4>5. i + 1 \in 1 .. (i + 1)
        OBVIOUS
      <4> QED BY <4>2, <4>3, <4>4, <4>5
    <3> QED BY <3>1, <3>2
  <2> QED BY <2>5, <2>6
<1>6. n \in G
  <2>1. \A i \in Nat : i \in G
    <3> HIDE DEF G
    <3> QED BY <1>4, <1>5, AllNumbers
  <2> QED BY <1>1, <2>1
<1>7. Holds(n) /\ acc[n] \in Uncertain
  BY <1>1, <1>3, <1>6
<1>8. Range(events) = {events[k] : k \in 1 .. n}
  BY <1>1 DEF Range
<1>9. acc[n].uncertain \subseteq {e \in Range(events) : e.kind = "Submitted"}
  BY <1>7, <1>8
<1>10. ASSUME acc[n].valid, NEW e \in Range(events), e.kind = "Submitted"
       PROVE  \/ \E s \in acc[n].uncertain : s.ref = e.ref
              \/ \E d \in Range(events) : d.kind = "Ended" /\ d.ref = e.ref
  <2>1. PICK k \in 1 .. n : e = events[k]
    BY <1>8
  <2> QED BY <1>7, <1>8, <1>10, <2>1
<1> QED BY <1>3, <1>7, <1>9, <1>10 DEF base

\* An image is worthless, or it is the one of a run that stopped cleanly and lost
\* nothing, and starts behind every reference of that run.
LEMMA ImageOf ==
  ASSUME NEW j, j.events \in Seq(JournalEvent), j.dropped \in BOOLEAN
  PROVE  /\ Image(j).valid = TRUE \/ Image(j) = NoImage
         /\ Image(j).valid =>
              /\ j.status = "Clean" /\ ~j.dropped /\ j.events # <<>>
              /\ Last(j.events).kind = "Checkpoint" /\ Last(j.events) \in Range(j.events)
              /\ Image(j).day = Last(j.events).day /\ Image(j).daily = Last(j.events).daily
              /\ Image(j).uncertain \subseteq {e \in Range(j.events) : e.kind = "Submitted"}
              /\ Image(j).nextRef \in 1 .. MaxRef + 1
              /\ \A e \in Range(j.events) : e.ref < Image(j).nextRef
              /\ \A e \in Range(j.events) : e.kind = "Submitted" =>
                   \/ \E s \in Image(j).uncertain : s.ref = e.ref
                   \/ \E d \in Range(j.events) : d.kind = "Ended" /\ d.ref = e.ref
<1> DEFINE events == j.events
           fit == /\ JournalValid(j) /\ j.status = "Clean"
                  /\ events # <<>> /\ Last(events).kind = "Checkpoint"
           taken == FoldLeft(TakeEvent, [valid |-> TRUE, uncertain |-> {}], events)
           refs == {e.ref : e \in Range(events)}
           image == [valid |-> TRUE, uncertain |-> taken.uncertain,
                     day |-> Last(events).day, daily |-> Last(events).daily,
                     nextRef |-> Max(refs) + 1]
<1>1. Image(j) = IF ~fit THEN NoImage ELSE IF ~taken.valid THEN NoImage ELSE image
  BY DEF Image
<1>2. /\ taken \in Uncertain
      /\ taken.uncertain \subseteq {e \in Range(events) : e.kind = "Submitted"}
      /\ taken.valid =>
           \A e \in Range(events) : e.kind = "Submitted" =>
             \/ \E s \in taken.uncertain : s.ref = e.ref
             \/ \E d \in Range(events) : d.kind = "Ended" /\ d.ref = e.ref
  BY ImageTaken
<1>3. ~NoImage.valid
  BY DEF NoImage
<1>4. CASE ~fit \/ ~taken.valid
  <2>1. Image(j) = NoImage
    <3> HIDE DEF fit, taken, image
    <3> QED BY <1>1, <1>4
  <2> QED BY <1>3, <2>1
<1>5. CASE fit /\ taken.valid
  <2>1. Image(j) = image
    <3> HIDE DEF fit, taken, image
    <3> QED BY <1>1, <1>5
  <2>2. ~j.dropped
    BY <1>5 DEF JournalValid
  <2>3. /\ DOMAIN events = 1 .. Len(events) /\ Len(events) \in Nat
        /\ Range(events) \subseteq JournalEvent
    BY LenProperties, RangeOfSeq
  <2>4. Len(events) \in 1 .. Len(events)
    BY <1>5, <2>3, EmptySeq, SeqEqual
  <2>5. Last(events) \in Range(events)
    BY <2>3, <2>4 DEF Range, Last
  <2>6. refs \in SUBSET (0 .. MaxRef) /\ refs # {}
    BY <2>3, <2>5 DEF JournalEvent
  <2>7. Max(refs) \in 0 .. MaxRef /\ \A x \in refs : x <= Max(refs)
    <3> HIDE DEF refs
    <3> QED BY <2>6, RefsAreNumbers, LargestNumber
  <2>8. Max(refs) + 1 \in 1 .. MaxRef + 1
    BY <2>7, RefsAreNumbers
  <2>9. ASSUME NEW e \in Range(events) PROVE e.ref < Max(refs) + 1
    <3>1. e.ref \in refs
      OBVIOUS
    <3> DEFINE x == e.ref
    <3>2. x \in refs
      BY <3>1
    <3> HIDE DEF x, refs
    <3>3. x \in 0 .. MaxRef /\ x <= Max(refs)
      BY <2>6, <2>7, <3>2
    <3>4. x < Max(refs) + 1
      BY <2>7, <3>3, RefsAreNumbers
    <3> QED BY <3>4 DEF x
  <2>10. /\ image.valid = TRUE /\ image.uncertain = taken.uncertain
         /\ image.day = Last(events).day /\ image.daily = Last(events).daily
         /\ image.nextRef = Max(refs) + 1
    OBVIOUS
  <2>11. fit
    BY <1>5
  <2> HIDE DEF image, taken, refs
  <2> QED BY <1>2, <1>5, <2>1, <2>2, <2>5, <2>8, <2>9, <2>10, <2>11
<1> QED BY <1>4, <1>5

-----------------------------------------------------------------------------
(* The invariant is inductive *)

\* Where there are no orders, any counts are complete.
LEMMA NothingCounted ==
  ASSUME NEW d \in Daily PROVE CountsAll(d, {}, {})
<1>1. Cardinality({}) = 0 /\ d.orders \in Nat /\ d.signals \in Nat
  BY FS_EmptySet, RefsAreNumbers DEF Daily
<1> QED BY <1>1 DEF CountsAll

\* The counts of a fresh session are counts.
LEMMA NoneTodayType == NoneToday \in Daily
BY RefsAreNumbers DEF NoneToday, Daily

\* So are those a login goes on with.
LEMMA DailyOfLoginType == RTypes => DailyOfLogin \in Daily
BY NoneTodayType DEF RTypes, RestartTypeOK, DailyOfLogin

\* An empty journal holds no event.
LEMMA NoEvents ==
  ASSUME NEW j \in JournalType, j.events = <<>>
  PROVE  Range(j.events) = {}
<1>1. j.events \in Seq(JournalEvent)
  BY DEF JournalType
<1>2. DOMAIN j.events = 1 .. 0
  BY <1>1, EmptySeq, LenProperties
<1> QED BY <1>2 DEF Range

\* A journal without events, in any status
LEMMA NoJournalType ==
  ASSUME NEW status \in {"None", "Open", "Clean", "Cut", "Torn"}
  PROVE  /\ [NoJournal EXCEPT !.status = status] \in JournalType
         /\ [NoJournal EXCEPT !.status = status].events = <<>>
         /\ [NoJournal EXCEPT !.status = status].status = status
<1>1. NoJournal \in JournalType /\ NoJournal.events = <<>>
  BY EmptySeq DEF NoJournal, JournalType
<1>2. /\ [NoJournal EXCEPT !.status = status] \in JournalType
      /\ [NoJournal EXCEPT !.status = status].events = NoJournal.events
      /\ [NoJournal EXCEPT !.status = status].status = status
  BY <1>1 DEF JournalType
<1> QED BY <1>1, <1>2

\* What is recorded comes behind what there is, or everything is lost.
LEMMA RecordedIs ==
  ASSUME journal \in JournalType, NEW events \in Seq(JournalEvent),
         NEW j \in Recorded(events)
  PROVE  /\ j \in JournalType /\ j.status = journal.status
         /\ \/ j = journal /\ (events = <<>> \/ j.dropped)
            \/ j.events = <<>> /\ j.dropped
            \/ j.events = journal.events \o events
         /\ Range(j.events) \subseteq Range(journal.events) \cup Range(events)
<1>1. /\ journal.events \in Seq(JournalEvent) /\ journal.dropped \in BOOLEAN
      /\ journal.status \in {"None", "Open", "Clean", "Cut", "Torn"}
  BY DEF JournalType
<1>2. CASE j = journal /\ (events = <<>> \/ journal.dropped)
  BY <1>2
<1>3. CASE j = [journal EXCEPT !.events = journal.events \o events]
  <2>1. j \in JournalType /\ j.status = journal.status
        /\ j.events = journal.events \o events
    BY <1>1, <1>3, ConcatProperties DEF JournalType
  <2>2. Range(j.events) = Range(journal.events) \cup Range(events)
    BY <1>1, <2>1, RangeConcatenation
  <2> QED BY <2>1, <2>2
<1>4. CASE j = [journal EXCEPT !.events = <<>>, !.dropped = TRUE]
  <2>1. j \in JournalType /\ j.status = journal.status /\ j.events = <<>> /\ j.dropped
    BY <1>1, <1>4, EmptySeq DEF JournalType
  <2> QED BY <2>1, NoEvents
<1> QED BY <1>2, <1>3, <1>4 DEF Recorded

\* As long as the counter keeps its orders, so does what is said of them.
LEMMA SameOrders ==
  ASSUME orders' = orders
  PROVE  /\ AtCounter' = AtCounter /\ Entries' = Entries /\ OpenAtCounter' = OpenAtCounter
         /\ OrdersWithinDailyLimits => OrdersWithinDailyLimits'
         /\ OpenOrdersWithinLimit => OpenOrdersWithinLimit'
BY DEF AtCounter, Entries, OpenAtCounter, OrdersWithinDailyLimits, OpenOrdersWithinLimit

\* The invariant holds before the first run.
LEMMA InitRestart == Init => RestartInv
<1> SUFFICES ASSUME Init PROVE RestartInv
  OBVIOUS
<1> USE DEF Init
<1>1. RTypes
  <2>1. journal \in JournalType
    BY NoJournalType, EmptySeq DEF NoJournal, JournalType
  <2>2. /\ NoOrder \in CounterOrder /\ NoRecord \in Record
    BY DEF NoOrder, CounterOrder, NoRecord, Record, States, Offsets
  <2>3. restored \in [pending : BOOLEAN, day : Nat, daily : Daily]
    BY NoneTodayType
  <2>4. RestartTypeOK
    BY <2>1, <2>2, <2>3, NoneTodayType, RefsAreNumbers, RestartAssumption
    DEF RestartTypeOK, JournalType
  <2> QED BY <2>1, <2>3, <2>4 DEF RTypes
<1>2. Known = {} /\ AtCounter = {} /\ OpenAtCounter = {}
  BY DEF Known, AtCounter, OpenAtCounter, NoRecord, NoOrder, Live
<1>3. journal \in JournalType /\ journal.events = <<>> /\ Range(journal.events) = {}
  BY <1>1, NoEvents DEF RTypes, NoJournal
<1>4. RunInv /\ DayInv /\ OffsetInv /\ SeenInv /\ ReadyInv
  BY <1>2 DEF RunInv, DayInv, OffsetInv, SeenInv, ReadyInv, Running, LoggedIn, NoJournal
<1>5. JournalInv /\ CheckpointInv
  BY <1>3 DEF JournalInv, CheckpointInv
<1>6. CountInv
  BY <1>1, <1>2, NothingCounted, DailyOfLoginType DEF CountInv, Counts
<1>7. OrdersWithinDailyLimits /\ OpenOrdersWithinLimit
  <2>1. /\ {r \in AtCounter : orders[r].offset = "Open"} = {}
        /\ {r \in OpenAtCounter : orders[r].offset = "Open"} = {}
    BY <1>2
  <2>2. Cardinality({}) = 0 /\ MaxOrders \in Nat /\ MaxSignals \in Nat /\ MaxActiveOpen \in Nat
    BY FS_EmptySet, RestartAssumption
  <2>3. 0 <= MaxOrders /\ 0 <= MaxSignals /\ 0 <= MaxActiveOpen
    BY <2>2
  <2> QED BY <1>2, <2>1, <2>2, <2>3 DEF OrdersWithinDailyLimits, OpenOrdersWithinLimit
<1> QED BY <1>1, <1>4, <1>5, <1>6, <1>7 DEF RestartInv

\* A session without an image knows nothing.
LEMMA ForgetRestores ==
  ASSUME Restore(NoImage)
  PROVE  /\ Known' = {} /\ records' = [r \in Refs |-> NoRecord] /\ records' \in [Refs -> Record]
         /\ restored' = [pending |-> FALSE, day |-> 0, daily |-> NoneToday]
         /\ restored' \in [pending : BOOLEAN, day : Nat, daily : Daily]
         /\ nextRef' = 1 /\ exit' = 0 /\ daily' = NoneToday /\ tradingDay' = 0
         /\ DailyOfLogin' = NoneToday
<1>1. records' = [r \in Refs |-> NoRecord]
  BY DEF Restore, NoImage
<1>2. NoRecord \in Record
  BY DEF NoRecord, Record, States, Offsets
<1>3. /\ restored' = [pending |-> FALSE, day |-> 0, daily |-> NoneToday]
      /\ nextRef' = 1 /\ exit' = 0 /\ daily' = NoneToday /\ tradingDay' = 0
  BY DEF Restore, NoImage
<1>4. Known' = {}
  BY <1>1 DEF Known, NoRecord
<1>5. DailyOfLogin' = NoneToday
  BY <1>3 DEF DailyOfLogin
<1> QED BY <1>1, <1>2, <1>3, <1>4, <1>5, NoneTodayType

\* With the session everything goes that the invariant says of it; of the journal
\* only the checkpoint is new.
LEMMA StopOrCrashKeeps ==
  ASSUME RestartInv, Forget, journal' \in JournalType,
         journal'.status \notin {"Open"},
         \A e \in Range(journal.events)' :
           e \in Range(journal.events) \/ e.kind = "Checkpoint",
         CheckpointInv'
  PROVE  RestartInv'
<1> USE DEF RestartInv
<1>1. /\ phase' = "Off" /\ Restore(NoImage) /\ orders' = orders /\ day' = day
      /\ cancels' = cancels
  BY DEF Forget, counterVars
<1>2. RTypes'
  <2>1. RestartTypeOK'
    BY <1>1, ForgetRestores, NoneTodayType, RefsAreNumbers, RestartAssumption
    DEF RTypes, RestartTypeOK, JournalType
  <2> QED BY <1>1, <2>1, ForgetRestores DEF RTypes
<1>3. RunInv' /\ DayInv' /\ OffsetInv' /\ SeenInv' /\ ReadyInv'
  BY <1>1, ForgetRestores
  DEF RunInv, DayInv, OffsetInv, SeenInv, ReadyInv, Running, LoggedIn
<1>4. JournalInv'
  BY <1>1, SameOrders DEF JournalInv
<1>5. CountInv'
  BY <1>1, ForgetRestores, NothingCounted, NoneTodayType DEF CountInv, Counts
<1> QED BY <1>1, <1>2, <1>3, <1>4, <1>5, SameOrders

\* A checkpoint counts every order its journal submitted.
LEMMA StopKeeps == RestartInv /\ Stop => RestartInv'
<1> SUFFICES ASSUME RestartInv, Stop PROVE RestartInv'
  OBVIOUS
<1> USE DEF RestartInv
<1>1. /\ phase # "Off" /\ Forget /\ journal \in JournalType
      /\ day' = day /\ orders' = orders /\ AtCounter' = AtCounter /\ Entries' = Entries
  BY SameOrders DEF Stop, Forget, counterVars, RTypes
<1>2. CASE phase = "Blocked" /\ journal' = journal
  <2>1. CheckpointInv'
    BY <1>1, <1>2 DEF CheckpointInv, Counts
  <2>2. journal.status # "Open"
    BY <1>2 DEF RunInv, Running, LoggedIn
  <2> QED BY <1>1, <1>2, <2>1, <2>2, StopOrCrashKeeps
<1>3. ASSUME phase # "Blocked",
             NEW j \in Recorded(IF tradingDay = 0 THEN <<>> ELSE <<Checkpoint>>),
             journal' = Stopped(j)
      PROVE  RestartInv'
  <2>1. phase \in Running
    BY <1>1, <1>3 DEF RTypes, RestartTypeOK, Running, LoggedIn
  <2> DEFINE events == IF tradingDay = 0 THEN <<>> ELSE <<Checkpoint>>
  <2>2. Checkpoint \in JournalEvent /\ Checkpoint.kind = "Checkpoint"
        /\ Checkpoint.day = tradingDay /\ Checkpoint.daily = daily
    <3>1. tradingDay \in Nat /\ daily \in Daily
      BY RestartAssumption DEF RTypes, RestartTypeOK
    <3>2. Event("Checkpoint", 0) \in JournalEvent /\ Event("Checkpoint", 0).kind = "Checkpoint"
      BY NoneTodayType, RefsAreNumbers DEF Event, JournalEvent, Offsets
    <3> QED BY <3>1, <3>2 DEF Checkpoint, JournalEvent
  <2>3. events \in Seq(JournalEvent)
    BY <2>2, EmptySeq
  <2>4. Range(events) \subseteq {Checkpoint}
    BY EmptySeq DEF Range
  <2>5. /\ j \in JournalType
        /\ \/ j = journal /\ (events = <<>> \/ j.dropped)
           \/ j.events = <<>> /\ j.dropped
           \/ j.events = journal.events \o events
        /\ Range(j.events) \subseteq Range(journal.events) \cup Range(events)
    BY <1>1, <1>3, <2>3, RecordedIs
  <2>6. /\ Stopped(j) \in JournalType /\ Stopped(j).status = "Clean"
        /\ Stopped(j).events = j.events /\ Stopped(j).dropped = j.dropped
    BY <2>5 DEF Stopped, JournalType
  <2>7. ASSUME ~j.dropped, j.events # <<>>, Last(j.events).kind = "Checkpoint"
        PROVE  IF Last(j.events).day = day
               THEN Counts(Last(j.events).daily, SubmittedRefs(j.events))
               ELSE AtCounter = {}
    <3>1. journal.events \in Seq(JournalEvent)
      BY <1>1 DEF JournalType
    <3>2. CASE tradingDay = 0
      <4>1. journal.events = <<>> /\ events = <<>>
        BY <2>1, <3>2 DEF RunInv
      <4>2. j.events = <<>>
        BY <2>5, <4>1, EmptySeq, ConcatEmptySeq
      <4> QED BY <2>7, <4>2
    <3>3. CASE tradingDay # 0
      <4>1. events = <<Checkpoint>>
        BY <3>3
      <4>2. j.events = journal.events \o <<Checkpoint>>
        BY <2>5, <2>7, <4>1
      <4>3. j.events = Append(journal.events, Checkpoint)
        BY <2>2, <3>1, <4>2, AppendIsConcat
      <4>4. Last(j.events) = Checkpoint
        BY <2>2, <3>1, <4>3, AppendProperties DEF Last
      <4>5. SubmittedRefs(j.events) \subseteq Known
        BY <2>1, <2>2, <2>4, <2>5 DEF SubmittedRefs, RunInv
      <4>6. CASE tradingDay = day
        <5>1. DailyOfLogin = daily
          BY <3>3, <4>6 DEF DailyOfLogin, DayInv, RTypes
        <5>2. Counts(daily, Known) /\ daily \in Daily
          BY <5>1 DEF CountInv, RTypes, RestartTypeOK
        <5> DEFINE s == SubmittedRefs(j.events)
        <5>3. /\ s \cap AtCounter \in SUBSET (Known \cap AtCounter)
              /\ s \cap Entries \in SUBSET (Known \cap Entries)
              /\ Known \cap AtCounter \in SUBSET Refs /\ Known \cap Entries \in SUBSET Refs
          BY <4>5, AtCounterRefs
        <5> HIDE DEF s
        <5>4. Counts(daily, s)
          BY <5>2, <5>3, CountsFewer DEF Counts
        <5> QED BY <2>2, <4>4, <4>6, <5>4 DEF s
      <4>7. CASE tradingDay # day
        BY <2>2, <3>3, <4>4, <4>7 DEF DayInv
      <4> QED BY <4>6, <4>7
    <3> QED BY <3>2, <3>3
  <2>8. CheckpointInv'
    <3> DEFINE s == SubmittedRefs(j.events)
               d == Last(j.events).daily
    <3>1. Counts(d, s)' = Counts(d, s)
      BY <1>1 DEF Counts
    <3> HIDE DEF events
    <3> QED BY <1>1, <1>3, <2>6, <2>7, <3>1 DEF CheckpointInv, Counts
  <2>9. \A e \in Range(journal.events)' : e \in Range(journal.events) \/ e.kind = "Checkpoint"
    BY <1>3, <2>2, <2>4, <2>5, <2>6
  <2> QED BY <1>1, <1>3, <2>6, <2>8, <2>9, StopOrCrashKeeps
<1> QED BY <1>1, <1>2, <1>3 DEF Stop

\* A journal that was cut off makes no image.
LEMMA CrashKeeps == RestartInv /\ Crash => RestartInv'
<1> SUFFICES ASSUME RestartInv, Crash PROVE RestartInv'
  OBVIOUS
<1>1. PICK status \in {"Cut", "Torn"} : journal' = [NoJournal EXCEPT !.status = status]
  BY DEF Crash
<1>2. Forget
  BY DEF Crash
<1>3. journal' \in JournalType /\ journal'.events = <<>> /\ journal'.status = status
  BY <1>1, NoJournalType
<1>4. Range(journal.events)' = {}
  BY <1>3, NoEvents
<1>5. CheckpointInv'
  BY <1>3 DEF CheckpointInv
<1> QED BY <1>2, <1>3, <1>4, <1>5, StopOrCrashKeeps

\* The session of a new run knows what the image holds, with its counts if the
\* day is the same.
LEMMA LaunchKeeps == RestartInv /\ Launch => RestartInv'
<1> SUFFICES ASSUME RestartInv, Launch PROVE RestartInv'
  OBVIOUS
<1> USE DEF RestartInv
<1>1. /\ day' = day /\ orders' = orders /\ cancels' = cancels
      /\ AtCounter' = AtCounter /\ Entries' = Entries /\ OpenAtCounter' = OpenAtCounter
      /\ OrdersWithinDailyLimits' /\ OpenOrdersWithinLimit'
  BY SameOrders DEF Launch, counterVars
<1>2. phase = "Off" /\ journal \in JournalType
  BY DEF Launch, RTypes
<1>3. CASE phase' = "Blocked" /\ UNCHANGED <<journal, session>>
  <2> USE DEF session
  <2>1. RTypes'
    BY <1>1, <1>2, <1>3 DEF RTypes, RestartTypeOK
  <2>2. Known' = Known /\ DailyOfLogin' = DailyOfLogin
    BY <1>1, <1>3 DEF Known, DailyOfLogin
  <2>3. RunInv' /\ DayInv' /\ SeenInv' /\ ReadyInv'
    BY <1>1, <1>2, <1>3, <2>2 DEF RunInv, DayInv, SeenInv, ReadyInv, Running, LoggedIn
  <2>4. JournalInv' /\ CheckpointInv'
    BY <1>1, <1>3 DEF JournalInv, CheckpointInv, Counts
  <2>5. CountInv' /\ OffsetInv'
    BY <1>1, <1>3, <2>2 DEF CountInv, Counts, OffsetInv
  <2> QED BY <1>1, <2>1, <2>3, <2>4, <2>5
<1>4. CASE phase' = "Connecting" /\ journal' = NewJournal /\ Restore(Image(journal))
  <2> DEFINE image == Image(journal)
             given(r) == \E e \in image.uncertain : e.ref = r
             from(r) == CHOOSE e \in image.uncertain : e.ref = r
  <2>1. journal.events \in Seq(JournalEvent) /\ journal.dropped \in BOOLEAN
    BY <1>2 DEF JournalType
  <2>2. image.valid = TRUE \/ image = NoImage
    BY <2>1, ImageOf
  <2>3. image.valid =>
          /\ journal.status = "Clean" /\ ~journal.dropped /\ journal.events # <<>>
          /\ Last(journal.events).kind = "Checkpoint"
          /\ Last(journal.events) \in Range(journal.events)
          /\ image.day = Last(journal.events).day
          /\ image.daily = Last(journal.events).daily
          /\ image.uncertain \subseteq {e \in Range(journal.events) : e.kind = "Submitted"}
          /\ image.nextRef \in 1 .. MaxRef + 1
          /\ \A e \in Range(journal.events) : e.ref < image.nextRef
    BY <2>1, ImageOf
  <2>4. Range(journal.events) \subseteq JournalEvent
    BY <2>1, RangeOfSeq
  <2>5. /\ ~NoImage.valid /\ NoImage.uncertain = {} /\ NoImage.nextRef = 1
    BY DEF NoImage
  <2> HIDE DEF image
  <2>6. /\ records' = [r \in Refs |-> IF given(r) THEN RestoredRecord(from(r)) ELSE NoRecord]
        /\ restored' = IF image.valid
                       THEN [pending |-> TRUE, day |-> image.day, daily |-> image.daily]
                       ELSE [pending |-> FALSE, day |-> 0, daily |-> NoneToday]
        /\ nextRef' = image.nextRef /\ exit' = 0 /\ daily' = NoneToday /\ tradingDay' = 0
    BY <1>4 DEF Restore, image
  <2>7. /\ image.uncertain \subseteq {e \in Range(journal.events) : e.kind = "Submitted"}
        /\ image.uncertain \subseteq JournalEvent
        /\ \A e \in image.uncertain : e.ref < image.nextRef
        /\ image.nextRef \in 1 .. MaxRef + 1
    BY <2>2, <2>3, <2>4, <2>5, RefsAreNumbers
  <2>8. ASSUME NEW r \in Refs
        PROVE  IF given(r)
               THEN /\ from(r) \in image.uncertain /\ from(r).ref = r
                    /\ records'[r] = RestoredRecord(from(r))
               ELSE records'[r] = NoRecord
    BY <2>6
  <2>9. /\ \A e \in JournalEvent : /\ RestoredRecord(e) \in Record
                                   /\ RestoredRecord(e).state = "Submitted"
                                   /\ RestoredRecord(e).offset = e.offset
        /\ NoRecord \in Record /\ NoRecord.state = "None"
    BY DEF RestoredRecord, JournalEvent, Record, NoRecord, States, Live, Offsets
  <2>10. records' \in [Refs -> Record]
    <3>1. \A r \in Refs : (IF given(r) THEN RestoredRecord(from(r)) ELSE NoRecord) \in Record
      BY <2>7, <2>9
    <3> HIDE DEF given, from
    <3> QED BY <2>6, <3>1
  <2>11. Known' = {r \in Refs : given(r)}
    <3>1. \A r \in Refs : records'[r].state # "None" <=> given(r)
      BY <2>7, <2>8, <2>9
    <3> HIDE DEF given, from
    <3> QED BY <3>1 DEF Known
  <2>12. restored' \in [pending : BOOLEAN, day : Nat, daily : Daily]
    <3>1. image.valid => image.day \in Nat /\ image.daily \in Daily
      BY <2>3, <2>4 DEF JournalEvent
    <3> QED BY <2>6, <3>1, NoneTodayType
  <2>13. journal' \in JournalType /\ journal'.events = <<>> /\ journal'.status = "Open"
    BY <1>4, NoJournalType DEF NewJournal
  <2>14. Range(journal.events)' = {}
    BY <2>13, NoEvents
  <2>15. RTypes'
    <3>1. RestartTypeOK'
      BY <1>1, <1>4, <2>6, <2>7, <2>10, <2>12, <2>13, NoneTodayType, RefsAreNumbers,
         RestartAssumption
      DEF RTypes, RestartTypeOK, JournalType
    <3> QED BY <2>12, <2>13, <3>1 DEF RTypes
  <2>16. RunInv'
    <3>1. \A r \in Known' : r < nextRef'
      BY <2>6, <2>7, <2>11
    <3> HIDE DEF given, from
    <3> QED BY <1>4, <2>13, <2>14, <3>1 DEF RunInv, Running, LoggedIn
  <2>17. DayInv' /\ SeenInv' /\ ReadyInv' /\ JournalInv' /\ CheckpointInv'
    <3> HIDE DEF given, from
    <3> QED BY <1>4, <2>6, <2>13, <2>14
        DEF DayInv, SeenInv, ReadyInv, JournalInv, CheckpointInv, LoggedIn
  <2>18. OffsetInv'
    <3> SUFFICES ASSUME NEW r \in Known', r \in AtCounter
                 PROVE  records'[r].offset = orders[r].offset
      BY <1>1 DEF OffsetInv
    <3>1. r \in Refs /\ given(r)
      BY <2>11
    <3> DEFINE e == from(r)
    <3>2. e \in image.uncertain /\ e.ref = r /\ records'[r] = RestoredRecord(e)
      BY <2>8, <3>1
    <3> HIDE DEF e
    <3>3. e \in Range(journal.events) /\ e.kind = "Submitted" /\ e \in JournalEvent
      BY <2>7, <3>2
    <3>4. e.offset = orders[r].offset
      BY <3>2, <3>3 DEF JournalInv
    <3> QED BY <2>9, <3>2, <3>3, <3>4
  <2>19. CountInv'
    <3>1. DailyOfLogin' = IF image.valid /\ image.day = day THEN image.daily ELSE NoneToday
      <4> HIDE DEF given, from
      <4> QED BY <1>1, <2>6 DEF DailyOfLogin
    <3>2. CASE image.valid /\ image.day = day
      <4>1. Counts(image.daily, SubmittedRefs(journal.events)) /\ image.daily \in Daily
        BY <2>3, <2>4, <3>2 DEF CheckpointInv, JournalEvent
      <4>2. Known' \subseteq SubmittedRefs(journal.events)
        BY <2>7, <2>11 DEF SubmittedRefs
      <4> DEFINE s == SubmittedRefs(journal.events)
      <4>3. /\ Known' \cap AtCounter \in SUBSET (s \cap AtCounter)
            /\ Known' \cap Entries \in SUBSET (s \cap Entries)
            /\ s \cap AtCounter \in SUBSET Refs /\ s \cap Entries \in SUBSET Refs
        BY <4>2, AtCounterRefs
      <4> HIDE DEF s
      <4>4. CountsAll(image.daily, Known' \cap AtCounter, Known' \cap Entries)
        BY <4>1, <4>3, CountsFewer DEF Counts, s
      <4> QED BY <1>1, <3>1, <3>2, <4>4 DEF CountInv, Counts
    <3>3. CASE ~(image.valid /\ image.day = day)
      <4>1. Known' \cap AtCounter = {} /\ Known' \cap Entries = {}
        <5>1. CASE image.valid
          <6>1. AtCounter = {}
            BY <2>3, <3>3, <5>1 DEF CheckpointInv
          <6> QED BY <6>1, AtCounterRefs
        <5>2. CASE ~image.valid
          BY <2>2, <2>5, <2>11, <5>2
        <5> QED BY <5>1, <5>2
      <4> HIDE DEF given, from
      <4> QED BY <1>1, <3>1, <3>3, <4>1, NothingCounted, NoneTodayType DEF CountInv, Counts
    <3> QED BY <3>2, <3>3
  <2> QED BY <1>1, <2>15, <2>16, <2>17, <2>18, <2>19
<1> QED BY <1>3, <1>4 DEF Launch, RestartLoad

\* The login takes the counts of its day and no smaller reference.
LEMMA LoginKeeps == RestartInv /\ Login => RestartInv'
<1> SUFFICES ASSUME RestartInv, Login PROVE RestartInv'
  OBVIOUS
<1> USE DEF RestartInv
<1>1. /\ day' = day /\ orders' = orders /\ cancels' = cancels /\ journal' = journal
      /\ exit' = exit /\ phase = "Connecting" /\ phase' = "Querying"
      /\ AtCounter' = AtCounter /\ Entries' = Entries /\ OpenAtCounter' = OpenAtCounter
      /\ OrdersWithinDailyLimits' /\ OpenOrdersWithinLimit'
  BY SameOrders DEF Login, counterVars
<1>2. /\ daily' = DailyOfLogin /\ DailyOfLogin \in Daily /\ tradingDay' = day
      /\ restored' = [restored EXCEPT !.pending = FALSE]
      /\ records' = [r \in Refs |-> [records[r] EXCEPT !.seen = FALSE]]
      /\ day \in 1 .. MaxDay /\ day \in Nat /\ day # 0
  BY DailyOfLoginType, RestartAssumption DEF Login, RTypes, RestartTypeOK
<1>3. PICK largest \in {0} \cup AtCounter : nextRef' = Later(nextRef, largest + 1)
  BY DEF Login
<1>4. nextRef' \in 1 .. MaxRef + 1 /\ nextRef <= nextRef' /\ nextRef \in Nat
  BY <1>3, AtCounterRefs, RefsAreNumbers DEF Later, RTypes, RestartTypeOK, Refs
<1>5. ASSUME NEW r \in Refs
      PROVE  /\ records'[r].state = records[r].state /\ records'[r].offset = records[r].offset
             /\ ~records'[r].seen /\ records'[r] \in Record
  BY <1>2 DEF RTypes, RestartTypeOK, Record
<1>6. Known' = Known
  BY <1>5 DEF Known
<1>7. restored' \in [pending : BOOLEAN, day : Nat, daily : Daily] /\ restored'.pending = FALSE
  BY <1>2 DEF RTypes
<1>8. RTypes'
  <2>1. records' \in [Refs -> Record]
    BY <1>2, <1>5
  <2>2. RestartTypeOK'
    BY <1>1, <1>2, <1>4, <1>7, <2>1 DEF RTypes, RestartTypeOK
  <2> QED BY <1>1, <1>7, <2>2 DEF RTypes
<1>9. RunInv'
  <2>1. \A r \in Known' : r < nextRef'
    BY <1>4, <1>6, RefsAreNumbers DEF RunInv, Known
  <2>2. \A e \in Range(journal.events) : e.ref \in Nat
    <3>1. Range(journal.events) \subseteq JournalEvent
      BY RangeOfSeq DEF RTypes, JournalType
    <3> QED BY <3>1, RefsAreNumbers DEF JournalEvent
  <2>3. \A e \in Range(journal.events) : e.ref < nextRef'
    BY <1>1, <1>4, <2>2 DEF RunInv, Running
  <2> QED BY <1>1, <1>2, <1>6, <2>1, <2>3 DEF RunInv, Running, LoggedIn
<1>10. DayInv' /\ SeenInv' /\ ReadyInv'
  BY <1>1, <1>2, <1>5, <1>7 DEF DayInv, SeenInv, ReadyInv
<1>11. JournalInv' /\ CheckpointInv'
  BY <1>1 DEF JournalInv, CheckpointInv, Counts
<1>12. OffsetInv'
  BY <1>1, <1>5, <1>6 DEF OffsetInv, Known
<1>13. CountInv'
  <2>1. DailyOfLogin' = daily'
    BY <1>1, <1>2, <1>7 DEF DailyOfLogin
  <2> QED BY <1>1, <1>2, <1>6, <2>1 DEF CountInv, Counts
<1> QED BY <1>1, <1>8, <1>9, <1>10, <1>11, <1>12, <1>13

\* A disconnection changes the phase only.
LEMMA DisconnectKeeps == RestartInv /\ Disconnect => RestartInv'
<1> SUFFICES ASSUME RestartInv, Disconnect PROVE RestartInv'
  OBVIOUS
<1> USE DEF RestartInv, Disconnect, counterVars, session
<1>1. RTypes' /\ RunInv' /\ DayInv' /\ SeenInv' /\ ReadyInv'
  BY DEF RTypes, RestartTypeOK, RunInv, DayInv, SeenInv, ReadyInv, Known, AtCounter,
         Running, LoggedIn
<1>2. JournalInv' /\ CheckpointInv' /\ CountInv' /\ OffsetInv'
  BY SameOrders
  DEF JournalInv, CheckpointInv, CountInv, Counts, OffsetInv, Known, DailyOfLogin
<1> QED BY <1>1, <1>2, SameOrders

\* A cancel request is no order.
LEMMA CancelKeeps == RestartInv /\ Cancel => RestartInv'
<1> SUFFICES ASSUME RestartInv, Cancel PROVE RestartInv'
  OBVIOUS
<1> USE DEF RestartInv, Cancel
<1>1. daily' \in Daily /\ daily'.orders = daily.orders /\ daily'.signals = daily.signals
  BY RefsAreNumbers DEF RTypes, RestartTypeOK, Daily
<1>2. RTypes'
  BY <1>1 DEF RTypes, RestartTypeOK
<1>3. RunInv' /\ DayInv' /\ SeenInv' /\ ReadyInv'
  BY DEF RunInv, DayInv, SeenInv, ReadyInv, Known, AtCounter, Running, LoggedIn
<1>4. JournalInv' /\ CheckpointInv' /\ OffsetInv'
  BY SameOrders DEF JournalInv, CheckpointInv, Counts, OffsetInv, Known
<1>5. CountInv'
  <2>1. DailyOfLogin = daily /\ DailyOfLogin' = daily'
    BY DEF DailyOfLogin, DayInv, LoggedIn, RTypes, RestartTypeOK
  <2> QED BY <1>1, <2>1, SameOrders DEF CountInv, Counts, CountsAll, Known
<1> QED BY <1>2, <1>3, <1>4, <1>5, SameOrders

\* A new day makes the counter empty, and every count complete.
LEMMA NewDayKeeps == RestartInv /\ NewDay => RestartInv'
<1> SUFFICES ASSUME RestartInv, NewDay PROVE RestartInv'
  OBVIOUS
<1> USE DEF RestartInv
<1>1. /\ UNCHANGED <<journal, phase, records, exit, daily, restored, tradingDay, nextRef>>
      /\ phase \in {"Off", "Blocked", "Connecting"}
      /\ orders' = [r \in Refs |-> NoOrder] /\ cancels' = 0 /\ day' = day + 1 /\ day < MaxDay
  BY DEF NewDay, session
<1>2. NoOrder \in CounterOrder /\ NoOrder.status = "None"
  BY DEF NoOrder, CounterOrder, States, Offsets
<1>3. AtCounter' = {} /\ Entries' = {} /\ OpenAtCounter' = {}
  BY <1>1, <1>2 DEF AtCounter, Entries, OpenAtCounter, Live
<1>4. RTypes'
  BY <1>1, <1>2, RestartAssumption DEF RTypes, RestartTypeOK
<1>5. RunInv' /\ DayInv' /\ SeenInv' /\ ReadyInv' /\ OffsetInv'
  BY <1>1, <1>3 DEF RunInv, DayInv, SeenInv, ReadyInv, OffsetInv, Known, Running, LoggedIn
<1>6. JournalInv'
  BY <1>1, <1>3 DEF JournalInv
<1>7. CountInv'
  <2>1. (DailyOfLogin \in Daily)'
    BY <1>4, DailyOfLoginType, PTL
  <2> QED BY <1>3, <2>1, NothingCounted DEF CountInv, Counts
<1>8. CheckpointInv'
  <2>1. ASSUME journal.events # <<>> PROVE Last(journal.events).daily \in Daily
    <3>1. journal.events \in Seq(JournalEvent)
      BY DEF RTypes, JournalType
    <3>2. Len(journal.events) \in 1 .. Len(journal.events)
      BY <2>1, <3>1, LenProperties, EmptySeq, SeqEqual
    <3>3. Last(journal.events) \in JournalEvent
      BY <3>1, <3>2, ElementOfSeq DEF Last
    <3> QED BY <3>3 DEF JournalEvent
  <2>2. ASSUME NEW d \in Daily, NEW s PROVE Counts(d, s)'
    BY <1>3, NothingCounted DEF Counts
  <2> QED BY <1>1, <1>3, <2>1, <2>2 DEF CheckpointInv
<1>9. OrdersWithinDailyLimits' /\ OpenOrdersWithinLimit'
  <2>1. /\ {r \in AtCounter : orders[r].offset = "Open"}' = {}
        /\ {r \in OpenAtCounter : orders[r].offset = "Open"}' = {}
    BY <1>3
  <2>2. Cardinality({}) = 0 /\ 0 <= MaxOrders /\ 0 <= MaxSignals /\ 0 <= MaxActiveOpen
    BY FS_EmptySet, RestartAssumption
  <2> QED BY <1>3, <2>1, <2>2 DEF OrdersWithinDailyLimits, OpenOrdersWithinLimit
<1> QED BY <1>4, <1>5, <1>6, <1>7, <1>8, <1>9

\* The counter ends orders and does not begin them.
LEMMA CounterStepKeeps == RestartInv /\ CounterStep => RestartInv'
<1> SUFFICES ASSUME RestartInv, CounterStep PROVE RestartInv'
  OBVIOUS
<1> USE DEF RestartInv
<1>1. UNCHANGED <<day, cancels, journal, phase, records, exit, daily, restored, tradingDay,
                  nextRef>>
  BY DEF CounterStep, session
<1>2. PICK x \in Refs, status \in {"Accepted", "Done"}, traded \in BOOLEAN :
        /\ orders[x].status \in Live
        /\ orders' = [orders EXCEPT ![x].status = status, ![x].traded = traded]
  BY DEF CounterStep
<1>3. orders \in [Refs -> CounterOrder]
  BY DEF RTypes, RestartTypeOK
<1>4. orders' = [orders EXCEPT ![x] = [orders[x] EXCEPT !.status = status, !.traded = traded]]
  BY <1>2, <1>3 DEF CounterOrder
<1>5. [orders[x] EXCEPT !.status = status, !.traded = traded] \in CounterOrder
      /\ [orders[x] EXCEPT !.status = status, !.traded = traded].status = status
      /\ [orders[x] EXCEPT !.status = status, !.traded = traded].offset = orders[x].offset
  BY <1>3 DEF CounterOrder, States, Live
<1>6. /\ orders' \in [Refs -> CounterOrder]
      /\ \A r \in Refs : orders'[r].offset = orders[r].offset
      /\ orders'[x].status = status /\ \A r \in Refs \ {x} : orders'[r] = orders[r]
  BY <1>3, <1>4, <1>5
<1>7. AtCounter' = AtCounter /\ Entries' = Entries
  BY <1>2, <1>6 DEF AtCounter, Entries, Live
<1>8. \A r \in Refs : orders'[r].status \in Live => orders[r].status \in Live
  BY <1>2, <1>6
<1>9. RTypes'
  BY <1>1, <1>6 DEF RTypes, RestartTypeOK
<1>10. RunInv' /\ DayInv' /\ SeenInv' /\ ReadyInv'
  BY <1>1, <1>7, <1>8, AtCounterRefs
  DEF RunInv, DayInv, SeenInv, ReadyInv, Known, Running, LoggedIn
<1>11. JournalInv'
  BY <1>1, <1>6, <1>7, <1>8, AtCounterRefs DEF JournalInv, OpenAtCounter
<1>12. CheckpointInv' /\ CountInv'
  BY <1>1, <1>7 DEF CheckpointInv, CountInv, Counts, DailyOfLogin, Known
<1>13. OffsetInv'
  BY <1>1, <1>6, <1>7, AtCounterRefs DEF OffsetInv, Known
<1>14. OrdersWithinDailyLimits'
  <2>1. {r \in AtCounter : orders[r].offset = "Open"}' = {r \in AtCounter : orders[r].offset = "Open"}
    BY <1>6, <1>7, AtCounterRefs
  <2> QED BY <1>7, <2>1 DEF OrdersWithinDailyLimits
<1>15. OpenOrdersWithinLimit'
  <2> DEFINE now == {r \in OpenAtCounter : orders[r].offset = "Open"}
             then == {r \in OpenAtCounter : orders[r].offset = "Open"}'
  <2>1. then \in SUBSET now
    BY <1>6, <1>8 DEF OpenAtCounter
  <2>2. IsFiniteSet(now) /\ Cardinality(now) <= MaxActiveOpen
    BY RefsFinite, FS_Subset DEF OpenAtCounter, OpenOrdersWithinLimit
  <2> HIDE DEF now, then
  <2>3. Cardinality(then) <= Cardinality(now) /\ IsFiniteSet(then)
    BY <2>1, <2>2, FS_Subset
  <2>4. Cardinality(then) \in Nat /\ Cardinality(now) \in Nat /\ MaxActiveOpen \in Nat
    BY <2>2, <2>3, FS_CardinalityType, RestartAssumption
  <2>5. Cardinality(then) <= MaxActiveOpen
    BY <2>2, <2>3, <2>4
  <2> QED BY <2>5 DEF then, OpenOrdersWithinLimit
<1> QED BY <1>9, <1>10, <1>11, <1>12, <1>13, <1>14, <1>15

\* A report is what the counter says of the order.
LEMMA ReceiveReportKeeps == RestartInv /\ ReceiveReport => RestartInv'
<1> SUFFICES ASSUME RestartInv, ReceiveReport PROVE RestartInv'
  OBVIOUS
<1> USE DEF RestartInv
<1>1. /\ UNCHANGED <<day, orders, cancels, phase, daily, restored, tradingDay, nextRef>>
      /\ phase \in LoggedIn
      /\ AtCounter' = AtCounter /\ Entries' = Entries /\ OpenAtCounter' = OpenAtCounter
      /\ OrdersWithinDailyLimits' /\ OpenOrdersWithinLimit'
  BY SameOrders DEF ReceiveReport, counterVars, LoggedIn
<1>2. PICK x \in Known :
        /\ orders[x].status # "None"
        /\ records' = [records EXCEPT ![x].state = orders[x].status]
        /\ journal' \in Recorded(<<ReportEvent(x, orders[x].status)>>)
        /\ exit' = IF exit = x /\ orders[x].status = "Done" THEN 0 ELSE exit
  BY DEF ReceiveReport
<1>3. /\ x \in Refs /\ x \in AtCounter /\ orders[x].status \in States
      /\ records \in [Refs -> Record] /\ records[x] \in Record
  BY <1>2 DEF Known, AtCounter, RTypes, RestartTypeOK, CounterOrder
<1> DEFINE record == [records[x] EXCEPT !.state = orders[x].status]
           report == ReportEvent(x, orders[x].status)
<1>4. /\ record \in Record /\ record.state = orders[x].status
      /\ record.offset = records[x].offset /\ record.origin = records[x].origin
      /\ record.seen = records[x].seen
  BY <1>3 DEF Record
<1>5. records' = [records EXCEPT ![x] = record]
  BY <1>2, <1>3
<1> HIDE DEF record
<1>6. /\ records' \in [Refs -> Record] /\ records'[x] = record
      /\ \A r \in Refs \ {x} : records'[r] = records[r]
  BY <1>3, <1>4, <1>5
<1>7. Known' = Known
  BY <1>2, <1>3, <1>4, <1>6 DEF Known
<1>8. /\ report \in JournalEvent /\ report.ref = x
      /\ report.kind = IF orders[x].status = "Done" THEN "Ended" ELSE "Reported"
  BY <1>3, ReportEventType
<1> HIDE DEF report
<1>9. /\ <<report>> \in Seq(JournalEvent) /\ Range(<<report>>) = {report}
  BY <1>8 DEF Range
<1>10. /\ journal' \in JournalType /\ journal'.status = journal.status
       /\ Range(journal.events)' \subseteq Range(journal.events) \cup {report}
  <2>1. journal \in JournalType
    BY DEF RTypes
  <2> QED BY <1>2, <1>9, <2>1, RecordedIs DEF report
<1>11. journal.status = "Open" /\ tradingDay # 0
  BY <1>1, RestartAssumption DEF RunInv, Running, LoggedIn, DayInv, RTypes, RestartTypeOK
<1>12. RTypes'
  BY <1>1, <1>2, <1>3, <1>6, <1>10 DEF RTypes, RestartTypeOK, JournalType
<1>13. RunInv'
  <2>1. x < nextRef
    BY <1>2 DEF RunInv
  <2> QED BY <1>1, <1>7, <1>8, <1>10, <1>11, <2>1 DEF RunInv, Running, LoggedIn
<1>14. DayInv'
  BY <1>1 DEF DayInv
<1>15. JournalInv'
  <2>1. orders[x].status = "Done" => x \notin OpenAtCounter
    BY DEF OpenAtCounter, Live
  <2> QED BY <1>1, <1>3, <1>8, <1>10, <2>1 DEF JournalInv
<1>16. CheckpointInv'
  BY <1>10, <1>11 DEF CheckpointInv
<1>17. CountInv'
  BY <1>1, <1>7 DEF CountInv, Counts, DailyOfLogin
<1>18. OffsetInv'
  BY <1>1, <1>3, <1>4, <1>6, <1>7 DEF OffsetInv, Known
<1>19. SeenInv'
  BY <1>1, <1>3, <1>4, <1>6 DEF SeenInv
<1>20. ReadyInv'
  BY <1>1, <1>3, <1>4, <1>6, <1>7, AtCounterRefs DEF ReadyInv
<1> QED BY <1>1, <1>12, <1>13, <1>14, <1>15, <1>16, <1>17, <1>18, <1>19, <1>20

\* The answer to the order query makes records, counts and references complete.
LEMMA QueryOrdersKeeps == RestartInv /\ QueryOrders => RestartInv'
<1> SUFFICES ASSUME RestartInv, QueryOrders PROVE RestartInv'
  OBVIOUS
<1> USE DEF RestartInv
<1>1. /\ UNCHANGED <<day, orders, cancels, restored, tradingDay>>
      /\ phase = "Querying"
      /\ AtCounter' = AtCounter /\ Entries' = Entries /\ OpenAtCounter' = OpenAtCounter
      /\ OrdersWithinDailyLimits' /\ OpenOrdersWithinLimit'
  BY SameOrders DEF QueryOrders, counterVars
<1> DEFINE base == [records |-> records, daily |-> daily, nextRef |-> nextRef,
                    exit |-> exit, events |-> <<>>, failed |-> FALSE]
<1>2. PICK rows \in SetToAllKPermutations(AtCounter) :
        LET taken == FoldLeft(TakeRow, base, rows) IN
        /\ records' = taken.records /\ daily' = taken.daily /\ nextRef' = taken.nextRef
        /\ exit' = taken.exit /\ journal' \in Recorded(taken.events)
        /\ phase' = IF Converged(rows, taken) THEN "Ready" ELSE "Frozen"
  BY DEF QueryOrders
<1>3. base \in RowAcc
  BY EmptySeq DEF RowAcc, RTypes, RestartTypeOK
<1>4. DailyOfLogin = daily
  BY <1>1 DEF DailyOfLogin, DayInv, LoggedIn, RTypes, RestartTypeOK
<1>5. RowFacts(base)
  <2>1. /\ base.records = records /\ base.daily = daily /\ base.nextRef = nextRef
        /\ base.events = <<>>
    OBVIOUS
  <2>2. KnownIn(records) = Known /\ nextRef \in Nat
    BY RefsAreNumbers DEF KnownIn, Known, RTypes, RestartTypeOK
  <2>3. 1 .. Len(<<>>) = {}
    OBVIOUS
  <2> HIDE DEF base
  <2> QED BY <1>1, <1>4, <2>1, <2>2, <2>3
      DEF RowFacts, RunInv, SeenInv, OffsetInv, CountInv
<1> DEFINE taken == FoldLeft(TakeRow, base, rows)
<1>6. /\ taken \in RowAcc /\ RowFacts(taken)
      /\ ~taken.failed /\ Len(rows) = Cardinality(AtCounter) =>
           \A r \in AtCounter : taken.records[r].state = orders[r].status
  <2>1. orders \in [Refs -> CounterOrder] /\ nextRef \in 1 .. MaxRef + 1
    BY DEF RTypes, RestartTypeOK
  <2> HIDE DEF base
  <2> QED BY <1>3, <1>5, <2>1, AnswerTaken
<1>7. /\ records' = taken.records /\ daily' = taken.daily /\ nextRef' = taken.nextRef
      /\ exit' = taken.exit /\ journal' \in Recorded(taken.events)
      /\ phase' = IF Converged(rows, taken) THEN "Ready" ELSE "Frozen"
  BY <1>2
<1> HIDE DEF taken, base
<1>8. /\ records' \in [Refs -> Record] /\ daily' \in Daily /\ nextRef' \in 1 .. MaxRef + 1
      /\ exit' \in Refs \cup {0} /\ taken.events \in Seq(JournalEvent)
      /\ taken.failed \in BOOLEAN
  BY <1>6, <1>7 DEF RowAcc
<1>9. /\ journal' \in JournalType /\ journal'.status = journal.status
      /\ Range(journal.events)' \subseteq Range(journal.events) \cup Range(taken.events)
  <2>1. journal \in JournalType
    BY DEF RTypes
  <2> QED BY <1>7, <1>8, <2>1, RecordedIs
<1>10. Known' = KnownIn(taken.records)
  BY <1>7 DEF Known, KnownIn
<1>11. /\ Known \subseteq Known' /\ nextRef <= nextRef'
       /\ \A r \in Known' : r < nextRef'
       /\ \A r \in Refs : records'[r].seen => r \in AtCounter
       /\ \A r \in Known' \cap AtCounter : records'[r].offset = orders[r].offset
       /\ Counts(daily', Known')
  BY <1>6, <1>7, <1>10 DEF RowFacts
<1>12. ASSUME NEW e \in Range(taken.events)
       PROVE  /\ e.kind \in {"Reported", "Ended"} /\ e.ref \in Refs /\ e.ref < nextRef'
              /\ e.kind = "Ended" => e.ref \notin OpenAtCounter
  <2>1. PICK i \in 1 .. Len(taken.events) : e = taken.events[i]
    BY <1>8, RangeEquality
  <2>2. /\ e.kind \in {"Reported", "Ended"} /\ e.ref \in Refs /\ e.ref < taken.nextRef
        /\ e.kind = "Ended" => orders[e.ref].status = "Done"
    BY <1>6, <2>1 DEF RowFacts
  <2> QED BY <1>7, <2>2 DEF OpenAtCounter, Live
<1>13. journal.status = "Open" /\ tradingDay # 0 /\ phase' \in {"Ready", "Frozen"}
  BY <1>1, <1>7, RestartAssumption
  DEF RunInv, Running, LoggedIn, DayInv, RTypes, RestartTypeOK
<1>14. RTypes'
  BY <1>1, <1>8, <1>9, <1>13 DEF RTypes, RestartTypeOK, JournalType
<1>15. RunInv'
  <2>1. \A e \in Range(journal.events) : e.kind # "Checkpoint" /\ e.ref < nextRef'
                                         /\ (e.kind = "Submitted" => e.ref \in Known')
    <3>1. \A e \in Range(journal.events) : e.ref \in Nat
      <4>1. Range(journal.events) \subseteq JournalEvent
        BY RangeOfSeq DEF RTypes, JournalType
      <4> QED BY <4>1, RefsAreNumbers DEF JournalEvent
    <3>2. nextRef \in Nat /\ nextRef' \in Nat
      BY <1>8, RefsAreNumbers DEF RTypes, RestartTypeOK
    <3> QED BY <1>1, <1>11, <3>1, <3>2 DEF RunInv, Running, LoggedIn
  <2> QED BY <1>9, <1>11, <1>12, <1>13, <1>1, <2>1 DEF RunInv, Running, LoggedIn
<1>16. DayInv'
  BY <1>1, <1>13 DEF DayInv, LoggedIn
<1>17. JournalInv'
  BY <1>1, <1>9, <1>12 DEF JournalInv
<1>18. CheckpointInv'
  BY <1>9, <1>13 DEF CheckpointInv
<1>19. CountInv'
  <2>1. DailyOfLogin' = daily'
    BY <1>1, <1>13 DEF DailyOfLogin, DayInv, LoggedIn, RTypes, RestartTypeOK
  <2> QED BY <1>1, <1>11, <2>1 DEF CountInv, Counts
<1>20. OffsetInv' /\ SeenInv'
  BY <1>1, <1>11, <1>13 DEF OffsetInv, SeenInv
<1>21. ReadyInv'
  <2> SUFFICES ASSUME phase' = "Ready" PROVE ReadyInv'
    BY DEF ReadyInv
  <2>1. Converged(rows, taken)
    BY <1>7
  <2>2. \A r \in AtCounter : records'[r].state = orders[r].status
    BY <1>6, <1>7, <2>1 DEF Converged
  <2>3. \A r \in Refs : records'[r].state \in Live => records'[r].seen
    BY <1>7, <2>1 DEF Converged, Missing
  <2> QED BY <1>1, <1>11, <2>2, <2>3 DEF ReadyInv, Known, AtCounter
<1> QED BY <1>1, <1>14, <1>15, <1>16, <1>17, <1>18, <1>19, <1>20, <1>21

\* An order of the account is sent under a reference that is new to the account
\* and to the counter, and is counted into the day.
LEMMA SendKeeps ==
  ASSUME RestartInv, NEW signal \in Nat, NEW offset \in Offsets, Send(signal, offset),
         daily' \in Daily, daily'.orders = daily.orders + 1,
         daily'.signals = IF offset = "Open" THEN daily.signals + 1 ELSE daily.signals,
         offset = "Open" => /\ daily.signals < MaxSignals
                            /\ Cardinality(OpenEntries) < MaxActiveOpen
  PROVE  /\ RestartInv'
         /\ \A r \in Refs : orders[r].status # "None" => orders'[r] = orders[r]
<1> USE DEF RestartInv
<1> DEFINE x == nextRef
<1>1. /\ UNCHANGED <<day, cancels, restored, tradingDay>> /\ phase = "Ready"
      /\ x \in Refs /\ nextRef' = x + 1 /\ daily.orders < MaxOrders
  BY DEF Send
<1>2. PICK outcome \in {"Refused", "Sent", "Lost"} :
        LET record == [NoRecord EXCEPT
                         !.state = IF outcome = "Refused" THEN "Done" ELSE "Submitted",
                         !.signal = signal, !.offset = offset]
        IN /\ records' = [records EXCEPT ![x] = record]
           /\ journal' \in Recorded(<<IF outcome = "Refused" THEN Event("Ended", x)
                                      ELSE SubmittedEvent(x, record)>>)
           /\ orders' = IF outcome = "Sent"
                        THEN [orders EXCEPT ![x] =
                                [NoOrder EXCEPT !.status = "Submitted",
                                                !.offset = offset]]
                        ELSE orders
           /\ exit' = IF offset = "Close" /\ outcome # "Refused" THEN x ELSE exit
           /\ phase' = IF offset = "Close" /\ outcome = "Refused" THEN "Frozen"
                       ELSE "Ready"
  BY DEF Send
<1> DEFINE record == [NoRecord EXCEPT
                        !.state = IF outcome = "Refused" THEN "Done" ELSE "Submitted",
                        !.signal = signal, !.offset = offset]
           order == [NoOrder EXCEPT !.status = "Submitted", !.offset = offset]
           event == IF outcome = "Refused" THEN Event("Ended", x)
                    ELSE SubmittedEvent(x, record)
<1>3. /\ records' = [records EXCEPT ![x] = record]
      /\ journal' \in Recorded(<<event>>)
      /\ orders' = IF outcome = "Sent" THEN [orders EXCEPT ![x] = order] ELSE orders
      /\ exit' = IF offset = "Close" /\ outcome # "Refused" THEN x ELSE exit
      /\ phase' \in {"Ready", "Frozen"}
  BY <1>2
<1>4. /\ record \in Record /\ record.offset = offset /\ record.origin = "Run"
      /\ record.state = (IF outcome = "Refused" THEN "Done" ELSE "Submitted")
      /\ record.signal = signal
  BY DEF NoRecord, Record, States, Live, Offsets
<1>5. order \in CounterOrder /\ order.status = "Submitted" /\ order.offset = offset
  BY DEF NoOrder, CounterOrder, States, Live, Offsets
<1>6. /\ event \in JournalEvent /\ event.ref = x
      /\ event.kind = (IF outcome = "Refused" THEN "Ended" ELSE "Submitted")
      /\ event.kind = "Submitted" => event.offset = offset
  <2>1. /\ Event("Ended", x) \in JournalEvent /\ Event("Ended", x).ref = x
        /\ Event("Ended", x).kind = "Ended"
    BY <1>1, NoneTodayType, RefsAreNumbers DEF Event, JournalEvent, Offsets, Refs
  <2>2. /\ Event("Submitted", x) \in JournalEvent /\ Event("Submitted", x).ref = x
        /\ Event("Submitted", x).kind = "Submitted"
    BY <1>1, NoneTodayType, RefsAreNumbers DEF Event, JournalEvent, Offsets, Refs
  <2> HIDE DEF record
  <2>3. /\ SubmittedEvent(x, record) \in JournalEvent /\ SubmittedEvent(x, record).ref = x
        /\ SubmittedEvent(x, record).kind = "Submitted"
        /\ SubmittedEvent(x, record).offset = offset
    BY <1>4, <2>2 DEF SubmittedEvent, JournalEvent
  <2> QED BY <2>1, <2>3
<1> HIDE DEF record, order, event
<1>7. /\ records \in [Refs -> Record] /\ orders \in [Refs -> CounterOrder]
      /\ journal \in JournalType /\ x \in Nat /\ daily \in Daily
  BY <1>1, RefsAreNumbers DEF RTypes, RestartTypeOK
<1>8. /\ records' \in [Refs -> Record] /\ records'[x] = record
      /\ \A r \in Refs \ {x} : records'[r] = records[r]
  BY <1>1, <1>3, <1>4, <1>7
<1>9. x \notin Known /\ x \notin AtCounter
  BY <1>1, <1>7 DEF RunInv, ReadyInv
<1>10. /\ orders' \in [Refs -> CounterOrder]
       /\ \A r \in Refs \ {x} : orders'[r] = orders[r]
       /\ orders'[x] = (IF outcome = "Sent" THEN order ELSE orders[x])
       /\ orders[x].status = "None"
  BY <1>1, <1>3, <1>5, <1>7, <1>9 DEF AtCounter
<1>11. Known' = Known \cup {x}
  BY <1>1, <1>4, <1>8 DEF Known
<1>12. AtCounter' = IF outcome = "Sent" THEN AtCounter \cup {x} ELSE AtCounter
  BY <1>1, <1>5, <1>10 DEF AtCounter
<1>13. Entries' = IF outcome = "Sent" /\ offset = "Open" THEN Entries \cup {x} ELSE Entries
  BY <1>1, <1>5, <1>9, <1>10, <1>12, AtCounterRefs DEF Entries
<1>14. OpenAtCounter' = IF outcome = "Sent" THEN OpenAtCounter \cup {x} ELSE OpenAtCounter
  BY <1>1, <1>5, <1>10 DEF OpenAtCounter, Live
<1>15. /\ journal' \in JournalType /\ journal'.status = journal.status
       /\ Range(journal.events)' \subseteq Range(journal.events) \cup {event}
  <2>1. <<event>> \in Seq(JournalEvent) /\ Range(<<event>>) = {event}
    BY <1>6 DEF Range
  <2> QED BY <1>3, <1>7, <2>1, RecordedIs
<1>16. journal.status = "Open" /\ tradingDay = day /\ day # 0 /\ phase \in LoggedIn
       /\ phase \in Running
  BY <1>1, RestartAssumption DEF RunInv, Running, LoggedIn, DayInv, RTypes, RestartTypeOK
<1>17. \A e \in Range(journal.events) :
         /\ e.kind # "Checkpoint" /\ e.ref < x /\ e.ref \in Nat /\ e.ref # x
         /\ e.kind = "Submitted" => e.ref \in Known
  <2>1. Range(journal.events) \subseteq JournalEvent
    BY <1>7, RangeOfSeq DEF JournalType
  <2>2. \A e \in Range(journal.events) : e.ref \in Nat
    BY <2>1, RefsAreNumbers DEF JournalEvent
  <2> QED BY <1>7, <1>16, <2>2 DEF RunInv
<1>18. DailyOfLogin = daily /\ DailyOfLogin' = daily'
  BY <1>1, <1>16 DEF DailyOfLogin, DayInv, RTypes, RestartTypeOK
<1>19. AtCounter \subseteq Known /\ Entries \subseteq Known
  BY <1>1, AtCounterRefs DEF ReadyInv
<1>20. CountsAll(daily, AtCounter, Entries)
  <2>1. Known \cap AtCounter = AtCounter /\ Known \cap Entries = Entries
    BY <1>19
  <2> QED BY <1>18, <2>1 DEF CountInv, Counts
<1>21. CountsAll(daily', AtCounter', Entries')
  <2>0. AtCounter \in SUBSET Refs /\ Entries \in SUBSET Refs
    BY AtCounterRefs
  <2> DEFINE a == AtCounter \cup {x}
             b == IF offset = "Open" THEN Entries \cup {x} ELSE Entries
             d == CountImport(daily, offset)
  <2>1. CountsAll(d, a, b) /\ d \in Daily
    BY <1>1, <1>7, <1>20, <2>0, CountsOneMore, CountImportType
  <2>2. d.orders = daily'.orders /\ d.signals = daily'.signals
    BY <1>1, <1>7, CountImportType DEF Capped
  <2>3. a \in SUBSET Refs /\ b \in SUBSET Refs
    BY <1>1, <2>0
  <2>4. AtCounter' \in SUBSET a /\ Entries' \in SUBSET b
    BY <1>12, <1>13
  <2> HIDE DEF a, b, d
  <2>5. CountsAll(d, AtCounter', Entries')
    BY <2>1, <2>3, <2>4, CountsFewer
  <2> QED BY <2>2, <2>5 DEF CountsAll
<1>22. /\ IsFiniteSet(AtCounter) /\ Cardinality(AtCounter) \in Nat
       /\ IsFiniteSet(Entries) /\ Cardinality(Entries) \in Nat
       /\ MaxOrders \in Nat /\ MaxSignals \in Nat /\ MaxActiveOpen \in Nat
       /\ daily.orders \in Nat /\ daily.signals \in Nat
  <2>1. AtCounter \in SUBSET Refs /\ Entries \in SUBSET Refs
    BY AtCounterRefs
  <2>2. IsFiniteSet(AtCounter) /\ IsFiniteSet(Entries)
    BY <2>1, RefsFinite, FS_Subset
  <2>3. daily.orders \in Nat /\ daily.signals \in Nat
    BY <1>7, RefsAreNumbers DEF Daily
  <2>4. MaxActiveOpen \in Nat
    BY RestartAssumption
  <2> QED BY <2>2, <2>3, <2>4, FS_CardinalityType, RefsAreNumbers
<1>23. RTypes'
  BY <1>1, <1>3, <1>7, <1>8, <1>10, <1>15, RefsAreNumbers
  DEF RTypes, RestartTypeOK, JournalType, Refs
<1>24. RunInv'
  <2>1. \A r \in Known' : r < x + 1
    <3>1. Known \subseteq Nat
      BY RefsAreNumbers DEF Known
    <3> QED BY <1>7, <1>11, <3>1 DEF RunInv
  <2>2. ASSUME NEW e \in Range(journal.events)'
        PROVE  /\ e.kind # "Checkpoint" /\ e.ref < x + 1
               /\ e.kind = "Submitted" => e.ref \in Known'
    <3>1. CASE e \in Range(journal.events)
      BY <1>7, <1>11, <1>17, <3>1
    <3>2. CASE e = event
      BY <1>6, <1>7, <1>11, <3>2
    <3> QED BY <1>15, <3>1, <3>2
  <2> QED BY <1>1, <1>3, <1>15, <1>16, <2>1, <2>2 DEF RunInv, Running, LoggedIn
<1>25. DayInv'
  BY <1>1, <1>3, <1>16 DEF DayInv
<1>26. JournalInv'
  <2>1. ASSUME NEW e \in Range(journal.events)
        PROVE  /\ e.kind # "Checkpoint" => e.ref \in Refs
               /\ e.kind = "Ended" => e.ref \notin OpenAtCounter'
               /\ e.kind = "Submitted" /\ e.ref \in AtCounter' => e.offset = orders'[e.ref].offset
    BY <1>10, <1>12, <1>14, <1>17 DEF JournalInv
  <2>2. /\ event.kind # "Checkpoint" => event.ref \in Refs
        /\ event.kind = "Ended" => event.ref \notin OpenAtCounter'
        /\ event.kind = "Submitted" /\ event.ref \in AtCounter'
             => event.offset = orders'[event.ref].offset
    BY <1>1, <1>5, <1>6, <1>9, <1>10, <1>12, <1>14, AtCounterRefs
  <2> QED BY <1>15, <2>1, <2>2 DEF JournalInv
<1>27. CheckpointInv'
  BY <1>15, <1>16 DEF CheckpointInv
<1>28. CountInv'
  <2>1. Known' \cap AtCounter' = AtCounter' /\ Known' \cap Entries' = Entries'
    BY <1>11, <1>12, <1>13, <1>19
  <2> QED BY <1>18, <1>21, <2>1 DEF CountInv, Counts
<1>29. OffsetInv' /\ SeenInv'
  <2>1. ASSUME NEW r \in Known', r \in AtCounter' PROVE records'[r].offset = orders'[r].offset
    <3>1. CASE r = x
      BY <1>4, <1>5, <1>8, <1>9, <1>10, <1>12, <2>1, <3>1
    <3>2. CASE r # x
      <4>1. r \in Known /\ r \in AtCounter /\ r \in Refs
        BY <1>11, <1>12, <2>1, <3>2, AtCounterRefs
      <4> QED BY <1>8, <1>10, <3>2, <4>1 DEF OffsetInv
    <3> QED BY <3>1, <3>2
  <2> QED BY <1>3, <2>1 DEF OffsetInv, SeenInv
<1>30. ReadyInv'
  <2>1. ASSUME NEW r \in AtCounter'
        PROVE  /\ r \in Known'
               /\ orders'[r].status \in Live => records'[r].state \in Live
    <3>1. CASE r = x
      BY <1>4, <1>8, <1>9, <1>11, <1>12, <2>1, <3>1 DEF Live
    <3>2. CASE r # x
      <4>1. r \in AtCounter /\ r \in Refs
        BY <1>12, <2>1, <3>2, AtCounterRefs
      <4> QED BY <1>1, <1>8, <1>10, <1>11, <3>2, <4>1 DEF ReadyInv
    <3> QED BY <3>1, <3>2
  <2>2. ASSUME NEW r \in Refs, records'[r].origin = "Image", records'[r].state \in Live
        PROVE  r \in AtCounter'
    <3>1. r # x
      BY <1>4, <1>8, <2>2
    <3> QED BY <1>1, <1>8, <1>12, <2>2, <3>1 DEF ReadyInv
  <2> QED BY <2>1, <2>2 DEF ReadyInv
<1>31. OrdersWithinDailyLimits'
  <2>1. Cardinality(AtCounter \cup {x}) <= MaxOrders /\ Cardinality(AtCounter) <= MaxOrders
    <3>1. Cardinality(AtCounter \cup {x}) \in {Cardinality(AtCounter), Cardinality(AtCounter) + 1}
      BY <1>22, FS_AddElement
    <3>2. Cardinality(AtCounter) <= daily.orders
      BY <1>1, <1>20 DEF CountsAll
    <3> QED BY <1>1, <1>22, <3>1, <3>2
  <2>2. Cardinality(Entries) <= MaxSignals
    BY DEF OrdersWithinDailyLimits, Entries
  <2>3. offset = "Open" => Cardinality(Entries \cup {x}) <= MaxSignals
    <3>1. Cardinality(Entries \cup {x}) \in {Cardinality(Entries), Cardinality(Entries) + 1}
      BY <1>22, FS_AddElement
    <3>2. offset = "Open" => Cardinality(Entries) <= daily.signals /\ daily.signals < MaxSignals
      BY <1>20 DEF CountsAll
    <3> QED BY <1>22, <3>1, <3>2
  <2>4. {r \in AtCounter : orders[r].offset = "Open"}' = Entries'
    BY DEF Entries
  <2>5. Cardinality(AtCounter') <= MaxOrders
    BY <1>12, <2>1
  <2>6. Cardinality(Entries') <= MaxSignals
    BY <1>13, <2>2, <2>3
  <2> QED BY <2>4, <2>5, <2>6 DEF OrdersWithinDailyLimits
<1>32. OpenOrdersWithinLimit'
  <2> DEFINE now == {r \in OpenAtCounter : orders[r].offset = "Open"}
             then == {r \in OpenAtCounter : orders[r].offset = "Open"}'
  <2>1. then = IF outcome = "Sent" /\ offset = "Open" THEN now \cup {x} ELSE now
    BY <1>5, <1>9, <1>10, <1>14, AtCounterRefs
  <2>2. now \in SUBSET OpenEntries
    <3> SUFFICES ASSUME NEW r \in now PROVE r \in OpenEntries
      OBVIOUS
    <3>1. r \in AtCounter /\ r \in Refs /\ r \in Known /\ orders[r].status \in Live
          /\ orders[r].offset = "Open"
      BY <1>19, AtCounterRefs DEF OpenAtCounter
    <3>2. records[r].state \in Live /\ records[r].offset = "Open"
      BY <1>1, <3>1 DEF ReadyInv, OffsetInv
    <3> QED BY <3>1, <3>2 DEF OpenEntries
  <2>3. Cardinality(now) <= MaxActiveOpen
    BY DEF OpenOrdersWithinLimit
  <2> HIDE DEF now, then
  <2>4. IsFiniteSet(OpenEntries) /\ Cardinality(OpenEntries) \in Nat
    BY RefsFinite, FS_Subset, FS_CardinalityType DEF OpenEntries
  <2>5. /\ IsFiniteSet(now) /\ Cardinality(now) <= Cardinality(OpenEntries)
        /\ Cardinality(now) \in Nat
    BY <2>2, <2>4, FS_Subset, FS_CardinalityType
  <2>6. offset = "Open" => Cardinality(now \cup {x}) <= MaxActiveOpen
    <3>1. Cardinality(now \cup {x}) \in {Cardinality(now), Cardinality(now) + 1}
      BY <2>5, FS_AddElement
    <3> QED BY <1>22, <2>4, <2>5, <3>1
  <2>7. Cardinality(then) <= MaxActiveOpen
    BY <2>1, <2>3, <2>6
  <2> QED BY <2>7 DEF then, OpenOrdersWithinLimit
<1>33. \A r \in Refs : orders[r].status # "None" => orders'[r] = orders[r]
  BY <1>10
<1> QED BY <1>23, <1>24, <1>25, <1>26, <1>27, <1>28, <1>29, <1>30, <1>31, <1>32, <1>33

\* An entry is sent by the rules of SendKeeps.
LEMMA SubmitEntryKeeps ==
  RestartInv /\ SubmitEntry =>
    RestartInv' /\ \A r \in Refs : orders[r].status # "None" => orders'[r] = orders[r]
<1> SUFFICES ASSUME RestartInv, SubmitEntry
             PROVE  RestartInv' /\ \A r \in Refs : orders[r].status # "None"
                                                   => orders'[r] = orders[r]
  OBVIOUS
<1>1. PICK signal \in Signals :
        /\ daily.signals < MaxSignals
        /\ Cardinality(OpenEntries) < MaxActiveOpen
        /\ Send(signal, "Open")
        /\ daily' = [daily EXCEPT !.signals = @ + 1, !.orders = @ + 1]
  BY DEF SubmitEntry
<1>2. daily.orders < MaxOrders /\ daily \in Daily
  BY <1>1 DEF Send, RestartInv, RTypes, RestartTypeOK
<1>3. /\ daily' \in Daily /\ daily'.orders = daily.orders + 1
      /\ daily'.signals = daily.signals + 1
  <2>1. daily.orders + 1 \in 0 .. MaxOrders /\ daily.signals + 1 \in 0 .. MaxSignals
    BY <1>1, <1>2, RefsAreNumbers DEF Daily
  <2> QED BY <1>1, <1>2, <2>1 DEF Daily
<1>4. signal \in Nat /\ "Open" \in Offsets
  BY RestartAssumption DEF Offsets
<1> QED BY <1>1, <1>3, <1>4, SendKeeps

\* So is an exit.
LEMMA SubmitExitKeeps ==
  RestartInv /\ SubmitExit =>
    RestartInv' /\ \A r \in Refs : orders[r].status # "None" => orders'[r] = orders[r]
<1> SUFFICES ASSUME RestartInv, SubmitExit
             PROVE  RestartInv' /\ \A r \in Refs : orders[r].status # "None"
                                                   => orders'[r] = orders[r]
  OBVIOUS
<1>1. PICK r \in Known :
        /\ Send(records[r].signal, "Close")
        /\ daily' = [daily EXCEPT !.orders = @ + 1]
  BY DEF SubmitExit
<1>2. daily.orders < MaxOrders /\ daily \in Daily
  BY <1>1 DEF Send, RestartInv, RTypes, RestartTypeOK
<1>3. /\ daily' \in Daily /\ daily'.orders = daily.orders + 1
      /\ daily'.signals = daily.signals
  BY <1>1, <1>2, RefsAreNumbers DEF Daily
<1>4. records[r].signal \in Nat /\ "Close" \in Offsets /\ "Close" # "Open"
  BY DEF Known, Offsets, RestartInv, RTypes, RestartTypeOK, Record
<1> QED BY <1>1, <1>3, <1>4, SendKeeps

\* The invariant is inductive.
LEMMA RestartNext == RestartInv /\ [Next]_vars => RestartInv'
<1> SUFFICES ASSUME RestartInv, [Next]_vars PROVE RestartInv'
  OBVIOUS
<1>1. CASE Launch
  BY <1>1, LaunchKeeps
<1>2. CASE Stop
  BY <1>2, StopKeeps
<1>3. CASE Crash
  BY <1>3, CrashKeeps
<1>4. CASE Login
  BY <1>4, LoginKeeps
<1>5. CASE QueryOrders
  BY <1>5, QueryOrdersKeeps
<1>6. CASE Disconnect
  BY <1>6, DisconnectKeeps
<1>7. CASE SubmitEntry
  BY <1>7, SubmitEntryKeeps
<1>8. CASE SubmitExit
  BY <1>8, SubmitExitKeeps
<1>9. CASE Cancel
  BY <1>9, CancelKeeps
<1>10. CASE ReceiveReport
  BY <1>10, ReceiveReportKeeps
<1>11. CASE CounterStep
  BY <1>11, CounterStepKeeps
<1>12. CASE NewDay
  BY <1>12, NewDayKeeps
<1>13. CASE UNCHANGED vars
  <2> USE <1>13 DEF vars, counterVars, session, bounds, RestartInv
  <2>1. RTypes' /\ RunInv' /\ DayInv' /\ SeenInv' /\ ReadyInv'
    BY DEF RTypes, RestartTypeOK, RunInv, DayInv, SeenInv, ReadyInv, Known, AtCounter
  <2>2. JournalInv' /\ CheckpointInv' /\ CountInv' /\ OffsetInv'
    BY SameOrders
    DEF JournalInv, CheckpointInv, CountInv, Counts, OffsetInv, Known, DailyOfLogin
  <2> QED BY <2>1, <2>2, SameOrders
<1> QED BY <1>1, <1>2, <1>3, <1>4, <1>5, <1>6, <1>7, <1>8, <1>9, <1>10, <1>11, <1>12, <1>13
        DEF Next

-----------------------------------------------------------------------------
(* The theorems *)

\* The invariant holds in every state of every run.
THEOREM AlwaysRestartInv == Spec => []RestartInv
<1>1. Init => RestartInv
  BY InitRestart
<1>2. RestartInv /\ [Next]_vars => RestartInv'
  BY RestartNext
<1> QED BY <1>1, <1>2, PTL DEF Spec

\* However often the engine is restarted, however its runs end and whatever the
\* journal loses, the variables keep their types.
THEOREM RestartTypes == Spec => []RestartTypeOK
<1>1. RestartInv => RestartTypeOK
  BY DEF RestartInv, RTypes
<1> QED BY <1>1, AlwaysRestartInv, PTL

\* No restart lets the account send more orders and entries than the day allows:
\* the image brings the counts of its day along, and import_owned_order counts
\* what no image knows of.
THEOREM QuotaHoldsOverRestarts == Spec => []OrdersWithinDailyLimits
<1>1. RestartInv => OrdersWithinDailyLimits
  BY DEF RestartInv
<1> QED BY <1>1, AlwaysRestartInv, PTL

\* max_active_open_orders holds at the counter over all runs, as an account that
\* may trade knows every open order and its offset.
THEOREM OpenLimitHoldsOverRestarts == Spec => []OpenOrdersWithinLimit
<1>1. RestartInv => OpenOrdersWithinLimit
  BY DEF RestartInv
<1> QED BY <1>1, AlwaysRestartInv, PTL

\* Once an account may trade (the order query has converged), no live order at
\* the counter is unknown to it, and none it took from an image is missing there.
THEOREM KnowsOrdersOfEarlierRuns == Spec => []KnowsItsOrders
<1>1. RestartInv => KnowsItsOrders
  <2> SUFFICES ASSUME RestartInv, phase = "Ready"
               PROVE  /\ OpenAtCounter \subseteq {r \in Refs : records[r].state \in Live}
                      /\ \A r \in Refs : records[r].origin = "Image" /\ records[r].state \in Live
                                         => r \in AtCounter
    BY DEF KnowsItsOrders
  <2>1. \A r \in OpenAtCounter : r \in Refs /\ r \in AtCounter /\ orders[r].status \in Live
    BY AtCounterRefs DEF OpenAtCounter
  <2> QED BY <2>1 DEF RestartInv, ReadyInv
<1> QED BY <1>1, AlwaysRestartInv, PTL

\* What build_restart_image leaves out of the image is over at the counter: an
\* order leaves it by a report of its end only, and such a report is true.
THEOREM ImageForgetsNoOrder == Spec => []CleanStopForgetsNoOrder
<1>1. RestartInv => CleanStopForgetsNoOrder
  <2> SUFFICES ASSUME RestartInv, Image(journal).valid,
                      NEW e \in Range(journal.events), e.kind = "Submitted",
                      e.ref \in OpenAtCounter
               PROVE  \E s \in Image(journal).uncertain : s.ref = e.ref
    BY DEF CleanStopForgetsNoOrder
  <2>1. journal.events \in Seq(JournalEvent) /\ journal.dropped \in BOOLEAN
    BY DEF RestartInv, RTypes, JournalType
  <2>2. \/ \E s \in Image(journal).uncertain : s.ref = e.ref
        \/ \E d \in Range(journal.events) : d.kind = "Ended" /\ d.ref = e.ref
    BY <2>1, ImageOf
  <2> QED BY <2>2 DEF RestartInv, JournalInv
<1> QED BY <1>1, AlwaysRestartInv, PTL

\* No step sends an order under a reference the counter has already had that
\* day: a session starts behind every reference its image or the counter names.
THEOREM RefsAreFresh == Spec => FreshOrderRefs
<1>1. RestartInv /\ [Next]_vars =>
        [\A r \in Refs :
           orders[r].status # "None" /\ orders'[r].status = "Submitted"
             => orders'[r] = orders[r]]_vars
  <2> SUFFICES ASSUME RestartInv, [Next]_vars, NEW r \in Refs,
                      orders[r].status # "None", orders'[r].status = "Submitted"
               PROVE  orders'[r] = orders[r]
    OBVIOUS
  <2>1. CASE SubmitEntry
    BY <2>1, SubmitEntryKeeps
  <2>2. CASE SubmitExit
    BY <2>2, SubmitExitKeeps
  <2>3. CASE NewDay
    BY <2>3 DEF NewDay, NoOrder
  <2>4. CASE CounterStep
    <3>1. PICK x \in Refs, status \in {"Accepted", "Done"}, traded \in BOOLEAN :
            orders' = [orders EXCEPT ![x].status = status, ![x].traded = traded]
      BY <2>4 DEF CounterStep
    <3>2. orders \in [Refs -> CounterOrder]
      BY DEF RestartInv, RTypes, RestartTypeOK
    <3>3. orders' = [orders EXCEPT ![x] = [orders[x] EXCEPT !.status = status,
                                                            !.traded = traded]]
      BY <3>1, <3>2 DEF CounterOrder
    <3>4. [orders[x] EXCEPT !.status = status, !.traded = traded].status = status
      BY <3>2 DEF CounterOrder
    <3>5. r # x
      BY <3>2, <3>3, <3>4
    <3> QED BY <3>2, <3>3, <3>5
  <2>5. CASE Launch \/ Stop \/ Crash \/ Login \/ QueryOrders \/ Disconnect \/ Cancel
             \/ ReceiveReport \/ UNCHANGED vars
    <3>1. orders' = orders
      BY <2>5 DEF Launch, Stop, Crash, Forget, Login, QueryOrders, Disconnect, Cancel,
                  ReceiveReport, vars, counterVars
    <3> QED BY <3>1
  <2> QED BY <2>1, <2>2, <2>3, <2>4, <2>5 DEF Next
<1> QED BY <1>1, AlwaysRestartInv, PTL DEF Spec, FreshOrderRefs

=============================================================================
