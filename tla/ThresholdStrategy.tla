-------------------------- MODULE ThresholdStrategy --------------------------
(***************************************************************************)
(* The threshold strategy of one account: it reads the numbered events of  *)
(* the market and asks for an entry when the price crosses the threshold   *)
(* from below. A price is below the threshold or not; "Top" is a price not *)
(* below it to which the protection can no longer be added. The two counts *)
(* that saturate in the code do so here at the limit they are compared     *)
(* with, and the number of an event stays below its largest value.         *)
(***************************************************************************)
EXTENDS Integers, Sequences, FiniteSets

CONSTANTS
  MaxSignalsPerRun,
  RetriggerBelowCount,    \* prices below the threshold between two signals
  CooldownMarketEvents    \* events between two signals

ASSUME StrategyAssumption ==
  /\ MaxSignalsPerRun \in Nat \ {0}
  /\ RetriggerBelowCount \in Nat \ {0}
  /\ CooldownMarketEvents \in Nat

Prices == {"Below", "Above", "Top"}

Strategy ==
  [last : Nat, below : 0 .. RetriggerBelowCount, since : 0 .. CooldownMarketEvents,
   previous : Prices, baseline : BOOLEAN, emitted : 0 .. MaxSignalsPerRun,
   faulted : BOOLEAN]

\* last is 0 until the first event: has_sequence_ is last > 0.
NewStrategy ==
  [last |-> 0, below |-> 0, since |-> 0, previous |-> "Below",
   baseline |-> FALSE, emitted |-> 0, faulted |-> FALSE]

UpTo(limit, n) == IF n < limit THEN n ELSE limit

ClearBaseline(s) == [s EXCEPT !.baseline = FALSE, !.below = 0]

\* Variant: an event that cannot be used leaves the baseline
PassOver(s) == s

\* The strategy after an event of another instrument, an invalid or a stale one
Unusable(s) == ClearBaseline(s)

Crosses(s, price) ==
  s.baseline /\ s.previous = "Below" /\ price # "Below"

\* Variant: one price below the threshold is always enough
EnoughAtOnce(s, below, since) == s.emitted = 0 \/ since >= CooldownMarketEvents

\* A signal after the first needs some prices below the threshold and some
\* events in between.
Enough(s, below, since) ==
  \/ s.emitted = 0 /\ below >= 1
  \/ /\ s.emitted > 0
     /\ below >= RetriggerBelowCount
     /\ since >= CooldownMarketEvents

\* A usable price: the strategy after it, and whether it asks for an entry
OnPrice(s, price) ==
  LET since == IF s.emitted > 0 THEN UpTo(CooldownMarketEvents, s.since + 1)
               ELSE s.since
      crossed == Crosses(s, price)
      below == IF price = "Below" THEN UpTo(RetriggerBelowCount, s.below + 1)
               ELSE IF crossed THEN s.below ELSE 0
      asks == crossed /\ s.emitted < MaxSignalsPerRun
      signal == asks /\ Enough(s, below, since) /\ price # "Top"
  IN [state |-> [s EXCEPT !.since = IF signal THEN 0 ELSE since,
                          !.below = IF asks THEN 0 ELSE below,
                          !.previous = price,
                          !.baseline = TRUE,
                          !.emitted = IF signal THEN @ + 1 ELSE @],
      signal |-> signal]

\* on_market for event number seq; usable says that it is of the instrument,
\* valid and recent.
Decide(s, seq, price, usable) ==
  IF s.faulted THEN [state |-> s, signal |-> FALSE]
  ELSE IF s.last > 0 /\ seq # s.last + 1
  THEN [state |-> [ClearBaseline(s) EXCEPT !.faulted = TRUE], signal |-> FALSE]
  ELSE IF ~usable
  THEN [state |-> [Unusable(s) EXCEPT !.last = seq], signal |-> FALSE]
  ELSE OnPrice([s EXCEPT !.last = seq], price)

-----------------------------------------------------------------------------
(* What the strategy promises of the events it has seen, a sequence of     *)
(* prices with "Bad" for those it could not use                            *)

CrossingAt(seen, i) ==
  i > 1 /\ seen[i - 1] = "Below" /\ seen[i] \in {"Above", "Top"}

\* The last n of the first i prices, and no more, are below the threshold.
BelowInRow(seen, i, n) ==
  /\ \A j \in (i - n + 1) .. i : seen[j] = "Below"
  /\ n < i => seen[i - n] # "Below"

\* Prices below the threshold in a row up to position i
RowBelow(seen, i) == CHOOSE n \in 0 .. i : BelowInRow(seen, i, n)

UsableBetween(seen, i, j) == Cardinality({k \in i .. j : seen[k] # "Bad"})

\* Whether a signal is due at position n after those at the positions before: at
\* a crossing, if it is the first one or far enough from the one before
SignalDue(seen, before, n) ==
  /\ CrossingAt(seen, n) /\ seen[n] # "Top"
  /\ Len(before) < MaxSignalsPerRun
  /\ \/ before = <<>>
     \/ /\ RowBelow(seen, n - 1) >= RetriggerBelowCount
        /\ UsableBetween(seen, before[Len(before)] + 1, n) >= CooldownMarketEvents

\* The positions with a signal
SignalPositions(seen) ==
  LET upTo[n \in 0 .. Len(seen)] ==
        IF n = 0 THEN <<>>
        ELSE IF SignalDue(seen, upTo[n - 1], n) THEN Append(upTo[n - 1], n)
        ELSE upTo[n - 1]
  IN upTo[Len(seen)]
=============================================================================
