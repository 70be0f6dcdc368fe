---------------------------- MODULE MarketIngress ----------------------------
(***************************************************************************)
(* The shared market feed up to the queues of the accounts: the thread of  *)
(* the market API numbers each tick and pushes it to one queue per         *)
(* account, from which the account's own thread takes it.                  *)
(*                                                                         *)
(* A slow account must not hold up the others, so a push to a full queue   *)
(* latches the channel and drops this and all later events of the account. *)
(* ingest looks at accepting twice, and the thread that stops the feed can *)
(* come in between: hence two steps, Number and Publish. A queue is a      *)
(* sequence here; publishing to all of them is one step, as the accounts   *)
(* do not see each other's queue.                                          *)
(***************************************************************************)
EXTENDS Naturals, Sequences

CONSTANTS
  Accounts,   \* the accounts with a channel
  Kinds,      \* what a tick may say
  Capacity,   \* of a queue
  MaxTicks    \* bound: events numbered

ASSUME IngressAssumption == Capacity \in Nat \ {0} /\ MaxTicks \in Nat

VARIABLES
  accepting,    \* the feed is open
  numbered,     \* next_market_seq_ - 1
  pending,      \* the event the API thread has numbered and not yet published
  channels,     \* the queue of each account
  overflowed,   \* the latch of each account
  ticks,        \* history: the events published
  taken         \* history: how many each account has taken

ingressVars ==
  <<accepting, numbered, pending, channels, overflowed, ticks, taken>>

Event == [seq : 1 .. MaxTicks, kind : Kinds]
NoEvent == [seq |-> 0, kind |-> "None"]

IngressInit ==
  /\ accepting = FALSE
  /\ numbered = 0
  /\ pending = NoEvent
  /\ channels = [a \in Accounts |-> <<>>]
  /\ overflowed = [a \in Accounts |-> FALSE]
  /\ ticks = <<>>
  /\ taken = [a \in Accounts |-> 0]

SetAccepting(open) ==
  /\ accepting' = open
  /\ UNCHANGED <<numbered, pending, channels, overflowed, ticks, taken>>

\* Variant: the event numbered before the feed is known to be open
NumberAlways(kind) ==
  /\ pending = NoEvent /\ numbered < MaxTicks
  /\ numbered' = numbered + 1
  /\ pending' = IF accepting THEN [seq |-> numbered', kind |-> kind] ELSE pending
  /\ UNCHANGED <<accepting, channels, overflowed, ticks, taken>>

\* ingest up to publish: a closed feed ignores the tick, an open one numbers it
Number(kind) ==
  /\ pending = NoEvent /\ numbered < MaxTicks
  /\ accepting
  /\ numbered' = numbered + 1
  /\ pending' = [seq |-> numbered', kind |-> kind]
  /\ UNCHANGED <<accepting, channels, overflowed, ticks, taken>>

\* Variant: a latched channel takes events again as soon as there is room
FitsUnlatched(a) == Len(channels[a]) < Capacity

\* The channel takes the event.
Fits(a) == ~overflowed[a] /\ Len(channels[a]) < Capacity

Publish ==
  /\ pending # NoEvent
  /\ pending' = NoEvent
  /\ IF accepting
     THEN /\ channels' = [a \in Accounts |-> IF Fits(a)
                                             THEN Append(channels[a], pending)
                                             ELSE channels[a]]
          /\ overflowed' = [a \in Accounts |-> overflowed[a] \/ ~Fits(a)]
          /\ ticks' = Append(ticks, pending)
     ELSE UNCHANGED <<channels, overflowed, ticks>>
  /\ UNCHANGED <<accepting, numbered, taken>>

\* try_pop
Take(a) ==
  /\ channels[a] # <<>>
  /\ channels' = [channels EXCEPT ![a] = Tail(@)]
  /\ taken' = [taken EXCEPT ![a] = @ + 1]
  /\ UNCHANGED <<accepting, numbered, pending, overflowed, ticks>>

IngressNext ==
  \/ \E open \in BOOLEAN : SetAccepting(open)
  \/ \E kind \in Kinds : Number(kind)
  \/ Publish
  \/ \E a \in Accounts : Take(a)

IngressSpec == IngressInit /\ [][IngressNext]_ingressVars

-----------------------------------------------------------------------------
(* Properties *)

\* Types of the variables
IngressTypeOK ==
  /\ accepting \in BOOLEAN
  /\ numbered \in 0 .. MaxTicks
  /\ pending \in Event \cup {NoEvent}
  /\ channels \in [Accounts -> Seq(Event)]
  /\ overflowed \in [Accounts -> BOOLEAN]
  /\ ticks \in Seq(Event)
  /\ taken \in [Accounts -> Nat]

\* What an account has been given of the market is a beginning of it without a
\* gap, however slow it or another account is; and all of it, until the latch
\* of the account itself says otherwise (publish).
EachAccountGetsAPrefix ==
  \A a \in Accounts :
    LET given == taken[a] + Len(channels[a]) IN
    /\ given <= Len(ticks)
    /\ channels[a] = SubSeq(ticks, taken[a] + 1, given)
    /\ given < Len(ticks) => overflowed[a]
=============================================================================
