-------------------------- MODULE MarketFeedProofs ---------------------------
(***************************************************************************)
(* Proofs about MarketIngress and MarketFeed for any accounts, capacity    *)
(* and bounds: what an account has been given of the market is a beginning *)
(* of it without a gap, and all of it unless its own channel is latched;   *)
(* and the engine gives up on the market only after every account's turn.  *)
(* What the strategies see has no gap but those their workers make, no     *)
(* signal spans a disconnection, and the signals are the crossings among   *)
(* what they see.                                                          *)
(***************************************************************************)
EXTENDS MarketFeed, SequenceTheorems, FiniteSetTheorems, WellFoundedInduction,
        TLAPS

-----------------------------------------------------------------------------
(* The inductive invariant *)

\* What the channel of a holds, event by event
HoldsNext(a) ==
  /\ taken[a] + Len(channels[a]) <= Len(ticks)
  /\ \A i \in 1 .. Len(channels[a]) : channels[a][i] = ticks[taken[a] + i]
  /\ taken[a] + Len(channels[a]) < Len(ticks) => overflowed[a] = TRUE

IngressInv == IngressTypeOK /\ \A a \in Accounts : HoldsNext(a)

\* The event by event form is the one of the property.
LEMMA PrefixFromInv == IngressInv => EachAccountGetsAPrefix
<1> SUFFICES ASSUME IngressInv, NEW a \in Accounts
             PROVE  LET given == taken[a] + Len(channels[a]) IN
                    /\ given <= Len(ticks)
                    /\ channels[a] = SubSeq(ticks, taken[a] + 1, given)
                    /\ given < Len(ticks) => overflowed[a]
  BY DEF EachAccountGetsAPrefix
<1> DEFINE given == taken[a] + Len(channels[a])
<1>1. /\ channels[a] \in Seq(Event) /\ ticks \in Seq(Event)
      /\ taken[a] \in Nat /\ Len(channels[a]) \in Nat /\ given \in Nat
  BY DEF IngressInv, IngressTypeOK
<1>2. given <= Len(ticks) /\ (given < Len(ticks) => overflowed[a])
  BY DEF IngressInv, HoldsNext
<1>a. \A i \in taken[a] + 1 .. given : ticks[i] \in Event
  BY <1>1, <1>2
<1>3. /\ SubSeq(ticks, taken[a] + 1, given) \in Seq(Event)
      /\ Len(SubSeq(ticks, taken[a] + 1, given)) = Len(channels[a])
      /\ \A i \in 1 .. Len(channels[a]) :
           SubSeq(ticks, taken[a] + 1, given)[i] = ticks[taken[a] + i]
  <2>1. /\ SubSeq(ticks, taken[a] + 1, given) \in Seq(Event)
        /\ Len(SubSeq(ticks, taken[a] + 1, given)) =
             IF taken[a] + 1 <= given THEN given - (taken[a] + 1) + 1 ELSE 0
        /\ \A i \in 1 .. given - (taken[a] + 1) + 1 :
             SubSeq(ticks, taken[a] + 1, given)[i] = ticks[(taken[a] + 1) + i - 1]
    <3>1. taken[a] + 1 \in Int /\ given \in Int
      BY <1>1
    <3> HIDE DEF given
    <3> QED BY <1>a, <3>1, SubSeqProperties
  <2>2. /\ given - (taken[a] + 1) + 1 = Len(channels[a])
        /\ (IF taken[a] + 1 <= given THEN given - (taken[a] + 1) + 1 ELSE 0)
             = Len(channels[a])
    BY <1>1
  <2>3. ASSUME NEW i \in 1 .. Len(channels[a])
        PROVE  SubSeq(ticks, taken[a] + 1, given)[i] = ticks[taken[a] + i]
    <3>1. (taken[a] + 1) + i - 1 = taken[a] + i
      BY <1>1
    <3>2. SubSeq(ticks, taken[a] + 1, given)[i] = ticks[(taken[a] + 1) + i - 1]
      BY <2>1, <2>2
    <3> QED BY <3>1, <3>2
  <2> QED BY <2>1, <2>2, <2>3
<1>4. channels[a] = SubSeq(ticks, taken[a] + 1, given)
  BY <1>1, <1>3, SeqEqual DEF IngressInv, HoldsNext
<1> QED BY <1>2, <1>4

-----------------------------------------------------------------------------
(* The steps of the ingress *)

\* Nothing is given before anything is published.
LEMMA IngressInitInv == IngressInit => IngressInv
<1> SUFFICES ASSUME IngressInit PROVE IngressInv
  OBVIOUS
<1>1. <<>> \in Seq(Event) /\ Len(<<>>) = 0
  BY EmptySeq
<1>2. IngressTypeOK
  <2>1. pending \in Event \cup {NoEvent} /\ accepting \in BOOLEAN
    BY DEF IngressInit
  <2>2. numbered \in 0 .. MaxTicks
    BY IngressAssumption DEF IngressInit
  <2>3. /\ channels \in [Accounts -> Seq(Event)]
        /\ overflowed \in [Accounts -> BOOLEAN]
        /\ taken \in [Accounts -> Nat] /\ ticks \in Seq(Event)
    BY <1>1 DEF IngressInit
  <2> QED BY <2>1, <2>2, <2>3 DEF IngressTypeOK
<1>3. ASSUME NEW a \in Accounts PROVE HoldsNext(a)
  BY <1>1 DEF IngressInit, HoldsNext
<1> QED BY <1>2, <1>3 DEF IngressInv

\* Opening and closing the feed moves no event.
LEMMA SetAcceptingInv ==
  ASSUME IngressInv, NEW open \in BOOLEAN, SetAccepting(open)
  PROVE  IngressInv'
BY DEF SetAccepting, IngressInv, IngressTypeOK, HoldsNext

\* A numbered event is in no channel yet.
LEMMA NumberInv ==
  ASSUME IngressInv, NEW kind \in Kinds, Number(kind)
  PROVE  IngressInv'
<1>1. pending' \in Event /\ numbered' \in 0 .. MaxTicks
  BY IngressAssumption DEF Number, Event, IngressInv, IngressTypeOK
<1> QED BY <1>1 DEF Number, IngressInv, IngressTypeOK, HoldsNext

\* A channel that takes the event has taken all before it; one that does not is
\* latched.
LEMMA PublishInv ==
  ASSUME IngressInv, Publish
  PROVE  IngressInv'
<1>1. CASE ~accepting
  BY <1>1 DEF Publish, IngressInv, IngressTypeOK, HoldsNext
<1>2. CASE accepting
  <2>1. /\ pending \in Event
        /\ channels' = [a \in Accounts |-> IF Fits(a)
                                           THEN Append(channels[a], pending)
                                           ELSE channels[a]]
        /\ overflowed' = [a \in Accounts |-> overflowed[a] \/ ~Fits(a)]
        /\ ticks' = Append(ticks, pending)
        /\ UNCHANGED <<accepting, numbered, taken>> /\ pending' = NoEvent
    BY <1>2 DEF Publish, IngressInv, IngressTypeOK
  <2>2. IngressTypeOK'
    BY <2>1 DEF IngressInv, IngressTypeOK, Fits
  <2>3. ASSUME NEW a \in Accounts PROVE HoldsNext(a)'
    <3>1. /\ ticks \in Seq(Event) /\ channels[a] \in Seq(Event)
          /\ taken[a] \in Nat /\ overflowed[a] \in BOOLEAN /\ HoldsNext(a)
      BY DEF IngressInv, IngressTypeOK
    <3>2. /\ Len(ticks') = Len(ticks) + 1 /\ ticks'[Len(ticks) + 1] = pending
          /\ \A i \in 1 .. Len(ticks) : ticks'[i] = ticks[i]
      BY <2>1, <3>1
    <3>3. CASE Fits(a)
      <4>1. channels'[a] = Append(channels[a], pending)
        BY <2>1, <3>3
      <4>2. taken[a] + Len(channels[a]) = Len(ticks)
        BY <3>1, <3>3 DEF Fits, HoldsNext
      <4>3. /\ Len(channels'[a]) = Len(channels[a]) + 1
            /\ channels'[a][Len(channels[a]) + 1] = pending
            /\ \A i \in 1 .. Len(channels[a]) : channels'[a][i] = channels[a][i]
        BY <2>1, <3>1, <4>1
      <4>4. taken' = taken /\ Len(channels[a]) \in Nat /\ Len(ticks) \in Nat
        BY <2>1, <3>1
      <4>5. ASSUME NEW i \in 1 .. Len(channels'[a])
            PROVE  channels'[a][i] = ticks'[taken[a] + i]
        <5>1. CASE i = Len(channels[a]) + 1
          <6>1. taken[a] + i = Len(ticks) + 1
            BY <3>1, <4>2, <4>4, <5>1
          <6> QED BY <3>2, <4>3, <5>1, <6>1
        <5>2. CASE i # Len(channels[a]) + 1
          <6>1. i \in 1 .. Len(channels[a]) /\ taken[a] + i \in 1 .. Len(ticks)
            BY <3>1, <4>2, <4>3, <4>4, <5>2
          <6> QED BY <3>1, <3>2, <4>3, <6>1 DEF HoldsNext
        <5> QED BY <5>1, <5>2
      <4>6. taken'[a] + Len(channels'[a]) = Len(ticks')
        BY <3>1, <3>2, <4>2, <4>3, <4>4
      <4> QED BY <3>1, <3>2, <4>3, <4>4, <4>5, <4>6 DEF HoldsNext
    <3>4. CASE ~Fits(a)
      <4>1. channels'[a] = channels[a] /\ overflowed'[a] = TRUE
        BY <2>1, <3>4
      <4>2. taken' = taken /\ Len(channels[a]) \in Nat /\ Len(ticks) \in Nat
        BY <2>1, <3>1
      <4>3. ASSUME NEW i \in 1 .. Len(channels[a])
            PROVE  channels'[a][i] = ticks'[taken[a] + i]
        <5>1. taken[a] + i \in 1 .. Len(ticks)
          BY <3>1, <4>2 DEF HoldsNext
        <5> QED BY <3>1, <3>2, <4>1, <5>1 DEF HoldsNext
      <4>4. taken[a] + Len(channels[a]) <= Len(ticks')
        BY <3>1, <3>2, <4>2 DEF HoldsNext
      <4> QED BY <4>1, <4>2, <4>3, <4>4 DEF HoldsNext
    <3> QED BY <3>3, <3>4
  <2> QED BY <2>2, <2>3 DEF IngressInv
<1> QED BY <1>1, <1>2

\* An event taken from the channel counts as given all the same.
LEMMA TakeInv ==
  ASSUME IngressInv, NEW b \in Accounts, Take(b)
  PROVE  IngressInv'
<1>1. /\ channels[b] \in Seq(Event) /\ channels[b] # <<>> /\ taken[b] \in Nat
  BY DEF Take, IngressInv, IngressTypeOK
<1>2. /\ Tail(channels[b]) \in Seq(Event)
      /\ Len(Tail(channels[b])) = Len(channels[b]) - 1
      /\ \A i \in 1 .. Len(channels[b]) - 1 :
           Tail(channels[b])[i] = channels[b][i + 1]
  BY <1>1
<1>3. /\ channels' = [channels EXCEPT ![b] = Tail(channels[b])]
      /\ taken' = [taken EXCEPT ![b] = taken[b] + 1]
      /\ UNCHANGED <<accepting, numbered, pending, overflowed, ticks>>
  BY DEF Take
<1>4. IngressTypeOK'
  BY <1>1, <1>2, <1>3 DEF IngressInv, IngressTypeOK
<1>5. ASSUME NEW a \in Accounts PROVE HoldsNext(a)'
  <2>1. CASE a # b
    BY <1>3, <2>1 DEF IngressInv, IngressTypeOK, HoldsNext
  <2>2. CASE a = b
    <3>1. channels'[b] = Tail(channels[b]) /\ taken'[b] = taken[b] + 1
      BY <1>3 DEF IngressInv, IngressTypeOK
    <3>2. Len(channels[b]) \in Nat \ {0} /\ Len(ticks) \in Nat
      BY <1>1 DEF IngressInv, IngressTypeOK
    <3>3. ASSUME NEW i \in 1 .. Len(channels[b]) - 1
          PROVE  channels[b][i + 1] = ticks[taken[b] + (i + 1)]
      BY <3>2 DEF IngressInv, HoldsNext
    <3>4. Len(channels'[b]) = Len(channels[b]) - 1 /\ ticks' = ticks
      BY <1>2, <1>3, <3>1
    <3>5. taken'[b] + Len(channels'[b]) = taken[b] + Len(channels[b])
      BY <1>1, <3>1, <3>2, <3>4
    <3>6. ASSUME NEW i \in 1 .. Len(channels'[b])
          PROVE  channels'[b][i] = ticks'[taken'[b] + i]
      <4>1. i \in 1 .. Len(channels[b]) - 1 /\ i \in Int
        BY <3>4
      <4>2. taken[b] + (i + 1) = taken'[b] + i
        BY <1>1, <3>1, <4>1
      <4> QED BY <1>2, <3>1, <3>3, <3>4, <4>1, <4>2
    <3> QED BY <1>3, <2>2, <3>4, <3>5, <3>6 DEF IngressInv, HoldsNext
  <2> QED BY <2>1, <2>2
<1> QED BY <1>4, <1>5 DEF IngressInv

\* The invariant of the ingress is inductive.
LEMMA IngressNextInv == IngressInv /\ [IngressNext]_ingressVars => IngressInv'
<1> SUFFICES ASSUME IngressInv, [IngressNext]_ingressVars PROVE IngressInv'
  OBVIOUS
<1>1. CASE UNCHANGED ingressVars
  BY <1>1 DEF ingressVars, IngressInv, IngressTypeOK, HoldsNext
<1>2. CASE IngressNext
  BY <1>2, SetAcceptingInv, NumberInv, PublishInv, TakeInv DEF IngressNext
<1> QED BY <1>1, <1>2

-----------------------------------------------------------------------------
(* The connection, the main thread and the workers move the ingress by its *)
(* own steps only                                                          *)

\* What is left of the bounds keeps its type.
KindsKnown == left.kinds \subseteq Kinds

\* A step of the ingress, or none
IngressStep == [IngressNext]_ingressVars

\* The feed opens and closes, and an event is numbered, in such a step.
LEMMA IsIngressStep ==
  ASSUME \/ UNCHANGED ingressVars
         \/ SetAccepting(TRUE) \/ SetAccepting(FALSE)
         \/ \E kind \in Kinds : Number(kind)
         \/ Publish
         \/ \E a \in Accounts : Take(a)
  PROVE  IngressStep
BY DEF IngressStep, IngressNext

\* Each callback is a step of the ingress or none.
LEMMA ApiStepsIngress ==
  ASSUME KindsKnown, ApiStep
  PROVE  IngressStep
<1>1. ASSUME OnFrontConnected \/ OnRspUserLogin
      PROVE  SetAccepting(FALSE) \/ UNCHANGED ingressVars
  BY <1>1 DEF OnFrontConnected, OnRspUserLogin, Ask, FailConnection
<1>2. ASSUME OnRspSubMarketData
      PROVE  SetAccepting(TRUE) \/ SetAccepting(FALSE)
  BY <1>2 DEF OnRspSubMarketData, FailConnection
<1>3. ASSUME OnRtnDepthMarketData PROVE \E kind \in Kinds : Number(kind)
  <2>1. PICK kind \in left.kinds : Number(kind)
    BY <1>3 DEF OnRtnDepthMarketData
  <2> QED BY <2>1 DEF KindsKnown
<1>4. ASSUME OnFrontDisconnected
      PROVE  (\E kind \in Kinds : Number(kind)) \/ UNCHANGED ingressVars
  BY <1>4, FeedAssumption DEF OnFrontDisconnected
<1>5. ASSUME PublishEvent PROVE Publish
  BY <1>5 DEF PublishEvent
<1>6. ASSUME HangUp PROVE SetAccepting(FALSE)
  BY <1>6 DEF HangUp
<1> QED
  BY <1>1, <1>2, <1>3, <1>4, <1>5, <1>6, IsIngressStep DEF ApiStep

\* The main thread closes the feed at most, and a worker takes an event.
LEMMA FeedStepsIngress ==
  ASSUME KindsKnown, [FeedNext]_feedVars
  PROVE  IngressStep
<1>1. CASE UNCHANGED feedVars
  BY <1>1, IsIngressStep DEF feedVars
<1>2. CASE FailoverStep \/ StopEngine
  <2>1. SetAccepting(FALSE) \/ UNCHANGED ingressVars
    BY <1>2 DEF FailoverStep, StopEngine, CloseFeed, Release, CreateCandidate
  <2> QED BY <2>1, IsIngressStep
<1>3. CASE \E a \in Accounts : WorkerStep(a)
  <2>1. \E a \in Accounts : Take(a)
    BY <1>3 DEF WorkerStep, Discard, OnMarket
  <2> QED BY <2>1, IsIngressStep
<1> QED BY <1>1, <1>2, <1>3, ApiStepsIngress DEF FeedNext

\* No step changes what ticks may say.
LEMMA KindsStay ==
  ASSUME KindsKnown, [FeedNext]_feedVars
  PROVE  KindsKnown'
<1>1. CASE OnFrontConnected
  <2>1. left' = [left EXCEPT !.connects = left.connects - 1]
    BY <1>1 DEF OnFrontConnected
  <2>2. left'.kinds = left.kinds
    BY <2>1
  <2> QED BY <2>2 DEF KindsKnown
<1>2. CASE ~OnFrontConnected
  <2>1. left' = left
    BY <1>2 DEF feedVars, connection, FeedNext, ApiStep, OnRspUserLogin,
             OnRspSubMarketData, OnRtnDepthMarketData, PublishEvent,
             OnFrontDisconnected, HangUp, FailoverStep, StopEngine, CloseFeed,
             Release, CreateCandidate, WorkerStep, Discard, OnMarket
  <2> QED BY <2>1 DEF KindsKnown
<1> QED BY <1>1, <1>2

-----------------------------------------------------------------------------
(* The turns of the accounts *)

\* How many turns ago the account had its last one, 0 for the last
TurnsAgo(a) ==
  IF a < nextCandidate THEN nextCandidate - 1 - a
  ELSE nextCandidate + N - 1 - a

\* The main thread has no connection.
WithoutFeed == main \in {"Create", "Exhausted"}

\* The accounts that failed in this round of the failover
Failed == tried \cup earlier

\* They are those of the last turns, one for each failure; the account of a
\* connection there is has had the last turn and is not among them. While the
\* feed runs, none has failed since.
TurnInv ==
  /\ nextCandidate \in Accounts
  /\ failures \in 0 .. N
  /\ IsFiniteSet(Failed) /\ Cardinality(Failed) = failures
  /\ WithoutFeed => Failed = {a \in Accounts : TurnsAgo(a) < failures}
  /\ ~WithoutFeed => /\ failures < N
                     /\ candidate \in Accounts /\ TurnsAgo(candidate) = 0
                     /\ Failed = {a \in Accounts : TurnsAgo(a) \in 1 .. failures}
  /\ main = "Exhausted" => failures = N
  /\ market = "Running" => tried = {}

\* There is an account.
LEMMA AccountsCounted == N \in Nat \ {0} /\ Accounts = 0 .. N - 1
<1>1. N \in Nat
  BY FeedAssumption, FS_CardinalityType DEF N
<1> QED BY <1>1, FeedAssumption DEF N

\* The turn after the last account's is the first one's.
LEMMA NextTurn ==
  ASSUME nextCandidate \in Accounts, NEW started
  PROVE  SuccessorOf(started) =
           IF nextCandidate = N - 1 THEN 0 ELSE nextCandidate + 1
<1>1. N \in Nat \ {0} /\ nextCandidate \in 0 .. N - 1
  BY AccountsCounted
<1>2. CASE nextCandidate = N - 1
  <2>1. nextCandidate + 1 = N
    BY <1>1, <1>2
  <2>2. N % N = 0
    BY <1>1
  <2> QED BY <1>2, <2>1, <2>2 DEF SuccessorOf
<1>3. CASE nextCandidate # N - 1
  <2>1. nextCandidate + 1 \in 0 .. N - 1
    BY <1>1, <1>3
  <2>2. \A i \in 0 .. N - 1 : i % N = i
    BY <1>1
  <2> QED BY <1>3, <2>1, <2>2 DEF SuccessorOf
<1> QED BY <1>2, <1>3

\* A turn makes every other one a turn older.
LEMMA TurnsPass ==
  ASSUME NEW turn \in Accounts, turn = nextCandidate, NEW started,
         nextCandidate' = SuccessorOf(started)
  PROVE  /\ nextCandidate' \in Accounts
         /\ TurnsAgo(turn) = N - 1 /\ TurnsAgo(turn)' = 0
         /\ \A a \in Accounts \ {turn} : TurnsAgo(a)' = TurnsAgo(a) + 1
<1>1. N \in Nat \ {0} /\ Accounts = 0 .. N - 1
  BY AccountsCounted
<1>2. nextCandidate' = IF turn = N - 1 THEN 0 ELSE turn + 1
  BY NextTurn
<1> QED BY <1>1, <1>2 DEF TurnsAgo

\* At the start every turn is to come.
LEMMA TurnsInit == FeedInit => TurnInv
<1> SUFFICES ASSUME FeedInit PROVE TurnInv
  OBVIOUS
<1>1. N \in Nat \ {0} /\ Accounts = 0 .. N - 1
  BY AccountsCounted
<1>2. \A a \in Accounts : ~(TurnsAgo(a) < 0)
  BY <1>1 DEF FeedInit, TurnsAgo
<1>3. /\ main = "Create" /\ nextCandidate = 0 /\ failures = 0 /\ tried = {}
        /\ Failed = {}
  BY DEF FeedInit, Failed
<1> QED BY <1>1, <1>2, <1>3, FS_EmptySet DEF TurnInv, WithoutFeed

\* Steps that leave the failures and the turns alone, and a connection too.
LEMMA TurnsKeep ==
  ASSUME TurnInv, UNCHANGED <<candidate, nextCandidate, failures, Failed>>,
         WithoutFeed' = WithoutFeed,
         main' = "Exhausted" => main = "Exhausted" \/ failures = N,
         market' = "Running" => tried' = {}
  PROVE  TurnInv'
<1>1. \A a : TurnsAgo(a)' = TurnsAgo(a)
  BY DEF TurnsAgo
<1> QED BY <1>1 DEF TurnInv

\* The main thread's steps.
LEMMA FailoverTurns ==
  ASSUME TurnInv, FailoverStep
  PROVE  TurnInv'
<1>1. N \in Nat \ {0} /\ Accounts = 0 .. N - 1
  BY AccountsCounted
<1>2. CASE SeeRunning /\ UNCHANGED connection
  <2>1. /\ main = "Poll" /\ main' = main /\ failures' = 0 /\ Failed' = {}
        /\ tried' = {} /\ UNCHANGED <<candidate, nextCandidate>>
    BY <1>2 DEF SeeRunning, TurnInv, Failed
  <2>2. candidate \in Accounts /\ TurnsAgo(candidate)' = 0
    BY <2>1 DEF TurnInv, WithoutFeed, TurnsAgo
  <2> QED BY <1>1, <2>1, <2>2, FS_EmptySet DEF TurnInv, WithoutFeed
<1>3. CASE \/ (SeeFailed \/ KeepCandidate \/ DropCandidate) /\ UNCHANGED connection
         \/ CloseFeed
  <2>1. /\ main \in {"Poll", "Ensure", "Close"}
        /\ main' \in {"Ensure", "Poll", "Close", "Release"}
        /\ UNCHANGED <<market, candidate, nextCandidate, failures, tried, Failed>>
    BY <1>3 DEF SeeFailed, KeepCandidate, DropCandidate, CloseFeed, connection,
                Failed
  <2> QED BY <2>1, TurnsKeep DEF WithoutFeed, TurnInv
<1>4. CASE GiveUp /\ UNCHANGED connection
  <2>1. /\ main = "Create" /\ main' = "Exhausted" /\ failures >= N
        /\ UNCHANGED <<market, candidate, nextCandidate, failures, tried, Failed>>
    BY <1>4 DEF GiveUp, connection, Failed
  <2>2. failures = N
    BY <1>1, <2>1 DEF TurnInv
  <2> QED BY <2>1, <2>2, TurnsKeep DEF WithoutFeed, TurnInv
<1>5. CASE Release
  <2>1. /\ main = "Release" /\ main' = "Create"
        /\ failures' = failures + 1 /\ Failed' = Failed \cup {candidate}
        /\ market' # "Running" /\ UNCHANGED <<candidate, nextCandidate>>
    BY <1>5 DEF Release, Failed
  <2>2. /\ failures \in 0 .. N - 1 /\ candidate \in Accounts
        /\ TurnsAgo(candidate) = 0 /\ nextCandidate \in Accounts
        /\ Failed = {a \in Accounts : TurnsAgo(a) \in 1 .. failures}
        /\ IsFiniteSet(Failed) /\ Cardinality(Failed) = failures
    BY <1>1, <2>1 DEF TurnInv, WithoutFeed
  <2>3. \A a \in Accounts : TurnsAgo(a)' = TurnsAgo(a) /\ TurnsAgo(a) \in Nat
    BY <1>1, <2>1, <2>2 DEF TurnsAgo
  <2>4. \A a \in Accounts : TurnsAgo(a) = 0 => a = candidate
    BY <1>1, <2>2 DEF TurnsAgo
  <2>5. Failed' = {a \in Accounts : TurnsAgo(a)' < failures'}
    <3>1. \A a \in Accounts : TurnsAgo(a)' < failures'
                               <=> a = candidate \/ TurnsAgo(a) \in 1 .. failures
      BY <2>1, <2>2, <2>3, <2>4
    <3> QED BY <2>1, <2>2, <3>1
  <2>6. candidate \notin Failed
    BY <2>2
  <2>7. IsFiniteSet(Failed') /\ Cardinality(Failed') = failures'
    BY <2>1, <2>2, <2>6, FS_AddElement
  <2> QED BY <1>1, <2>1, <2>2, <2>5, <2>7 DEF TurnInv, WithoutFeed
<1>6. CASE CreateCandidate
  <2> DEFINE turn == nextCandidate
  <2>1. /\ main = "Create" /\ turn \in Accounts /\ failures \in 0 .. N - 1
        /\ Failed = {a \in Accounts : TurnsAgo(a) < failures}
        /\ IsFiniteSet(Failed) /\ Cardinality(Failed) = failures
    BY <1>1, <1>6 DEF CreateCandidate, TurnInv, WithoutFeed
  <2>2. PICK started \in BOOLEAN :
          /\ candidate' = turn
          /\ nextCandidate' = SuccessorOf(started)
          /\ main' = IF started THEN "Ensure" ELSE "Create"
          /\ failures' = IF started THEN failures ELSE failures + 1
          /\ Failed' = IF started THEN Failed ELSE Failed \cup {turn}
          /\ market' # "Running"
    BY <1>6 DEF CreateCandidate, Failed
  <2>3. PICK old \in Accounts : old = turn
    BY <2>1
  <2>4. /\ nextCandidate' \in Accounts
        /\ TurnsAgo(old) = N - 1 /\ TurnsAgo(old)' = 0
        /\ \A a \in Accounts \ {old} : TurnsAgo(a)' = TurnsAgo(a) + 1
    BY <2>2, <2>3, TurnsPass
  <2>5. \A a \in Accounts : TurnsAgo(a) \in Nat
    BY <1>1, <2>1 DEF TurnsAgo
  <2>6. old \notin Failed
    BY <1>1, <2>1, <2>4
  <2>7. candidate' = old
    BY <2>2, <2>3
  <2>8. CASE started
    <3>1. /\ main' = "Ensure" /\ failures' = failures /\ Failed' = Failed
      BY <2>2, <2>8
    <3>2. \A a \in Accounts : TurnsAgo(a)' \in 1 .. failures'
                               <=> TurnsAgo(a) < failures
      <4>1. ASSUME NEW a \in Accounts \ {old}
            PROVE  TurnsAgo(a)' \in 1 .. failures <=> TurnsAgo(a) < failures
        BY <2>1, <2>4, <2>5
      <4>2. TurnsAgo(old)' \notin 1 .. failures /\ ~(TurnsAgo(old) < failures)
        BY <1>1, <2>1, <2>4
      <4> QED BY <3>1, <4>1, <4>2
    <3>3. Failed' = {a \in Accounts : TurnsAgo(a)' \in 1 .. failures'}
      BY <2>1, <3>1, <3>2
    <3>4. candidate' \in Accounts /\ TurnsAgo(candidate)' = 0
      BY <2>4, <2>7 DEF TurnsAgo
    <3> QED BY <1>1, <2>1, <2>2, <2>4, <3>1, <3>3, <3>4 DEF TurnInv, WithoutFeed
  <2>9. CASE ~started
    <3>1. /\ main' = "Create" /\ failures' = failures + 1
          /\ Failed' = Failed \cup {old}
      BY <2>2, <2>3, <2>9
    <3>2. \A a \in Accounts : TurnsAgo(a)' < failures'
                               <=> a = old \/ TurnsAgo(a) < failures
      BY <2>1, <2>4, <2>5, <3>1
    <3>3. Failed' = {a \in Accounts : TurnsAgo(a)' < failures'}
      BY <2>1, <2>3, <3>1, <3>2
    <3>4. IsFiniteSet(Failed') /\ Cardinality(Failed') = failures'
      BY <2>1, <2>6, <3>1, FS_AddElement
    <3> QED BY <1>1, <2>1, <2>2, <2>4, <3>1, <3>3, <3>4 DEF TurnInv, WithoutFeed
  <2> QED BY <2>8, <2>9
<1> QED BY <1>2, <1>3, <1>4, <1>5, <1>6 DEF FailoverStep

\* The turns are the main thread's alone.
LEMMA TurnsStep == TurnInv /\ [FeedNext]_feedVars => TurnInv'
<1> SUFFICES ASSUME TurnInv, [FeedNext]_feedVars PROVE TurnInv'
  OBVIOUS
<1>1. CASE UNCHANGED feedVars
  BY <1>1, TurnsKeep DEF feedVars, connection, failover, WithoutFeed, Failed, TurnInv
<1>2. CASE ApiStep
  <2>1. /\ UNCHANGED <<main, candidate, nextCandidate, failures, Failed>>
        /\ market' = "Running" => tried' = {}
    BY <1>2 DEF ApiStep, OnFrontConnected, OnRspUserLogin, OnRspSubMarketData,
             OnRtnDepthMarketData, PublishEvent, OnFrontDisconnected, HangUp, Ask,
             FailConnection, connection, failover, Failed, TurnInv
  <2> QED BY <2>1, TurnsKeep DEF WithoutFeed
<1>3. CASE StopEngine
  <2>1. /\ main = "Poll" /\ main' = "Stopped"
        /\ UNCHANGED <<market, candidate, nextCandidate, failures, tried, Failed>>
    BY <1>3 DEF StopEngine, connection, Failed
  <2> QED BY <2>1, TurnsKeep DEF WithoutFeed, TurnInv
<1>4. CASE \E a \in Accounts : WorkerStep(a)
  <2>1. UNCHANGED <<connection, failover>>
    BY <1>4 DEF WorkerStep, Discard, OnMarket
  <2> QED BY <2>1, TurnsKeep DEF connection, failover, WithoutFeed, Failed, TurnInv
<1> QED BY <1>1, <1>2, <1>3, <1>4, FailoverTurns DEF FeedNext

\* One account has failed for each failure, and N failures are every account.
LEMMA TurnsSuffice == TurnInv => GivesUpAfterAll
<1> SUFFICES ASSUME TurnInv PROVE GivesUpAfterAll
  OBVIOUS
<1>1. N \in Nat \ {0} /\ Accounts = 0 .. N - 1
  BY AccountsCounted
<1>2. \A a \in Accounts : TurnsAgo(a) < N
  BY <1>1 DEF TurnInv, TurnsAgo
<1>3. ASSUME main = "Exhausted" PROVE Failed = Accounts
  <2>1. Failed = {a \in Accounts : TurnsAgo(a) < N}
    BY <1>3 DEF TurnInv, WithoutFeed
  <2> QED BY <1>2, <2>1
<1>4. ASSUME ~WithoutFeed PROVE Failed # Accounts
  <2>1. candidate \in Accounts /\ candidate \notin Failed
    BY <1>1, <1>4 DEF TurnInv
  <2> QED BY <2>1
<1> QED BY <1>3, <1>4 DEF GivesUpAfterAll, WithoutFeed, Failed

-----------------------------------------------------------------------------
(* The theorems *)

\* The engine starts with an empty ingress and with ticks of the known kinds.
LEMMA FeedInitInv == FeedInit => IngressInv /\ KindsKnown
<1> SUFFICES ASSUME FeedInit PROVE IngressInv /\ KindsKnown
  OBVIOUS
<1>1. IngressInv
  BY IngressInitInv DEF FeedInit
<1>2. left \in [ticks : 0 .. MaxTicks, kinds : SUBSET Kinds,
               stale : SUBSET BOOLEAN, connects : Nat, restless : SUBSET Accounts]
  BY FeedAssumption DEF FeedInit
<1>3. left.kinds \in SUBSET Kinds
  BY <1>2
<1> QED BY <1>1, <1>3 DEF KindsKnown

\* The ingress alone, with the feed opened and closed at any moment: its types,
\* and that every account is given a beginning of the market without a gap.
THEOREM IngressCorrect == IngressSpec => [](IngressTypeOK /\ EachAccountGetsAPrefix)
<1>1. IngressInv => IngressTypeOK /\ EachAccountGetsAPrefix
  BY PrefixFromInv DEF IngressInv
<1> QED BY <1>1, IngressInitInv, IngressNextInv, PTL DEF IngressSpec

\* The same in the engine, whatever becomes of the connection.
THEOREM FeedWithoutGaps == FeedSpec => []EachAccountGetsAPrefix
<1>1. FeedInit => IngressInv /\ KindsKnown
  BY FeedInitInv
<1>2. IngressInv /\ KindsKnown /\ [FeedNext]_feedVars => (IngressInv /\ KindsKnown)'
  BY FeedStepsIngress, KindsStay, IngressNextInv DEF IngressStep
<1> QED BY <1>1, <1>2, PrefixFromInv, PTL DEF FeedSpec

\* For any number of accounts: the engine gives up on the market only when every
\* account's credentials have failed since the feed last ran, those that failed
\* before a run the main thread has missed included, and that no account gets a
\* connection once all have (run_live_engine).
THEOREM OutOfCandidates == FeedSpec => []GivesUpAfterAll
<1> QED BY TurnsInit, TurnsStep, TurnsSuffice, PTL DEF FeedSpec

-----------------------------------------------------------------------------
(* The numbers of the events, and what ends a subscription *)

\* The last event told that the connection was gone.
EndsNull == ticks # <<>> => ticks[Len(ticks)].kind = "Null"

\* A request is owed by a connection that has not come further, and the main
\* thread makes a new connection only when there is none.
LinkInv ==
  /\ owed # "None" => link /\ market \in {"LoggingIn", "Subscribing"}
  /\ market = "None" => ~link /\ ~hangingUp
  /\ main = "Create" => market = "None"
  /\ hangingUp => ~link

\* Unless the main thread cuts the feed off: it is open only in a connection
\* that runs, no number is left out, and it is closed with an invalid event as
\* its last one, so that one precedes the first event of every subscription
\* but the first.
FeedLog ==
  /\ accepting => market = "Running" /\ (link \/ hangingUp)
  /\ pending # NoEvent => accepting /\ pending.seq = numbered
  /\ \A i \in 1 .. Len(ticks) : ticks[i].seq = i
  /\ numbered = Len(ticks) + (IF pending = NoEvent THEN 0 ELSE 1)
  /\ hangingUp /\ accepting =>
       IF pending = NoEvent THEN EndsNull ELSE pending.kind = "Null"
  /\ ~accepting => EndsNull
  /\ \A l \in logins : /\ l \in 1 .. Len(ticks) + 1
                       /\ l > 1 => ticks[l - 1].kind = "Null"

\* A connection is asked and answered in turn.
LEMMA LinkSteps == LinkInv /\ [FeedNext]_feedVars => LinkInv'
<1> SUFFICES ASSUME LinkInv, [FeedNext]_feedVars PROVE LinkInv'
  OBVIOUS
<1>1. CASE UNCHANGED feedVars
  BY <1>1 DEF feedVars, connection, failover, LinkInv
<1>2. CASE OnFrontConnected
  <2>1. /\ market # "None" /\ market' \in {"LoggingIn", "Failed"}
        /\ link' /\ (owed' # "None" => market' = "LoggingIn")
        /\ ~hangingUp /\ hangingUp' = hangingUp /\ main' = main
    BY <1>2 DEF OnFrontConnected, Ask, FailConnection, Free, failover
  <2> QED BY <2>1 DEF LinkInv
<1>3. CASE OnRspUserLogin \/ OnRspSubMarketData
  <2>1. /\ owed # "None" /\ market' # "None" /\ link' = link
        /\ owed' # "None" => market' = "Subscribing"
        /\ ~hangingUp /\ hangingUp' = hangingUp /\ main' = main
    BY <1>3 DEF OnRspUserLogin, OnRspSubMarketData, Ask, FailConnection, Free,
                failover
  <2> QED BY <2>1 DEF LinkInv
<1>4. CASE OnRtnDepthMarketData \/ PublishEvent
  BY <1>4 DEF OnRtnDepthMarketData, PublishEvent, connection, failover, LinkInv
<1>5. CASE OnFrontDisconnected
  <2>1. /\ market # "None" /\ market' = market /\ ~link' /\ owed' = "None"
        /\ main' = main
    BY <1>5 DEF OnFrontDisconnected, failover
  <2> QED BY <2>1 DEF LinkInv
<1>6. CASE HangUp
  <2>1. /\ hangingUp /\ market' = "Disconnected" /\ ~hangingUp'
        /\ UNCHANGED <<owed, link, main>>
    BY <1>6 DEF HangUp, failover
  <2> QED BY <2>1 DEF LinkInv
<1>7. CASE \/ /\ SeeRunning \/ SeeFailed \/ KeepCandidate \/ DropCandidate \/ GiveUp
              /\ UNCHANGED connection
           \/ CloseFeed \/ StopEngine
  <2>1. UNCHANGED connection /\ (main' = "Create" => main = "Create")
    BY <1>7 DEF SeeRunning, SeeFailed, KeepCandidate, DropCandidate, GiveUp,
                CloseFeed, StopEngine
  <2> QED BY <2>1 DEF connection, LinkInv
<1>8. CASE Release
  <2>1. /\ market' = "None" /\ ~link' /\ owed' = "None"
        /\ ~hangingUp /\ hangingUp' = hangingUp
    BY <1>8 DEF Release, Free
  <2> QED BY <2>1 DEF LinkInv
<1>9. CASE CreateCandidate
  <2>1. /\ main = "Create" /\ market' \in {"None", "Connecting"}
        /\ main' = "Create" => market' = "None"
        /\ UNCHANGED <<link, owed, hangingUp>>
    BY <1>9 DEF CreateCandidate
  <2> QED BY <2>1 DEF LinkInv
<1>10. CASE \E a \in Accounts : WorkerStep(a)
  <2>1. UNCHANGED <<connection, failover>>
    BY <1>10 DEF WorkerStep, Discard, OnMarket
  <2> QED BY <2>1 DEF connection, failover, LinkInv
<1> QED
  BY <1>1, <1>2, <1>3, <1>4, <1>5, <1>6, <1>7, <1>8, <1>9, <1>10
  DEF FeedNext, ApiStep, FailoverStep

\* A step that publishes nothing and leaves a feed alone that is open
LEMMA LogKept ==
  ASSUME FeedLog, UNCHANGED <<accepting, numbered, pending, ticks, logins>>,
         accepting => UNCHANGED <<market, link, hangingUp>>
  PROVE  FeedLog'
BY DEF FeedLog, EndsNull

\* A feed that is closed is closed behind an invalid event.
LEMMA LogClosed ==
  ASSUME FeedLog, UNCHANGED <<numbered, pending, ticks, logins>>,
         pending = NoEvent, accepting' = FALSE, EndsNull
  PROVE  FeedLog'
BY DEF FeedLog, EndsNull

\* The requests and their answers
LEMMA LogAsked ==
  ASSUME FeedLog, LinkInv, IngressTypeOK,
         OnFrontConnected \/ OnRspUserLogin \/ OnRspSubMarketData
  PROVE  FeedLog'
<1>1. pending = NoEvent /\ ~hangingUp
  BY DEF OnFrontConnected, OnRspUserLogin, OnRspSubMarketData, Free
<1>2. ~accepting /\ EndsNull
  BY <1>1 DEF OnFrontConnected, OnRspUserLogin, OnRspSubMarketData, LinkInv,
              FeedLog
<1>3. UNCHANGED <<numbered, pending, ticks>>
  BY DEF OnFrontConnected, OnRspUserLogin, OnRspSubMarketData, Ask,
         FailConnection, SetAccepting, ingressVars
<1>4. CASE accepting' = FALSE /\ UNCHANGED logins
  BY <1>1, <1>2, <1>3, <1>4, LogClosed
<1>5. CASE ~(accepting' = FALSE /\ UNCHANGED logins)
  <2>1. OnRspSubMarketData
    BY <1>2, <1>5 DEF OnFrontConnected, OnRspUserLogin, Ask, FailConnection,
         SetAccepting, ingressVars, IngressTypeOK
  <2>2. /\ owed = "Subscribe" /\ market' = "Running"
        /\ logins' = logins \cup {numbered + 1}
        /\ UNCHANGED <<link, hangingUp>>
    BY <1>5, <2>1 DEF OnRspSubMarketData, FailConnection, SetAccepting
  <2>3. link'
    BY <2>2 DEF LinkInv
  <2>4. ticks \in Seq(Event) /\ numbered = Len(ticks)
    BY <1>1 DEF IngressTypeOK, FeedLog
  <2>5. Len(ticks) > 0 => ticks[Len(ticks)].kind = "Null"
    BY <1>2, <2>4 DEF EndsNull
  <2>6. \A l \in logins' : /\ l \in 1 .. Len(ticks') + 1
                           /\ l > 1 => ticks'[l - 1].kind = "Null"
    <3>1. CASE numbered + 1 > 1
      <4>1. Len(ticks) > 0 /\ Len(ticks) + 1 - 1 = Len(ticks)
        BY <2>4, <3>1
      <4> QED BY <1>3, <2>2, <2>4, <2>5, <4>1 DEF FeedLog
    <3>2. CASE ~(numbered + 1 > 1)
      BY <1>3, <2>2, <2>4, <3>2 DEF FeedLog
    <3> QED BY <3>1, <3>2
  <2> QED BY <1>1, <1>2, <1>3, <2>2, <2>3, <2>6 DEF FeedLog, EndsNull
<1> QED BY <1>4, <1>5

\* An event is numbered behind all that were.
LEMMA LogNumbered ==
  ASSUME FeedLog, IngressTypeOK, NEW kind, Number(kind),
         UNCHANGED <<logins, market>>,
         \/ UNCHANGED <<link, hangingUp>> /\ ~hangingUp
         \/ hangingUp' /\ kind = "Null"
  PROVE  FeedLog'
<1>1. /\ pending = NoEvent /\ accepting /\ numbered' = numbered + 1
      /\ pending' = [seq |-> numbered', kind |-> kind]
      /\ UNCHANGED <<accepting, ticks>>
  BY DEF Number
<1>2. /\ numbered = Len(ticks) /\ Len(ticks) \in Nat
  BY <1>1 DEF IngressTypeOK, FeedLog
<1>3. pending'.seq = numbered' /\ pending'.kind = kind /\ pending' # NoEvent
  BY <1>1, <1>2 DEF NoEvent
<1> QED BY <1>1, <1>2, <1>3 DEF FeedLog, EndsNull

\* ... and is published at once, as long as nothing closes the feed.
LEMMA LogPublished ==
  ASSUME FeedLog, IngressTypeOK, Publish, UNCHANGED <<logins, market, link, hangingUp>>
  PROVE  FeedLog'
<1>1. /\ pending # NoEvent /\ accepting /\ pending' = NoEvent
      /\ ticks' = Append(ticks, pending) /\ UNCHANGED <<accepting, numbered>>
  BY DEF FeedLog, Publish
<1>2. /\ pending \in Event /\ ticks \in Seq(Event) /\ Len(ticks) \in Nat
      /\ numbered = Len(ticks) + 1 /\ pending.seq = numbered
  BY <1>1 DEF IngressTypeOK, FeedLog
<1>3. /\ Len(ticks') = Len(ticks) + 1 /\ ticks'[Len(ticks) + 1] = pending
      /\ \A i \in 1 .. Len(ticks) : ticks'[i] = ticks[i]
  BY <1>1, <1>2
<1>4. \A i \in 1 .. Len(ticks') : ticks'[i].seq = i
  BY <1>2, <1>3 DEF FeedLog
<1>5. \A l \in logins' : /\ l \in 1 .. Len(ticks') + 1
                         /\ l > 1 => ticks'[l - 1].kind = "Null"
  <2> SUFFICES ASSUME NEW l \in logins
               PROVE  /\ l \in 1 .. Len(ticks') + 1
                      /\ l > 1 => ticks'[l - 1].kind = "Null"
    OBVIOUS
  <2>1. l \in 1 .. Len(ticks) + 1 /\ (l > 1 => ticks[l - 1].kind = "Null")
    BY DEF FeedLog
  <2>2. l > 1 => l - 1 \in 1 .. Len(ticks)
    BY <1>2, <2>1
  <2> QED BY <1>2, <1>3, <2>1, <2>2
<1>6. hangingUp' => EndsNull'
  BY <1>1, <1>2, <1>3 DEF FeedLog, EndsNull
<1> QED BY <1>1, <1>2, <1>3, <1>4, <1>5, <1>6 DEF FeedLog

\* Unless the main thread cuts the feed off, no step upsets its log.
LEMMA LogSteps ==
  ASSUME FeedLog, LinkInv, IngressTypeOK, [FeedNext]_feedVars, ~cutOff'
  PROVE  FeedLog'
<1>1. CASE UNCHANGED feedVars
  BY <1>1, LogKept DEF feedVars, connection, ingressVars
<1>2. CASE OnFrontConnected \/ OnRspUserLogin \/ OnRspSubMarketData
  BY <1>2, LogAsked
<1>3. CASE OnRtnDepthMarketData
  BY <1>3, LogNumbered DEF OnRtnDepthMarketData, Free, connection
<1>4. CASE OnFrontDisconnected
  BY <1>4, LogNumbered, LogKept DEF OnFrontDisconnected, ingressVars
<1>5. CASE PublishEvent
  BY <1>5, LogPublished DEF PublishEvent, connection
<1>6. CASE HangUp
  <2>1. /\ hangingUp /\ pending = NoEvent /\ accepting' = FALSE
        /\ UNCHANGED <<numbered, pending, ticks, logins>>
    BY <1>6 DEF HangUp, SetAccepting
  <2>2. EndsNull
    BY <2>1 DEF FeedLog
  <2> QED BY <2>1, <2>2, LogClosed
<1>7. CASE /\ SeeRunning \/ SeeFailed \/ KeepCandidate \/ DropCandidate \/ GiveUp
           /\ UNCHANGED <<ingressVars, connection, workers, logins, cutOff>>
  BY <1>7, LogKept DEF ingressVars, connection
<1>8. CASE StopEngine
  BY <1>8 DEF StopEngine
<1>9. CASE CloseFeed
  <2>1. /\ market = "Failed" /\ accepting' = FALSE
        /\ UNCHANGED <<numbered, pending, ticks, logins, connection>>
    BY <1>9 DEF CloseFeed, SetAccepting
  <2>2. ~accepting /\ pending = NoEvent /\ EndsNull
    BY <2>1 DEF FeedLog
  <2> QED BY <2>1, <2>2, LogClosed
<1>10. CASE Release
  BY <1>10, LogKept DEF Release, ingressVars, FeedLog
<1>11. CASE CreateCandidate
  BY <1>11, LogKept DEF CreateCandidate, ingressVars, FeedLog, LinkInv
<1>12. CASE \E a \in Accounts : WorkerStep(a)
  <2>1. /\ UNCHANGED <<connection, logins>>
        /\ UNCHANGED <<accepting, numbered, pending, ticks>>
    BY <1>12 DEF WorkerStep, Discard, OnMarket, Take
  <2> QED BY <2>1, LogKept DEF connection
<1> QED
  BY <1>1, <1>2, <1>3, <1>4, <1>5, <1>6, <1>7, <1>8, <1>9, <1>10, <1>11, <1>12
  DEF FeedNext, ApiStep, FailoverStep

-----------------------------------------------------------------------------
(* What a strategy makes of the events it is shown *)

\* A strategy without its baseline is one.
LEMMA Cleared ==
  ASSUME NEW s \in Strategy
  PROVE  /\ ClearBaseline(s) \in Strategy
         /\ ~ClearBaseline(s).baseline /\ ClearBaseline(s).below = 0
         /\ \A field \in {"last", "since", "previous", "emitted", "faulted"} :
              ClearBaseline(s)[field] = s[field]
<1>1. 0 \in 0 .. RetriggerBelowCount
  BY StrategyAssumption
<1> QED BY <1>1 DEF ClearBaseline, Strategy

\* A usable price: what becomes of each part of the strategy
LEMMA AfterPrice ==
  ASSUME NEW s \in Strategy, NEW price \in Prices
  PROVE  LET since == IF s.emitted > 0 THEN UpTo(CooldownMarketEvents, s.since + 1)
                      ELSE s.since
             below == IF price = "Below"
                      THEN UpTo(RetriggerBelowCount, s.below + 1)
                      ELSE IF Crosses(s, price) THEN s.below ELSE 0
             asks == Crosses(s, price) /\ s.emitted < MaxSignalsPerRun
             signal == asks /\ Enough(s, below, since) /\ price # "Top"
             after == OnPrice(s, price)
         IN /\ after.signal = signal
            /\ after.state \in Strategy
            /\ after.state.last = s.last /\ after.state.faulted = s.faulted
            /\ after.state.since = IF signal THEN 0 ELSE since
            /\ after.state.below = IF asks THEN 0 ELSE below
            /\ after.state.previous = price /\ after.state.baseline = TRUE
            /\ after.state.emitted = IF signal THEN s.emitted + 1 ELSE s.emitted
<1> DEFINE since == IF s.emitted > 0 THEN UpTo(CooldownMarketEvents, s.since + 1)
                    ELSE s.since
           below == IF price = "Below" THEN UpTo(RetriggerBelowCount, s.below + 1)
                    ELSE IF Crosses(s, price) THEN s.below ELSE 0
           asks == Crosses(s, price) /\ s.emitted < MaxSignalsPerRun
           signal == asks /\ Enough(s, below, since) /\ price # "Top"
           since1 == IF signal THEN 0 ELSE since
           below1 == IF asks THEN 0 ELSE below
           emitted1 == IF signal THEN s.emitted + 1 ELSE s.emitted
           after == OnPrice(s, price)
<1>1. /\ s.below \in 0 .. RetriggerBelowCount /\ s.since \in 0 .. CooldownMarketEvents
      /\ s.emitted \in 0 .. MaxSignalsPerRun
  BY DEF Strategy
<1>2. since1 \in 0 .. CooldownMarketEvents /\ below1 \in 0 .. RetriggerBelowCount
  BY <1>1, StrategyAssumption DEF UpTo
<1>3. emitted1 \in 0 .. MaxSignalsPerRun
  BY <1>1, StrategyAssumption
<1>4. after = [state |-> [s EXCEPT !.since = since1, !.below = below1,
                                   !.previous = price, !.baseline = TRUE,
                                   !.emitted = emitted1],
               signal |-> signal]
  BY DEF OnPrice
<1>5. signal \in BOOLEAN
  OBVIOUS
<1> HIDE DEF since1, below1, emitted1, after, signal
<1>6. /\ after.state \in Strategy
      /\ after.state.last = s.last /\ after.state.faulted = s.faulted
      /\ after.state.since = since1 /\ after.state.below = below1
      /\ after.state.previous = price /\ after.state.baseline = TRUE
      /\ after.state.emitted = emitted1
  BY <1>2, <1>3, <1>4 DEF Strategy
<1>7. after.signal = signal
  BY <1>4
<1> QED BY <1>6, <1>7 DEF since1, below1, emitted1, signal, after

\* on_market: only a gap makes a fault, an event that is not usable leaves no
\* baseline, and a signal needs one from the event just before.
LEMMA Decision ==
  ASSUME NEW s \in Strategy, NEW seq \in Nat \ {0}, NEW price,
         NEW usable \in BOOLEAN, usable => price \in Prices
  PROVE  LET decision == Decide(s, seq, price, usable) IN
         /\ decision.state \in Strategy
         /\ decision.state.faulted => s.faulted \/ (s.last > 0 /\ seq # s.last + 1)
         /\ decision.state.last =
              IF decision.state.faulted THEN s.last ELSE seq
         /\ decision.state.baseline => (~decision.state.faulted /\ usable) \/ s.faulted
         /\ s.faulted => decision.state = s
         /\ decision.signal => /\ s.baseline /\ ~s.faulted
                               /\ s.last > 0 => seq = s.last + 1
<1> DEFINE decision == Decide(s, seq, price, usable)
<1>1. CASE s.faulted
  <2>1. decision = [state |-> s, signal |-> FALSE]
    BY <1>1 DEF Decide
  <2> QED BY <1>1, <2>1
<1>2. CASE ~s.faulted /\ s.last > 0 /\ seq # s.last + 1
  <2>1. decision = [state |-> [ClearBaseline(s) EXCEPT !.faulted = TRUE],
                    signal |-> FALSE]
    BY <1>2 DEF Decide
  <2> DEFINE c == ClearBaseline(s)
  <2>2. c \in Strategy /\ c.last = s.last /\ ~c.baseline
    BY Cleared
  <2> HIDE DEF c
  <2>3. decision.state = [c EXCEPT !.faulted = TRUE]
    BY <2>1 DEF c
  <2>4. /\ decision.state \in Strategy /\ decision.state.last = c.last
        /\ decision.state.faulted = TRUE /\ decision.state.baseline = c.baseline
    BY <2>2, <2>3 DEF Strategy
  <2> QED BY <1>2, <2>1, <2>2, <2>4
<1>3. CASE ~s.faulted /\ ~(s.last > 0 /\ seq # s.last + 1) /\ ~usable
  <2>1. decision = [state |-> [Unusable(s) EXCEPT !.last = seq], signal |-> FALSE]
    BY <1>3 DEF Decide
  <2> DEFINE c == ClearBaseline(s)
  <2>2. c \in Strategy /\ c.faulted = s.faulted /\ ~c.baseline
    BY Cleared
  <2> HIDE DEF c
  <2>3. /\ decision.state \in Strategy /\ decision.state.last = seq
        /\ decision.state.faulted = c.faulted
        /\ decision.state.baseline = c.baseline
    BY <2>1, <2>2 DEF Strategy, Unusable, c
  <2> QED BY <1>3, <2>1, <2>2, <2>3
<1>4. CASE ~s.faulted /\ ~(s.last > 0 /\ seq # s.last + 1) /\ usable
  <2> DEFINE t == [s EXCEPT !.last = seq]
  <2>1. decision = OnPrice(t, price)
    BY <1>4 DEF Decide
  <2>2. t \in Strategy /\ t.last = seq /\ ~t.faulted /\ t.baseline = s.baseline
    BY <1>4 DEF Strategy
  <2> HIDE DEF t
  <2>3. LET after == OnPrice(t, price) IN
        /\ after.state \in Strategy
        /\ after.state.last = t.last /\ after.state.faulted = t.faulted
        /\ after.signal => t.baseline
    BY <1>4, <2>2, AfterPrice DEF Crosses
  <2> QED BY <1>4, <2>1, <2>2, <2>3
<1> QED BY <1>1, <1>2, <1>3, <1>4

-----------------------------------------------------------------------------
(* What a strategy has been shown *)

\* Types of what a worker keeps
WorkerTypes ==
  /\ strategy \in [Accounts -> Strategy]
  /\ signals \in [Accounts -> Seq(Nat)]

\* A strategy that has been shown every event is at the last one taken; its
\* baseline is the last event it saw, which was valid; and it has asked for no
\* entry at the first event of a subscription, be it one to come.
Shown(a) ==
  LET s == strategy[a] IN
  /\ s.faulted => a \in discarded
  /\ s.last > 0 /\ a \notin discarded => s.last = taken[a]
  /\ s.baseline => /\ ~s.faulted /\ s.last \in 1 .. Len(ticks)
                   /\ ticks[s.last].kind # "Null"
  /\ \A i \in 1 .. Len(signals[a]) : /\ signals[a][i] \in 1 .. Len(ticks)
                                     /\ signals[a][i] \notin logins

\* The feed as a whole, unless the main thread has cut it off
FeedInv ==
  /\ IngressInv /\ KindsKnown /\ LinkInv /\ WorkerTypes
  /\ ~cutOff => FeedLog /\ \A a \in Accounts : Shown(a)

\* At the start nothing has been shown.
LEMMA FeedInvInit == FeedInit => FeedInv
<1> SUFFICES ASSUME FeedInit PROVE FeedInv
  OBVIOUS
<1>1. IngressInv /\ KindsKnown
  BY FeedInitInv
<1>2. LinkInv
  BY DEF FeedInit, LinkInv
<1>3. NewStrategy \in Strategy
  BY StrategyAssumption DEF NewStrategy, Strategy, Prices
<1>4. WorkerTypes
  BY <1>3 DEF FeedInit, WorkerTypes
<1>5. /\ ticks = <<>> /\ Len(ticks) = 0 /\ numbered = 0 /\ pending = NoEvent
      /\ accepting = FALSE /\ logins = {}
  BY DEF FeedInit, IngressInit
<1>6. FeedLog
  BY <1>5 DEF FeedLog, EndsNull
<1>7. ASSUME NEW a \in Accounts PROVE Shown(a)
  BY DEF FeedInit, Shown, NewStrategy
<1> QED BY <1>1, <1>2, <1>4, <1>6, <1>7 DEF FeedInv

\* What is published grows, and only the next number becomes a first event.
LEMMA TicksGrow ==
  ASSUME IngressTypeOK, FeedLog, [FeedNext]_feedVars
  PROVE  /\ Len(ticks) <= Len(ticks') /\ Len(ticks) \in Nat /\ Len(ticks') \in Nat
         /\ \A i \in 1 .. Len(ticks) : ticks'[i] = ticks[i]
         /\ \A l \in logins' \ logins : l > Len(ticks)
<1>1. ticks \in Seq(Event) /\ Len(ticks) \in Nat
  BY DEF IngressTypeOK
<1>2. CASE PublishEvent
  <2>1. logins' = logins /\ ticks' \in {ticks, Append(ticks, pending)}
    BY <1>2 DEF PublishEvent, Publish
  <2>2. pending \in Event
    BY <1>2 DEF PublishEvent, Publish, IngressTypeOK
  <2> QED BY <1>1, <2>1, <2>2
<1>3. CASE OnRspSubMarketData
  <2>1. ticks' = ticks /\ (logins' = logins \/ logins' = logins \cup {numbered + 1})
    BY <1>3 DEF OnRspSubMarketData, FailConnection, SetAccepting
  <2>2. numbered = Len(ticks)
    BY <1>1, <1>3 DEF OnRspSubMarketData, Free, FeedLog
  <2> QED BY <1>1, <2>1, <2>2
<1>4. CASE ~PublishEvent /\ ~OnRspSubMarketData
  <2>1. ticks' = ticks /\ logins' = logins
    <3>1. CASE UNCHANGED feedVars
      BY <3>1 DEF feedVars, ingressVars
    <3>2. CASE ApiStep
      BY <1>4, <3>2 DEF ApiStep, OnFrontConnected, OnRspUserLogin, Ask,
         FailConnection, OnRtnDepthMarketData, OnFrontDisconnected, HangUp, Number,
         SetAccepting, ingressVars
    <3>3. CASE FailoverStep \/ StopEngine
      BY <3>3 DEF FailoverStep, StopEngine, CloseFeed, Release, CreateCandidate,
         SetAccepting, ingressVars
    <3>4. CASE \E a \in Accounts : WorkerStep(a)
      BY <3>4 DEF WorkerStep, Discard, OnMarket, Take
    <3> QED BY <3>1, <3>2, <3>3, <3>4 DEF FeedNext
  <2> QED BY <1>1, <2>1
<1> QED BY <1>2, <1>3, <1>4

\* Steps that do not concern the account
LEMMA ShownKept ==
  ASSUME WorkerTypes, IngressTypeOK, FeedLog, [FeedNext]_feedVars,
         NEW a \in Accounts, Shown(a),
         strategy'[a] = strategy[a], signals'[a] = signals[a],
         taken'[a] = taken[a] \/ a \in discarded' \/ strategy[a].last = 0,
         discarded \subseteq discarded'
  PROVE  Shown(a)'
<1> DEFINE s == strategy[a]
<1>1. /\ Len(ticks) <= Len(ticks') /\ Len(ticks) \in Nat /\ Len(ticks') \in Nat
      /\ \A i \in 1 .. Len(ticks) : ticks'[i] = ticks[i]
      /\ \A l \in logins' \ logins : l > Len(ticks)
  BY TicksGrow
<1>2. s.last \in Nat /\ signals[a] \in Seq(Nat)
  BY DEF WorkerTypes, Strategy
<1>3. s.faulted => a \in discarded'
  BY DEF Shown
<1>4. s.last > 0 /\ a \notin discarded' => s.last = taken'[a]
  BY <1>2 DEF Shown
<1>5. s.baseline => /\ ~s.faulted /\ s.last \in 1 .. Len(ticks')
                    /\ ticks'[s.last].kind # "Null"
  BY <1>1, <1>2 DEF Shown
<1>6. ASSUME NEW i \in 1 .. Len(signals[a])
      PROVE  signals[a][i] \in 1 .. Len(ticks') /\ signals[a][i] \notin logins'
  <2>1. signals[a][i] \in 1 .. Len(ticks) /\ signals[a][i] \notin logins
    BY DEF Shown
  <2> QED BY <1>1, <2>1
<1> QED BY <1>3, <1>4, <1>5, <1>6 DEF Shown

\* The event a worker takes is the next one.
LEMMA NextEvent ==
  ASSUME IngressInv, NEW a \in Accounts, channels[a] # <<>>
  PROVE  LET event == Head(channels[a]) IN
         /\ taken[a] + 1 \in 1 .. Len(ticks) /\ event = ticks[taken[a] + 1]
         /\ event.seq \in Nat \ {0} /\ event.kind \in Prices \cup {"Null"}
<1>1. /\ channels[a] \in Seq(Event) /\ ticks \in Seq(Event) /\ taken[a] \in Nat
      /\ Len(channels[a]) \in Nat \ {0} /\ HoldsNext(a)
  BY DEF IngressInv, IngressTypeOK
<1>2. Head(channels[a]) = channels[a][1] /\ channels[a][1] \in Event
  BY <1>1
<1>3. channels[a][1] = ticks[taken[a] + 1] /\ taken[a] + 1 <= Len(ticks)
  BY <1>1 DEF HoldsNext
<1>4. Kinds \subseteq Prices \cup {"Null"}
  BY FeedAssumption
<1> QED BY <1>1, <1>2, <1>3, <1>4, IngressAssumption DEF Event

\* The worker shows its strategy the event, and records what it asks for.
LEMMA MarketShown ==
  ASSUME IngressInv, WorkerTypes, NEW a \in Accounts, OnMarket(a)
  PROVE  \E usable \in BOOLEAN :
           LET event == Head(channels[a])
               decision == Decide(strategy[a], event.seq, event.kind, usable)
           IN /\ usable => event.kind \in Prices
              /\ channels[a] # <<>> /\ strategy[a] \in Strategy
              /\ signals[a] \in Seq(Nat)
              /\ strategy' = [strategy EXCEPT ![a] = decision.state]
              /\ signals' = IF decision.signal
                            THEN [signals EXCEPT ![a] = Append(signals[a], event.seq)]
                            ELSE signals
<1> DEFINE event == Head(channels[a])
<1>1. PICK stale \in left.stale :
        LET usable == event.kind # "Null" /\ ~stale
            decision == Decide(strategy[a], event.seq, event.kind, usable)
        IN /\ strategy' = [strategy EXCEPT ![a] = decision.state]
           /\ signals' = IF decision.signal
                         THEN [signals EXCEPT ![a] = Append(signals[a], event.seq)]
                         ELSE signals
  BY DEF OnMarket
<1>2. channels[a] # <<>>
  BY DEF OnMarket, Take
<1>3. event.kind \in Prices \cup {"Null"}
  BY <1>2, NextEvent
<1>4. strategy[a] \in Strategy /\ signals[a] \in Seq(Nat)
  BY DEF WorkerTypes
<1> DEFINE usable == event.kind # "Null" /\ ~stale
<1>5. usable \in BOOLEAN /\ (usable => event.kind \in Prices)
  BY <1>3
<1> WITNESS usable \in BOOLEAN
<1> QED BY <1>1, <1>2, <1>4, <1>5

\* A signal is for an event right behind a valid one, hence not for the first
\* one of a subscription.
LEMMA ShownNext ==
  ASSUME IngressInv, WorkerTypes, FeedLog, NEW a \in Accounts, Shown(a),
         OnMarket(a), [FeedNext]_feedVars
  PROVE  Shown(a)'
<1> DEFINE event == Head(channels[a])
           s == strategy[a]
<1>1. PICK usable \in BOOLEAN :
        LET decision == Decide(s, event.seq, event.kind, usable)
        IN /\ usable => event.kind \in Prices
           /\ channels[a] # <<>> /\ s \in Strategy
           /\ signals[a] \in Seq(Nat)
           /\ strategy' = [strategy EXCEPT ![a] = decision.state]
           /\ signals' = IF decision.signal
                         THEN [signals EXCEPT ![a] = Append(signals[a], event.seq)]
                         ELSE signals
  BY MarketShown
<1> DEFINE decision == Decide(s, event.seq, event.kind, usable)
           t == decision.state
<1>2. /\ taken[a] + 1 \in 1 .. Len(ticks) /\ event = ticks[taken[a] + 1]
      /\ event.seq \in Nat \ {0} /\ event.kind \in Prices \cup {"Null"}
  BY <1>1, NextEvent
<1>3. event.seq = taken[a] + 1
  BY <1>2 DEF FeedLog
<1>4. /\ t \in Strategy
      /\ t.faulted => s.faulted \/ (s.last > 0 /\ event.seq # s.last + 1)
      /\ t.last = IF t.faulted THEN s.last ELSE event.seq
      /\ t.baseline => (~t.faulted /\ usable) \/ s.faulted
      /\ s.faulted => t = s
      /\ decision.signal => /\ s.baseline /\ ~s.faulted
                            /\ s.last > 0 => event.seq = s.last + 1
  BY <1>1, <1>2, Decision
<1>5. /\ taken' = [taken EXCEPT ![a] = taken[a] + 1] /\ ticks' = ticks
      /\ logins' = logins /\ discarded' = discarded
      /\ taken'[a] = taken[a] + 1 /\ taken[a] \in Nat
  BY DEF OnMarket, Take, IngressInv, IngressTypeOK
<1>6. /\ strategy'[a] = t
      /\ signals'[a] = IF decision.signal THEN Append(signals[a], event.seq)
                       ELSE signals[a]
  BY <1>1 DEF WorkerTypes
<1> HIDE DEF decision, t, event
<1>7. t.faulted => a \in discarded'
  BY <1>3, <1>4, <1>5 DEF Shown
<1>8. t.last > 0 /\ a \notin discarded' => t.last = taken'[a]
  BY <1>3, <1>4, <1>5 DEF Shown
<1>9. t.baseline => /\ ~t.faulted /\ t.last \in 1 .. Len(ticks')
                    /\ ticks'[t.last].kind # "Null"
  <2>1. s.faulted => ~s.baseline
    BY DEF Shown
  <2>2. usable => event.kind # "Null"
    BY <1>1 DEF Prices, event
  <2> QED BY <1>2, <1>3, <1>4, <1>5, <2>1, <2>2
<1>10. ASSUME NEW i \in 1 .. Len(signals'[a])
       PROVE  /\ signals'[a][i] \in 1 .. Len(ticks')
              /\ signals'[a][i] \notin logins'
  <2>1. CASE ~decision.signal \/ i # Len(signals[a]) + 1
    <3>1. i \in 1 .. Len(signals[a]) /\ signals'[a][i] = signals[a][i]
      <4>1. CASE ~decision.signal
        BY <1>6, <4>1
      <4>2. CASE decision.signal
        <5>1. signals'[a] = Append(signals[a], event.seq) /\ signals[a] \in Seq(Nat)
          BY <1>1, <1>6, <4>2
        <5> QED BY <1>2, <2>1, <4>2, <5>1
      <4> QED BY <4>1, <4>2
    <3> QED BY <1>5, <3>1 DEF Shown
  <2>2. CASE decision.signal /\ i = Len(signals[a]) + 1
    <3>1. signals'[a][i] = event.seq
      BY <1>1, <1>6, <2>2
    <3>2. /\ s.last \in 1 .. Len(ticks) /\ ticks[s.last].kind # "Null"
          /\ event.seq = s.last + 1
      BY <1>4, <2>2 DEF Shown
    <3>3. event.seq \notin logins
      <4>1. event.seq > 1 /\ event.seq - 1 = s.last
        BY <3>2
      <4> QED BY <3>2, <4>1 DEF FeedLog
    <3> QED BY <1>2, <1>3, <1>5, <3>1, <3>3
  <2> QED BY <2>1, <2>2
<1> QED BY <1>5, <1>6, <1>7, <1>8, <1>9, <1>10 DEF Shown

\* The worker keeps a strategy and a list of numbers.
LEMMA WorkerTypesSteps ==
  ASSUME IngressInv, WorkerTypes, [FeedNext]_feedVars
  PROVE  WorkerTypes'
<1>1. CASE UNCHANGED <<strategy, signals>>
  BY <1>1 DEF WorkerTypes
<1>2. ASSUME NEW a \in Accounts, OnMarket(a) PROVE WorkerTypes'
  <2>1. PICK usable \in BOOLEAN :
          LET event == Head(channels[a])
              decision == Decide(strategy[a], event.seq, event.kind, usable)
          IN /\ usable => event.kind \in Prices
             /\ channels[a] # <<>> /\ strategy[a] \in Strategy
             /\ signals[a] \in Seq(Nat)
             /\ strategy' = [strategy EXCEPT ![a] = decision.state]
             /\ signals' = IF decision.signal
                           THEN [signals EXCEPT ![a] = Append(signals[a], event.seq)]
                           ELSE signals
    BY <1>2, MarketShown
  <2>2. Head(channels[a]).seq \in Nat \ {0}
    BY <2>1, NextEvent
  <2> DEFINE decision == Decide(strategy[a], Head(channels[a]).seq,
                                Head(channels[a]).kind, usable)
  <2>3. decision.state \in Strategy
    BY <2>1, <2>2, Decision
  <2> HIDE DEF decision
  <2>4. strategy' = [strategy EXCEPT ![a] = decision.state]
    BY <2>1 DEF decision
  <2>5. signals' \in {signals,
                      [signals EXCEPT ![a] = Append(signals[a], Head(channels[a]).seq)]}
    BY <2>1
  <2>6. Append(signals[a], Head(channels[a]).seq) \in Seq(Nat)
    BY <2>1, <2>2
  <2> QED BY <2>3, <2>4, <2>5, <2>6 DEF WorkerTypes
<1>3. CASE UNCHANGED feedVars
  BY <1>1, <1>3 DEF feedVars, workers
<1>4. CASE ApiStep
  BY <1>1, <1>4 DEF ApiStep, OnFrontConnected, OnRspUserLogin, OnRspSubMarketData,
     OnRtnDepthMarketData, PublishEvent, OnFrontDisconnected, HangUp, workers
<1>5. CASE FailoverStep \/ StopEngine
  BY <1>1, <1>5 DEF FailoverStep, StopEngine, CloseFeed, Release, CreateCandidate,
     workers
<1>6. ASSUME NEW a \in Accounts, Discard(a) PROVE WorkerTypes'
  BY <1>1, <1>6 DEF Discard
<1> QED BY <1>2, <1>3, <1>4, <1>5, <1>6 DEF FeedNext, WorkerStep

\* No step upsets what the strategies have been shown.
LEMMA ShownSteps ==
  ASSUME IngressInv, WorkerTypes, FeedLog, [FeedNext]_feedVars,
         \A a \in Accounts : Shown(a)
  PROVE  \A a \in Accounts : Shown(a)'
<1> SUFFICES ASSUME NEW a \in Accounts PROVE Shown(a)'
  OBVIOUS
<1>0. IngressTypeOK /\ Shown(a)
  BY DEF IngressInv
<1>1. CASE UNCHANGED <<strategy, signals, discarded, taken>>
  BY <1>0, <1>1, ShownKept
<1>2. ASSUME NEW b \in Accounts, OnMarket(b) PROVE Shown(a)'
  <2>1. CASE a = b
    BY <1>0, <1>2, <2>1, ShownNext
  <2>2. CASE a # b
    <3>1. /\ strategy'[a] = strategy[a] /\ signals'[a] = signals[a]
      BY <1>2, <2>2, MarketShown DEF WorkerTypes
    <3>2. taken'[a] = taken[a] /\ discarded' = discarded
      BY <1>0, <1>2, <2>2 DEF OnMarket, Take, IngressTypeOK
    <3> QED BY <1>0, <3>1, <3>2, ShownKept
  <2> QED BY <2>1, <2>2
<1>3. ASSUME NEW b \in Accounts, Discard(b) PROVE Shown(a)'
  <2>1. /\ UNCHANGED <<strategy, signals>> /\ discarded \subseteq discarded'
        /\ a # b => taken'[a] = taken[a]
        /\ strategy[b].last > 0 => b \in discarded'
    BY <1>0, <1>3 DEF Discard, Take, IngressTypeOK
  <2>2. strategy[b].last \in Nat
    BY DEF WorkerTypes, Strategy
  <2> QED BY <1>0, <2>1, <2>2, ShownKept
<1>4. CASE UNCHANGED feedVars
  BY <1>1, <1>4 DEF feedVars, workers, ingressVars
<1>5. CASE ApiStep
  BY <1>1, <1>5 DEF ApiStep, OnFrontConnected, OnRspUserLogin, OnRspSubMarketData,
     Ask, FailConnection, SetAccepting, Number, Publish, OnRtnDepthMarketData,
     PublishEvent, OnFrontDisconnected, HangUp, workers, ingressVars
<1>6. CASE FailoverStep \/ StopEngine
  BY <1>1, <1>6 DEF FailoverStep, StopEngine, CloseFeed, Release, CreateCandidate,
     SetAccepting, workers, ingressVars
<1> QED BY <1>2, <1>3, <1>4, <1>5, <1>6 DEF FeedNext, WorkerStep

\* Once the feed has been cut off it stays so.
LEMMA CutOffStays ==
  ASSUME [FeedNext]_feedVars, ~cutOff'
  PROVE  ~cutOff
BY DEF feedVars, FeedNext, ApiStep, OnFrontConnected, OnRspUserLogin,
   OnRspSubMarketData, OnRtnDepthMarketData, PublishEvent, OnFrontDisconnected,
   HangUp, FailoverStep, StopEngine, CloseFeed, Release, CreateCandidate,
   WorkerStep, Discard, OnMarket

\* The invariant of the feed is inductive.
LEMMA FeedInvSteps == FeedInv /\ [FeedNext]_feedVars => FeedInv'
<1> SUFFICES ASSUME FeedInv, [FeedNext]_feedVars PROVE FeedInv'
  OBVIOUS
<1>1. IngressInv' /\ KindsKnown'
  BY FeedStepsIngress, KindsStay, IngressNextInv DEF IngressStep, FeedInv
<1>2. LinkInv' /\ WorkerTypes'
  BY LinkSteps, WorkerTypesSteps DEF FeedInv
<1>3. ASSUME ~cutOff' PROVE FeedLog' /\ \A a \in Accounts : Shown(a)'
  <2>1. ~cutOff
    BY <1>3, CutOffStays DEF FeedInv
  <2>2. FeedLog /\ IngressTypeOK /\ \A a \in Accounts : Shown(a)
    BY <2>1 DEF FeedInv, IngressInv
  <2> QED BY <1>3, <2>2, LogSteps, ShownSteps DEF FeedInv
<1> QED BY <1>1, <1>2, <1>3 DEF FeedInv

\* For any number of accounts and of disconnections: as long as the main thread
\* cuts no running feed off, a strategy is out for good only because its own
\* worker threw an event away, however often the feed was lost and replaced.
THEOREM FeedMakesNoGap == FeedSpec => []FaultsOnlyAfterDiscard
<1>1. FeedInv => FaultsOnlyAfterDiscard
  BY DEF FeedInv, Shown, FaultsOnlyAfterDiscard
<1> QED BY <1>1, FeedInvInit, FeedInvSteps, PTL DEF FeedSpec

\* ... and no strategy takes the prices before and after a disconnection for a
\* crossing (engine.cpp:379).
THEOREM NoSignalAcross == FeedSpec => []SignalsWithinSubscription
<1>1. FeedInv => SignalsWithinSubscription
  BY DEF FeedInv, Shown, SignalsWithinSubscription
<1> QED BY <1>1, FeedInvInit, FeedInvSteps, PTL DEF FeedSpec

-----------------------------------------------------------------------------
(* The signals among the prices a strategy has seen *)

\* What holds of 0, and of the successor of every number it holds of
LEMMA AllNumbers ==
  ASSUME NEW G, 0 \in G, \A n \in Nat : n \in G => n + 1 \in G
  PROVE  \A n \in Nat : n \in G
<1> DEFINE bad == {n \in Nat : n \notin G}
<1> SUFFICES ASSUME bad # {} PROVE FALSE
  OBVIOUS
<1>1. PICK n \in bad : \A m \in bad : <<m, n>> \notin OpToRel(<, Nat)
  <2>1. bad \subseteq Nat
    OBVIOUS
  <2> HIDE DEF bad
  <2> QED BY <2>1, NatLessThanWellFounded, WFMin
<1>2. n \in Nat /\ n \notin G /\ n # 0
  BY <1>1
<1>3. n - 1 \in Nat /\ (n - 1) + 1 = n
  BY <1>2
<1>4. <<n - 1, n>> \in OpToRel(<, Nat)
  BY <1>2, <1>3 DEF OpToRel
<1>5. n - 1 \in G
  BY <1>1, <1>3, <1>4
<1> QED BY <1>2, <1>3, <1>5

\* What a strategy may have seen: prices, and events it could not use
Sights == Prices \cup {"Bad"}

\* One more event
LEMMA OneMore ==
  ASSUME NEW S, NEW seq \in Seq(S), NEW x \in S
  PROVE  LET longer == Append(seq, x) IN
         /\ longer \in Seq(S) /\ longer # <<>>
         /\ Len(seq) \in Nat /\ Len(longer) = Len(seq) + 1
         /\ longer[Len(seq) + 1] = x
         /\ \A i \in 1 .. Len(seq) : longer[i] = seq[i]
OBVIOUS

\* What is seen later does not change the row up to a position,
LEMMA RowStays ==
  ASSUME NEW prices \in Seq(Sights), NEW x \in Sights, NEW i \in 0 .. Len(prices)
  PROVE  /\ RowBelow(Append(prices, x), i) = RowBelow(prices, i)
         /\ \A n \in 0 .. i : BelowInRow(Append(prices, x), i, n)
                                <=> BelowInRow(prices, i, n)
<1> DEFINE longer == Append(prices, x)
<1>1. \A j \in 1 .. Len(prices) : longer[j] = prices[j]
  BY OneMore
<1>2. Len(prices) \in Nat
  BY OneMore
<1> HIDE DEF longer
<1>3. ASSUME NEW n \in 0 .. i
      PROVE  BelowInRow(longer, i, n) <=> BelowInRow(prices, i, n)
  <2>1. \A j \in (i - n + 1) .. i : longer[j] = prices[j]
    BY <1>1, <1>2
  <2>2. n < i => longer[i - n] = prices[i - n]
    BY <1>1, <1>2
  <2> QED BY <2>1, <2>2 DEF BelowInRow
<1>4. (CHOOSE n \in 0 .. i : BelowInRow(longer, i, n))
        = (CHOOSE n \in 0 .. i : BelowInRow(prices, i, n))
  BY <1>3
<1> QED BY <1>3, <1>4 DEF RowBelow, longer

\* of which there is but one.
LEMMA OneRow ==
  ASSUME NEW prices, NEW i \in Nat, NEW n \in 0 .. i, BelowInRow(prices, i, n)
  PROVE  RowBelow(prices, i) = n
<1>1. ASSUME NEW m \in 0 .. i, BelowInRow(prices, i, m), NEW k \in 0 .. i,
             BelowInRow(prices, i, k)
      PROVE  ~(m < k)
  <2> SUFFICES ASSUME m < k PROVE FALSE
    OBVIOUS
  <2>1. i - m \in (i - k + 1) .. i /\ m < i
    OBVIOUS
  <2> QED BY <1>1, <2>1 DEF BelowInRow
<1>2. \A m \in 0 .. i : BelowInRow(prices, i, m) => m = n
  BY <1>1
<1> QED BY <1>2 DEF RowBelow

\* A price below the threshold makes the row longer, anything else ends it.
LEMMA RowNext ==
  ASSUME NEW prices \in Seq(Sights), NEW x \in Sights,
         NEW n \in 0 .. Len(prices), BelowInRow(prices, Len(prices), n)
  PROVE  LET longer == Append(prices, x)
             m == IF x = "Below" THEN n + 1 ELSE 0
         IN /\ m \in 0 .. Len(longer) /\ BelowInRow(longer, Len(longer), m)
            /\ RowBelow(prices, Len(prices)) = n
            /\ RowBelow(longer, Len(longer)) = m
<1> DEFINE longer == Append(prices, x)
           m == IF x = "Below" THEN n + 1 ELSE 0
           l == Len(prices)
<1>1. /\ l \in Nat /\ Len(longer) = l + 1 /\ longer[l + 1] = x
      /\ \A j \in 1 .. l : longer[j] = prices[j]
  BY OneMore
<1>2. BelowInRow(longer, l, n)
  BY RowStays, <1>1
<1> HIDE DEF longer
<1>3. m \in 0 .. l + 1
  BY <1>1
<1>4. BelowInRow(longer, l + 1, m)
  <2>1. CASE x = "Below"
    <3>1. \A j \in (l - n + 1) .. l : longer[j] = "Below"
      BY <1>2 DEF BelowInRow
    <3>2. \A j \in ((l + 1) - m + 1) .. (l + 1) : longer[j] = "Below"
      BY <1>1, <2>1, <3>1
    <3>3. m < l + 1 => longer[(l + 1) - m] # "Below"
      <4>1. (l + 1) - m = l - n /\ (m < l + 1 => n < l)
        BY <1>1, <2>1
      <4> QED BY <1>2, <4>1 DEF BelowInRow
    <3> QED BY <3>2, <3>3 DEF BelowInRow
  <2>2. CASE x # "Below"
    BY <1>1, <2>2 DEF BelowInRow
  <2> QED BY <2>1, <2>2
<1>5. RowBelow(longer, l + 1) = m /\ RowBelow(prices, l) = n
  BY <1>1, <1>3, <1>4, OneRow
<1> QED BY <1>1, <1>3, <1>4, <1>5 DEF longer

\* What is seen later does not change what is usable up to a position, and a
\* usable price is one more.
LEMMA UsableNext ==
  ASSUME NEW prices \in Seq(Sights), NEW x \in Sights, NEW i \in 1 .. Len(prices) + 1
  PROVE  LET longer == Append(prices, x) IN
         /\ \A j \in 0 .. Len(prices) :
              UsableBetween(longer, i, j) = UsableBetween(prices, i, j)
         /\ UsableBetween(prices, i, Len(prices)) \in Nat
         /\ UsableBetween(longer, i, Len(longer)) =
              UsableBetween(prices, i, Len(prices)) + (IF x = "Bad" THEN 0 ELSE 1)
<1> DEFINE longer == Append(prices, x)
           l == Len(prices)
           upTo(ps, j) == {k \in i .. j : ps[k] # "Bad"}
<1>1. /\ l \in Nat /\ Len(longer) = l + 1 /\ longer[l + 1] = x
      /\ \A j \in 1 .. l : longer[j] = prices[j]
  BY OneMore
<1> HIDE DEF longer
<1>2. ASSUME NEW j \in 0 .. l
      PROVE  upTo(longer, j) = upTo(prices, j)
  BY <1>1
<1>3. IsFiniteSet(upTo(prices, l))
  <2>1. IsFiniteSet(i .. l) /\ upTo(prices, l) \subseteq i .. l
    BY <1>1, FS_Interval
  <2> QED BY <2>1, FS_Subset
<1>4. l + 1 \notin upTo(prices, l)
  BY <1>1
<1>5. upTo(longer, l + 1) =
        IF x = "Bad" THEN upTo(prices, l) ELSE upTo(prices, l) \cup {l + 1}
  BY <1>1
<1>6. Cardinality(upTo(prices, l)) \in Nat
  BY <1>3, FS_CardinalityType
<1> HIDE DEF upTo
<1>7. Cardinality(upTo(longer, l + 1)) =
        Cardinality(upTo(prices, l)) + (IF x = "Bad" THEN 0 ELSE 1)
  <2>1. CASE x = "Bad"
    BY <1>5, <1>6, <2>1
  <2>2. CASE x # "Bad"
    BY <1>3, <1>4, <1>5, <2>2, FS_AddElement
  <2> QED BY <2>1, <2>2
<1>8. \A j : UsableBetween(prices, i, j) = Cardinality(upTo(prices, j))
             /\ UsableBetween(longer, i, j) = Cardinality(upTo(longer, j))
  BY DEF UsableBetween, upTo
<1> QED BY <1>1, <1>2, <1>6, <1>7, <1>8 DEF longer


\* One step of SignalPositions, the table of all its steps, and what fills it
PositionsStep(prices, f, n) ==
  IF n = 0 THEN <<>>
  ELSE IF SignalDue(prices, f[n - 1], n) THEN Append(f[n - 1], n)
  ELSE f[n - 1]
PositionsTable(prices) ==
  CHOOSE f : f = [n \in 0 .. Len(prices) |-> PositionsStep(prices, f, n)]
Tabulates(prices, f) ==
  f = [n \in 0 .. Len(prices) |-> PositionsStep(prices, f, n)]

LEMMA PositionsFromTable ==
  ASSUME NEW prices
  PROVE  SignalPositions(prices) = PositionsTable(prices)[Len(prices)]
BY DEF SignalPositions, PositionsTable, PositionsStep

\* What fills the table holds positions up to each one, and nothing else does.
LEMMA TableOfPositions ==
  ASSUME NEW prices \in Seq(Sights), NEW f, Tabulates(prices, f)
  PROVE  /\ \A n \in 0 .. Len(prices) : f[n] \in Seq(1 .. n)
         /\ \A g : Tabulates(prices, g) => g = f
<1> DEFINE l == Len(prices)
           G == {n \in Nat : n <= l => f[n] \in Seq(1 .. n)}
<1>1. l \in Nat
  OBVIOUS
<1>2. \A n \in 0 .. l : f[n] = PositionsStep(prices, f, n)
  BY DEF Tabulates
<1>3. 0 \in G
  <2>1. f[0] = <<>>
    BY <1>1, <1>2 DEF PositionsStep
  <2>2. <<>> \in Seq(1 .. 0)
    BY EmptySeq
  <2> QED BY <2>1, <2>2
<1>4. ASSUME NEW n \in Nat, n \in G PROVE n + 1 \in G
  <2> SUFFICES ASSUME n + 1 <= l PROVE f[n + 1] \in Seq(1 .. n + 1)
    OBVIOUS
  <2>1. f[n] \in Seq(1 .. n) /\ n + 1 \in 0 .. l /\ (n + 1) - 1 = n /\ n + 1 # 0
    BY <1>1, <1>4
  <2>2. f[n] \in Seq(1 .. n + 1)
    <3>1. 1 .. n \subseteq 1 .. n + 1
      OBVIOUS
    <3> QED BY <2>1, <3>1
  <2>3. f[n + 1] \in {f[n], Append(f[n], n + 1)}
    BY <1>2, <2>1 DEF PositionsStep
  <2>4. Append(f[n], n + 1) \in Seq(1 .. n + 1)
    <3>1. n + 1 \in 1 .. n + 1
      OBVIOUS
    <3> QED BY <2>2, <3>1, AppendProperties
  <2> QED BY <2>2, <2>3, <2>4
<1>5. \A n \in 0 .. l : f[n] \in Seq(1 .. n)
  <2>1. \A n \in Nat : n \in G
    <3> HIDE DEF G
    <3> QED BY <1>3, <1>4, AllNumbers
  <2> QED BY <1>1, <2>1
<1>6. ASSUME NEW g, Tabulates(prices, g) PROVE g = f
  <2> DEFINE H == {n \in Nat : n <= l => g[n] = f[n]}
  <2>1. \A n \in 0 .. l : g[n] = PositionsStep(prices, g, n)
    BY <1>6 DEF Tabulates
  <2>2. 0 \in H
    BY <1>1, <1>2, <2>1 DEF PositionsStep
  <2>3. ASSUME NEW n \in Nat, n \in H PROVE n + 1 \in H
    <3> SUFFICES ASSUME n + 1 <= l PROVE g[n + 1] = f[n + 1]
      OBVIOUS
    <3>1. g[n] = f[n] /\ n + 1 \in 0 .. l /\ (n + 1) - 1 = n
      BY <1>1, <2>3
    <3> QED BY <1>2, <2>1, <3>1 DEF PositionsStep
  <2>4. \A n \in Nat : n \in H
    <3> HIDE DEF H
    <3> QED BY <2>2, <2>3, AllNumbers
  <2>5. \A n \in 0 .. l : g[n] = f[n]
    BY <1>1, <2>4
  <2>6. /\ f = [n \in 0 .. l |-> f[n]]
        /\ g = [n \in 0 .. l |-> g[n]]
    BY <1>6 DEF Tabulates
  <2> QED BY <2>5, <2>6
<1> QED BY <1>5, <1>6

\* What is seen later does not change whether a signal is due.
LEMMA DueStays ==
  ASSUME NEW prices \in Seq(Sights), NEW x \in Sights, NEW n \in 1 .. Len(prices),
         NEW before \in Seq(1 .. n - 1)
  PROVE  SignalDue(Append(prices, x), before, n) <=> SignalDue(prices, before, n)
<1> DEFINE longer == Append(prices, x)
           last == before[Len(before)]
<1>1. Len(prices) \in Nat /\ \A j \in 1 .. Len(prices) : longer[j] = prices[j]
  BY OneMore
<1>2. RowBelow(longer, n - 1) = RowBelow(prices, n - 1)
  <2>1. n - 1 \in 0 .. Len(prices)
    BY <1>1
  <2> QED BY <2>1, RowStays
<1>3. ASSUME before # <<>>
      PROVE  UsableBetween(longer, last + 1, n) = UsableBetween(prices, last + 1, n)
  <2>1. last \in 1 .. n - 1
    BY <1>3
  <2>2. last + 1 \in 1 .. Len(prices) + 1 /\ n \in 0 .. Len(prices)
    BY <1>1, <2>1
  <2> HIDE DEF last
  <2> QED BY <2>2, UsableNext
<1>4. CrossingAt(longer, n) <=> CrossingAt(prices, n)
  BY <1>1 DEF CrossingAt
<1>5. longer[n] = prices[n]
  BY <1>1
<1> HIDE DEF longer, last
<1>6. before = <<>> \/ UsableBetween(longer, last + 1, n) = UsableBetween(prices, last + 1, n)
  BY <1>3
<1>7. SignalDue(longer, before, n) <=> SignalDue(prices, before, n)
  BY <1>2, <1>4, <1>5, <1>6 DEF SignalDue, last
<1> QED BY <1>7 DEF longer

\* The table of a longer sequence has one more entry.
LEMMA TableNext ==
  ASSUME NEW prices \in Seq(Sights), NEW x \in Sights,
         NEW f, Tabulates(prices, f)
  PROVE  LET longer == Append(prices, x)
             n == Len(prices) + 1
             positions == SignalPositions(prices)
         IN /\ \E g : Tabulates(longer, g)
            /\ positions \in Seq(1 .. Len(prices))
            /\ SignalPositions(longer) =
                 IF SignalDue(longer, positions, n) THEN Append(positions, n)
                 ELSE positions
<1> DEFINE longer == Append(prices, x)
           l == Len(prices)
           top == PositionsStep(longer, f, l + 1)
           g == [n \in 0 .. l + 1 |-> IF n = l + 1 THEN top ELSE f[n]]
<1>1. longer \in Seq(Sights) /\ l \in Nat /\ Len(longer) = l + 1
  BY OneMore
<1>2. /\ \A n \in 0 .. l : f[n] = PositionsStep(prices, f, n)
      /\ \A n \in 0 .. l : f[n] \in Seq(1 .. n)
  BY TableOfPositions DEF Tabulates
<1>3. ASSUME NEW n \in 0 .. l + 1 PROVE g[n] = PositionsStep(longer, g, n)
  <2>1. CASE n = 0
    <3>1. g[n] = f[0] /\ f[0] = <<>>
      BY <1>1, <1>2, <2>1 DEF PositionsStep
    <3> QED BY <2>1, <3>1 DEF PositionsStep
  <2>2. CASE n \in 1 .. l
    <3>1. g[n] = f[n] /\ g[n - 1] = f[n - 1] /\ n - 1 \in 0 .. l
      BY <1>1, <2>2
    <3>2. f[n - 1] \in Seq(1 .. n - 1)
      BY <1>2, <3>1
    <3>3. SignalDue(longer, f[n - 1], n) <=> SignalDue(prices, f[n - 1], n)
      BY <2>2, <3>2, DueStays
    <3>4. f[n] = PositionsStep(prices, f, n)
      BY <1>2, <2>2
    <3> HIDE DEF g, longer
    <3> QED BY <2>2, <3>1, <3>3, <3>4 DEF PositionsStep
  <2>3. CASE n = l + 1
    <3>1. g[n] = top /\ g[n - 1] = f[n - 1] /\ n # 0
      BY <1>1, <2>3
    <3> HIDE DEF g, longer
    <3> QED BY <2>3, <3>1 DEF PositionsStep
  <2> QED BY <1>1, <2>1, <2>2, <2>3
<1>4. Tabulates(longer, g)
  <2>1. g = [n \in 0 .. l + 1 |-> PositionsStep(longer, g, n)]
    <3>1. g = [n \in 0 .. l + 1 |-> g[n]]
      OBVIOUS
    <3> HIDE DEF g, longer
    <3> QED BY <1>3, <3>1
  <2> HIDE DEF g, longer
  <2> QED BY <1>1, <2>1 DEF Tabulates
<1>5. PositionsTable(prices) = f
  <2>1. Tabulates(prices, PositionsTable(prices))
    BY DEF Tabulates, PositionsTable
  <2> QED BY <2>1, TableOfPositions
<1>6. PositionsTable(longer) = g
  <2> HIDE DEF g, longer
  <2>1. Tabulates(longer, PositionsTable(longer))
    BY <1>4 DEF Tabulates, PositionsTable
  <2> QED BY <1>1, <1>4, <2>1, TableOfPositions
<1>7. SignalPositions(prices) = f[l]
  BY <1>5, PositionsFromTable
<1>8. SignalPositions(longer) = top
  <2>1. SignalPositions(longer) = PositionsTable(longer)[l + 1]
    BY <1>1, PositionsFromTable
  <2>2. g[l + 1] = top
    BY <1>1
  <2> QED BY <1>6, <2>1, <2>2
<1>9. top = IF SignalDue(longer, f[l], l + 1) THEN Append(f[l], l + 1) ELSE f[l]
  <2>1. (l + 1) - 1 = l /\ l + 1 # 0
    BY <1>1
  <2> HIDE DEF longer
  <2> QED BY <2>1 DEF PositionsStep
<1>10. f[l] \in Seq(1 .. l)
  BY <1>1, <1>2
<1>11. \E h : Tabulates(longer, h)
  <2> HIDE DEF g, longer
  <2> QED BY <1>4
<1> QED BY <1>7, <1>8, <1>9, <1>10, <1>11

\* Before anything is seen nothing is due.
LEMMA NoPositions ==
  Tabulates(<<>>, [n \in {0} |-> <<>>]) /\ SignalPositions(<<>>) = <<>>
<1> DEFINE f == [n \in {0} |-> <<>>]
<1>1. Len(<<>>) = 0 /\ <<>> \in Seq(Sights) /\ 0 .. 0 = {0}
  OBVIOUS
<1>2. f = [n \in 0 .. 0 |-> PositionsStep(<<>>, f, n)]
  BY <1>1 DEF PositionsStep
<1>3. Tabulates(<<>>, f)
  BY <1>1, <1>2 DEF Tabulates
<1>4. PositionsTable(<<>>) = f
  <2> HIDE DEF f
  <2>1. Tabulates(<<>>, PositionsTable(<<>>))
    BY <1>3 DEF Tabulates, PositionsTable
  <2> QED BY <1>1, <1>3, <2>1, TableOfPositions
<1> QED BY <1>1, <1>3, <1>4, PositionsFromTable


\* What a strategy that has not failed keeps of what it has seen: the price
\* before, how many were below the threshold in a row as long as that can
\* matter, and how many were usable since the last signal
Follows(s, prices, positions) ==
  LET n == Len(prices) IN
  /\ s.baseline <=> n > 0 /\ prices[n] # "Bad"
  /\ s.baseline => prices[n] = s.previous
  /\ s.emitted = Len(positions)
  /\ s.emitted < MaxSignalsPerRun =>
       s.below = UpTo(RetriggerBelowCount, RowBelow(prices, n))
  /\ s.emitted > 0 =>
       s.since = UpTo(CooldownMarketEvents,
                      UsableBetween(prices, positions[Len(positions)] + 1, n))

\* What can be said of any such sequence
Told(prices) ==
  /\ \E f : Tabulates(prices, f)
  /\ \E n \in 0 .. Len(prices) : BelowInRow(prices, Len(prices), n)

\* It can be said of a longer one, whose signals are those of the shorter one
\* and perhaps one more.
LEMMA ToldNext ==
  ASSUME NEW prices \in Seq(Sights), NEW x \in Sights, Told(prices)
  PROVE  LET longer == Append(prices, x)
             n == Len(prices) + 1
             positions == SignalPositions(prices)
         IN /\ Told(longer)
            /\ positions \in Seq(1 .. Len(prices))
            /\ SignalPositions(longer) =
                 IF SignalDue(longer, positions, n) THEN Append(positions, n)
                 ELSE positions
<1>1. PICK f : Tabulates(prices, f)
  BY DEF Told
<1>2. PICK n \in 0 .. Len(prices) : BelowInRow(prices, Len(prices), n)
  BY DEF Told
<1> DEFINE longer == Append(prices, x)
           m == IF x = "Below" THEN n + 1 ELSE 0
<1>3. m \in 0 .. Len(longer) /\ BelowInRow(longer, Len(longer), m)
  BY <1>2, RowNext
<1>4. /\ \E g : Tabulates(longer, g)
      /\ SignalPositions(prices) \in Seq(1 .. Len(prices))
      /\ SignalPositions(longer) =
           IF SignalDue(longer, SignalPositions(prices), Len(prices) + 1)
           THEN Append(SignalPositions(prices), Len(prices) + 1)
           ELSE SignalPositions(prices)
  BY <1>1, TableNext
<1> HIDE DEF longer, m
<1>5. Told(longer)
  BY <1>3, <1>4 DEF Told
<1> QED BY <1>4, <1>5 DEF longer

\* The saturating counts
LEMMA Saturated ==
  ASSUME NEW limit \in Nat, NEW n \in Nat
  PROVE  /\ UpTo(limit, UpTo(limit, n) + 1) = UpTo(limit, n + 1)
         /\ UpTo(limit, n) >= limit <=> n >= limit
         /\ UpTo(limit, 0) = 0
         /\ limit > 0 /\ n > 0 => UpTo(limit, n) >= 1
BY DEF UpTo

\* A usable price: the strategy asks for an entry where a signal is due.
LEMMA PriceFollows ==
  ASSUME NEW s \in Strategy, NEW price \in Prices, NEW prices \in Seq(Sights),
         Told(prices), Follows(s, prices, SignalPositions(prices))
  PROVE  LET longer == Append(prices, price)
             after == OnPrice(s, price)
         IN /\ Follows(after.state, longer, SignalPositions(longer))
            /\ after.signal <=>
                 SignalDue(longer, SignalPositions(prices), Len(prices) + 1)
<1> DEFINE longer == Append(prices, price)
           l == Len(prices)
           positions == SignalPositions(prices)
           last == positions[Len(positions)]
           since == IF s.emitted > 0 THEN UpTo(CooldownMarketEvents, s.since + 1)
                    ELSE s.since
           below == IF price = "Below" THEN UpTo(RetriggerBelowCount, s.below + 1)
                    ELSE IF Crosses(s, price) THEN s.below ELSE 0
           asks == Crosses(s, price) /\ s.emitted < MaxSignalsPerRun
           signal == asks /\ Enough(s, below, since) /\ price # "Top"
           after == OnPrice(s, price)
           due == SignalDue(longer, positions, l + 1)
<1>a. price \in Sights
  BY DEF Sights
<1>1. /\ longer \in Seq(Sights) /\ l \in Nat /\ Len(longer) = l + 1
      /\ longer[l + 1] = price /\ \A j \in 1 .. l : longer[j] = prices[j]
  BY <1>a, OneMore
<1>2. /\ positions \in Seq(1 .. l)
      /\ SignalPositions(longer) = IF due THEN Append(positions, l + 1) ELSE positions
  BY <1>a, ToldNext
<1>3. PICK n \in 0 .. l : BelowInRow(prices, l, n)
  BY DEF Told
<1> DEFINE m == IF price = "Below" THEN n + 1 ELSE 0
<1>4. RowBelow(prices, l) = n /\ RowBelow(longer, l) = n /\ RowBelow(longer, l + 1) = m
  <2>1. RowBelow(prices, l) = n /\ RowBelow(longer, Len(longer)) = m
    BY <1>a, <1>3, RowNext
  <2>2. l \in 0 .. l
    BY <1>1
  <2>3. RowBelow(longer, l) = RowBelow(prices, l)
    BY <1>a, <2>2, RowStays
  <2> QED BY <1>1, <2>1, <2>3
<1>5. /\ after.signal = signal /\ after.state \in Strategy
      /\ after.state.since = IF signal THEN 0 ELSE since
      /\ after.state.below = IF asks THEN 0 ELSE below
      /\ after.state.previous = price /\ after.state.baseline = TRUE
      /\ after.state.emitted = IF signal THEN s.emitted + 1 ELSE s.emitted
  BY AfterPrice
<1>6. /\ s.baseline <=> l > 0 /\ prices[l] # "Bad"
      /\ s.baseline => prices[l] = s.previous
      /\ s.emitted = Len(positions)
      /\ s.emitted < MaxSignalsPerRun => s.below = UpTo(RetriggerBelowCount, n)
      /\ s.emitted > 0 =>
           s.since = UpTo(CooldownMarketEvents, UsableBetween(prices, last + 1, l))
  BY <1>4 DEF Follows
<1>7. /\ MaxSignalsPerRun \in Nat \ {0} /\ RetriggerBelowCount \in Nat \ {0}
      /\ CooldownMarketEvents \in Nat /\ s.emitted \in Nat
  BY StrategyAssumption DEF Strategy
<1>8. Crosses(s, price) <=> CrossingAt(longer, l + 1)
  <2>1. l > 0 => longer[l] = prices[l]
    BY <1>1
  <2>2. (l + 1) - 1 = l /\ (l + 1 > 1 <=> l > 0)
    BY <1>1
  <2>3. price # "Below" <=> price \in {"Above", "Top"}
    BY DEF Prices
  <2> HIDE DEF longer
  <2> QED BY <1>1, <1>6, <2>1, <2>2, <2>3 DEF Crosses, CrossingAt
<1>9. ASSUME s.emitted > 0
      PROVE  /\ UsableBetween(prices, last + 1, l) \in Nat
             /\ UsableBetween(longer, last + 1, l + 1) =
                  UsableBetween(prices, last + 1, l) + 1
             /\ since = UpTo(CooldownMarketEvents,
                             UsableBetween(longer, last + 1, l + 1))
  <2>1. last \in 1 .. l
    BY <1>2, <1>6, <1>9
  <2>2. last + 1 \in 1 .. l + 1
    BY <1>1, <2>1
  <2>3. price # "Bad"
    BY DEF Prices
  <2> HIDE DEF last
  <2>4. /\ UsableBetween(prices, last + 1, l) \in Nat
        /\ UsableBetween(longer, last + 1, Len(longer)) =
             UsableBetween(prices, last + 1, l) + 1
    BY <1>a, <2>2, <2>3, UsableNext
  <2>5. since = UpTo(CooldownMarketEvents,
                     UpTo(CooldownMarketEvents, UsableBetween(prices, last + 1, l)) + 1)
    BY <1>6, <1>9
  <2> HIDE DEF since, longer
  <2> QED BY <1>1, <1>7, <2>4, <2>5, Saturated
<1>10. Crosses(s, price) => n > 0
  <2>1. Crosses(s, price) => l > 0 /\ prices[l] = "Below"
    BY <1>6 DEF Crosses
  <2> QED BY <1>1, <1>3, <2>1 DEF BelowInRow
<1>11. s.emitted < MaxSignalsPerRun /\ Crosses(s, price) =>
         below = UpTo(RetriggerBelowCount, n)
  BY <1>6 DEF Crosses
<1>12. signal <=> due
  <2>1. (positions = <<>>) <=> s.emitted = 0
    BY <1>2, <1>6
  <2>2. ASSUME s.emitted < MaxSignalsPerRun, Crosses(s, price), s.emitted > 0
        PROVE  Enough(s, below, since) <=>
                 /\ RowBelow(longer, l) >= RetriggerBelowCount
                 /\ UsableBetween(longer, last + 1, l + 1) >= CooldownMarketEvents
    <3>1. below >= RetriggerBelowCount <=> n >= RetriggerBelowCount
      <4>1. n \in Nat /\ RetriggerBelowCount \in Nat
        BY <1>1, <1>7
      <4> HIDE DEF below
      <4>2. below = UpTo(RetriggerBelowCount, n)
        BY <1>11, <2>2
      <4> QED BY <4>1, <4>2 DEF UpTo
    <3>2. since >= CooldownMarketEvents <=>
            UsableBetween(longer, last + 1, l + 1) >= CooldownMarketEvents
      <4>1. UsableBetween(longer, last + 1, l + 1) \in Nat
        BY <1>9, <2>2
      <4>2. since = UpTo(CooldownMarketEvents, UsableBetween(longer, last + 1, l + 1))
        BY <1>9, <2>2
      <4> HIDE DEF since, longer, last
      <4> QED BY <1>7, <4>1, <4>2, Saturated
    <3> HIDE DEF below, since, longer, last
    <3> QED BY <1>4, <1>7, <2>2, <3>1, <3>2 DEF Enough
  <2>3. ASSUME s.emitted < MaxSignalsPerRun, Crosses(s, price), s.emitted = 0
        PROVE  Enough(s, below, since)
    <3>1. below >= 1
      <4>1. n \in Nat
        BY <1>1
      <4> HIDE DEF below
      <4> QED BY <1>7, <1>10, <1>11, <2>3, <4>1, Saturated
    <3> HIDE DEF below, since
    <3> QED BY <2>3, <3>1 DEF Enough
  <2>4. (l + 1) - 1 = l
    BY <1>1
  <2> HIDE DEF below, since, longer, positions
  <2>5. due <=> /\ Crosses(s, price) /\ price # "Top"
                /\ s.emitted < MaxSignalsPerRun
                /\ \/ s.emitted = 0
                   \/ /\ RowBelow(longer, l) >= RetriggerBelowCount
                      /\ UsableBetween(longer, last + 1, l + 1) >= CooldownMarketEvents
    BY <1>1, <1>6, <1>8, <2>1, <2>4 DEF SignalDue
  <2> HIDE DEF due, last
  <2> QED BY <1>7, <2>2, <2>3, <2>5
<1> HIDE DEF longer, after, due, positions
<1>13. ASSUME due PROVE Follows(after.state, longer, Append(positions, l + 1))
  <2> DEFINE more == Append(positions, l + 1)
  <2>1. Len(more) = Len(positions) + 1 /\ more[Len(more)] = l + 1
    BY <1>2
  <2>2. UsableBetween(longer, (l + 1) + 1, l + 1) = 0
    <3>1. {k \in (l + 1) + 1 .. l + 1 : longer[k] # "Bad"} = {}
      BY <1>1
    <3> QED BY <3>1, FS_EmptySet DEF UsableBetween
  <2>3. signal /\ asks /\ price # "Below"
    BY <1>12, <1>13 DEF Crosses
  <2> HIDE DEF asks, signal, below, since, more
  <2>4. /\ after.state.since = 0 /\ after.state.below = 0 /\ m = 0
        /\ after.state.emitted = s.emitted + 1
    BY <1>5, <2>3
  <2>5. longer[l + 1] # "Bad" /\ l + 1 > 0
    BY <1>1 DEF Prices
  <2>6. /\ after.state.below = UpTo(RetriggerBelowCount, RowBelow(longer, l + 1))
        /\ after.state.since =
             UpTo(CooldownMarketEvents,
                  UsableBetween(longer, more[Len(more)] + 1, l + 1))
    BY <1>4, <1>7, <2>1, <2>2, <2>4, Saturated
  <2>7. after.state.emitted = Len(more)
    BY <1>6, <2>1, <2>4
  <2> QED BY <1>1, <1>5, <2>5, <2>6, <2>7 DEF Follows, more
<1>14. ASSUME ~due PROVE Follows(after.state, longer, positions)
  <2>1. ~signal
    BY <1>12, <1>14
  <2>2. ASSUME s.emitted < MaxSignalsPerRun
        PROVE  after.state.below = UpTo(RetriggerBelowCount, m)
    <3>1. CASE price = "Below"
      <4>1. ~asks /\ below = UpTo(RetriggerBelowCount, UpTo(RetriggerBelowCount, n) + 1)
        BY <1>6, <2>2, <3>1 DEF Crosses
      <4>2. after.state.below = below /\ m = n + 1
        BY <1>5, <3>1, <4>1
      <4>3. n \in Nat /\ RetriggerBelowCount \in Nat
        BY <1>1, <1>7
      <4> HIDE DEF asks, below
      <4> QED BY <4>1, <4>2, <4>3, Saturated
    <3>2. CASE price # "Below"
      <4>1. after.state.below = 0
        BY <1>5, <2>2, <3>2
      <4> QED BY <1>7, <3>2, <4>1, Saturated
    <3> QED BY <3>1, <3>2
  <2>3. after.state.since = since /\ after.state.emitted = s.emitted
    BY <1>5, <2>1
  <2>4. longer[l + 1] # "Bad" /\ l + 1 > 0
    BY <1>1 DEF Prices
  <2> HIDE DEF asks, signal, below, since, m
  <2> QED BY <1>1, <1>4, <1>5, <1>6, <1>9, <2>2, <2>3, <2>4 DEF Follows
<1>15. Follows(after.state, longer, SignalPositions(longer))
  BY <1>2, <1>13, <1>14
<1>16. after.signal <=> due
  BY <1>5, <1>12
<1> QED BY <1>15, <1>16 DEF longer, after, due, positions

\* An event that cannot be used: no signal is due.
LEMMA BadFollows ==
  ASSUME NEW s \in Strategy, NEW prices \in Seq(Sights),
         Told(prices), Follows(s, prices, SignalPositions(prices))
  PROVE  LET longer == Append(prices, "Bad") IN
         /\ Follows(Unusable(s), longer, SignalPositions(longer))
         /\ ~SignalDue(longer, SignalPositions(prices), Len(prices) + 1)
<1> DEFINE longer == Append(prices, "Bad")
           l == Len(prices)
           positions == SignalPositions(prices)
           last == positions[Len(positions)]
           after == Unusable(s)
<1>a. "Bad" \in Sights
  BY DEF Sights
<1>1. /\ longer \in Seq(Sights) /\ l \in Nat /\ Len(longer) = l + 1
      /\ longer[l + 1] = "Bad"
  BY <1>a, OneMore
<1>2. ~SignalDue(longer, positions, l + 1)
  <2> HIDE DEF longer
  <2> QED BY <1>1 DEF SignalDue, CrossingAt
<1>3. positions \in Seq(1 .. l) /\ SignalPositions(longer) = positions
  BY <1>a, <1>2, ToldNext
<1>4. RowBelow(longer, l + 1) = 0
  <2>1. PICK n \in 0 .. l : BelowInRow(prices, l, n)
    BY DEF Told
  <2>2. RowBelow(longer, Len(longer)) = 0
    BY <1>a, <2>1, RowNext
  <2> QED BY <1>1, <2>2
<1>5. /\ ~after.baseline /\ after.below = 0
      /\ after.since = s.since /\ after.emitted = s.emitted
  BY Cleared DEF Unusable
<1>6. s.emitted > 0 => UsableBetween(longer, last + 1, l + 1) =
                         UsableBetween(prices, last + 1, l)
  <2> SUFFICES ASSUME s.emitted > 0
               PROVE  UsableBetween(longer, last + 1, l + 1) =
                        UsableBetween(prices, last + 1, l)
    OBVIOUS
  <2>1. last \in 1 .. l
    BY <1>3 DEF Follows
  <2>2. last + 1 \in 1 .. l + 1
    BY <1>1, <2>1
  <2> HIDE DEF last
  <2>3. /\ UsableBetween(prices, last + 1, l) \in Nat
        /\ UsableBetween(longer, last + 1, Len(longer)) =
             UsableBetween(prices, last + 1, l) + 0
    BY <1>a, <2>2, UsableNext
  <2> HIDE DEF longer
  <2> QED BY <1>1, <2>3
<1>7. /\ s.emitted = Len(positions)
      /\ s.emitted > 0 =>
           s.since = UpTo(CooldownMarketEvents, UsableBetween(prices, last + 1, l))
  BY DEF Follows
<1>8. UpTo(RetriggerBelowCount, 0) = 0
  BY StrategyAssumption, Saturated
<1> HIDE DEF longer, after, positions
<1>9. Follows(after, longer, SignalPositions(longer))
  BY <1>1, <1>3, <1>4, <1>5, <1>6, <1>7, <1>8 DEF Follows
<1> QED BY <1>2, <1>9 DEF longer, after, positions

\* on_market: unless it fails, the strategy asks where a signal is due.
LEMMA DecideFollows ==
  ASSUME NEW s \in Strategy, ~s.faulted, NEW prices \in Seq(Sights), Told(prices),
         Follows(s, prices, SignalPositions(prices)),
         NEW seq \in Nat \ {0}, NEW price,
         NEW usable \in BOOLEAN, usable => price \in Prices
  PROVE  LET decision == Decide(s, seq, price, usable)
             longer == Append(prices, IF usable THEN price ELSE "Bad")
         IN IF decision.state.faulted THEN ~decision.signal
            ELSE /\ Follows(decision.state, longer, SignalPositions(longer))
                 /\ decision.signal <=>
                      SignalDue(longer, SignalPositions(prices), Len(prices) + 1)
<1> DEFINE decision == Decide(s, seq, price, usable)
           longer == Append(prices, IF usable THEN price ELSE "Bad")
           positions == SignalPositions(prices)
<1>1. CASE s.last > 0 /\ seq # s.last + 1
  <2>1. decision.signal = FALSE
    BY <1>1 DEF Decide
  <2>2. decision.state = [ClearBaseline(s) EXCEPT !.faulted = TRUE]
    BY <1>1 DEF Decide
  <2>3. ClearBaseline(s) \in Strategy
    BY Cleared
  <2>4. decision.state.faulted = TRUE
    BY <2>2, <2>3 DEF Strategy
  <2> HIDE DEF decision
  <2>5. QED
    BY <2>1, <2>4 DEF decision
<1>2. CASE ~(s.last > 0 /\ seq # s.last + 1) /\ ~usable
  <2> DEFINE c == Unusable(s)
  <2>1. decision = [state |-> [c EXCEPT !.last = seq], signal |-> FALSE]
    BY <1>2 DEF Decide
  <2>2. c \in Strategy /\ c.faulted = s.faulted
    BY Cleared DEF Unusable
  <2>3. Follows(c, longer, SignalPositions(longer))
        /\ ~SignalDue(longer, positions, Len(prices) + 1)
    BY <1>2, BadFollows
  <2> HIDE DEF c, longer, decision
  <2>4. /\ decision.state.baseline = c.baseline
        /\ decision.state.previous = c.previous
        /\ decision.state.emitted = c.emitted /\ decision.state.below = c.below
        /\ decision.state.since = c.since /\ decision.state.faulted = c.faulted
        /\ ~decision.signal
    BY <2>1, <2>2 DEF Strategy
  <2>5. Follows(decision.state, longer, SignalPositions(longer))
    BY <2>3, <2>4 DEF Follows
  <2> QED BY <2>2, <2>3, <2>4, <2>5 DEF longer, decision
<1>3. CASE ~(s.last > 0 /\ seq # s.last + 1) /\ usable
  <2> DEFINE t == [s EXCEPT !.last = seq]
  <2>1. decision = OnPrice(t, price)
    BY <1>3 DEF Decide
  <2>2. t \in Strategy /\ t.faulted = s.faulted
        /\ t.baseline = s.baseline /\ t.previous = s.previous
        /\ t.emitted = s.emitted /\ t.below = s.below /\ t.since = s.since
    BY DEF Strategy
  <2> HIDE DEF t
  <2>3. Follows(t, prices, SignalPositions(prices))
    BY <2>2 DEF Follows
  <2>4. price \in Prices /\ longer = Append(prices, price)
    BY <1>3
  <2>5. decision.state.faulted = t.faulted
    <3>1. OnPrice(t, price).state.faulted = t.faulted
      BY <2>2, <2>4, AfterPrice
    <3> QED BY <2>1, <3>1
  <2> HIDE DEF longer
  <2>6. /\ Follows(decision.state, longer, SignalPositions(longer))
        /\ decision.signal <=> SignalDue(longer, positions, Len(prices) + 1)
    BY <2>1, <2>2, <2>3, <2>4, PriceFollows
  <2> HIDE DEF decision
  <2> QED BY <2>2, <2>5, <2>6 DEF longer, decision
<1> QED BY <1>1, <1>2, <1>3

-----------------------------------------------------------------------------
(* The signals of each account *)

PricesOf(a) == [i \in 1 .. Len(seen[a]) |-> seen[a][i].price]

Sighting == [seq : Nat, price : Sights]

\* A strategy, as long as it has not failed, follows what it has been shown, and
\* its signals are those of what it has been shown.
FollowsSeen(a) ==
  LET prices == PricesOf(a)
      positions == SignalPositions(prices)
  IN /\ seen[a] \in Seq(Sighting)
     /\ Told(prices)
     /\ positions \in Seq(1 .. Len(seen[a]))
     /\ signals[a] = [i \in 1 .. Len(positions) |-> seen[a][positions[i]].seq]
     /\ ~strategy[a].faulted => Follows(strategy[a], prices, positions)

StrategyInv ==
  /\ IngressInv /\ KindsKnown /\ WorkerTypes
  /\ seen \in [Accounts -> Seq(Sighting)]
  /\ \A a \in Accounts : FollowsSeen(a)

\* Nothing seen
LEMMA ToldNothing == Told(<<>>)
<1>1. Len(<<>>) = 0
  OBVIOUS
<1>2. BelowInRow(<<>>, 0, 0)
  BY DEF BelowInRow
<1> QED BY <1>1, <1>2, NoPositions DEF Told

LEMMA StrategyInvInit == FeedInit => StrategyInv
<1> SUFFICES ASSUME FeedInit PROVE StrategyInv
  OBVIOUS
<1>1. IngressInv /\ KindsKnown /\ WorkerTypes
  BY FeedInvInit DEF FeedInv
<1>2. <<>> \in Seq(Sighting) /\ Len(<<>>) = 0
  OBVIOUS
<1>3. seen \in [Accounts -> Seq(Sighting)]
  BY <1>2 DEF FeedInit
<1>4. ASSUME NEW a \in Accounts PROVE FollowsSeen(a)
  <2>1. seen[a] = <<>> /\ signals[a] = <<>> /\ strategy[a] = NewStrategy
    BY DEF FeedInit
  <2>2. PricesOf(a) = <<>>
    BY <2>1 DEF PricesOf
  <2>3. RowBelow(<<>>, 0) = 0
    <3>1. BelowInRow(<<>>, 0, 0) /\ 0 \in 0 .. 0
      BY DEF BelowInRow
    <3> QED BY <3>1, OneRow
  <2>4. UpTo(RetriggerBelowCount, 0) = 0
    BY StrategyAssumption, Saturated
  <2>5. Follows(NewStrategy, <<>>, <<>>)
    BY <1>2, <2>3, <2>4 DEF Follows, NewStrategy
  <2>6. SignalPositions(<<>>) = <<>> /\ <<>> \in Seq(1 .. 0)
    BY NoPositions, EmptySeq
  <2>7. signals[a] = [i \in 1 .. Len(<<>>) |-> seen[a][(<<>>)[i]].seq]
    BY <2>1
  <2> QED BY <1>2, <2>1, <2>2, <2>5, <2>6, <2>7, ToldNothing DEF FollowsSeen
<1> QED BY <1>1, <1>3, <1>4 DEF StrategyInv

\* The worker shows its strategy the next event.
LEMMA MarketSeen ==
  ASSUME StrategyInv, NEW a \in Accounts, OnMarket(a)
  PROVE  /\ FollowsSeen(a)'
         /\ seen' \in [Accounts -> Seq(Sighting)]
         /\ \A b \in Accounts \ {a} :
              /\ strategy'[b] = strategy[b] /\ signals'[b] = signals[b]
              /\ seen'[b] = seen[b]
<1> DEFINE event == Head(channels[a])
           s == strategy[a]
<1>1. PICK stale \in left.stale :
        LET usable == event.kind # "Null" /\ ~stale
            decision == Decide(s, event.seq, event.kind, usable)
        IN /\ strategy' = [strategy EXCEPT ![a] = decision.state]
           /\ signals' = IF decision.signal
                         THEN [signals EXCEPT ![a] = Append(signals[a], event.seq)]
                         ELSE signals
           /\ seen' = IF decision.state.faulted THEN seen
                      ELSE [seen EXCEPT ![a] =
                              Append(seen[a],
                                     [seq |-> event.seq,
                                      price |-> IF usable THEN event.kind ELSE "Bad"])]
  BY DEF OnMarket
<1>2. event.seq \in Nat \ {0} /\ event.kind \in Prices \cup {"Null"}
  BY NextEvent DEF OnMarket, Take, StrategyInv
<1> DEFINE usable == event.kind # "Null" /\ ~stale
           decision == Decide(s, event.seq, event.kind, usable)
           t == decision.state
           x == IF usable THEN event.kind ELSE "Bad"
           sight == [seq |-> event.seq, price |-> x]
           prices == PricesOf(a)
           positions == SignalPositions(prices)
           l == Len(seen[a])
           longer == Append(prices, x)
<1>3. /\ s \in Strategy /\ signals[a] \in Seq(Nat) /\ seen[a] \in Seq(Sighting)
      /\ l \in Nat /\ Told(prices) /\ positions \in Seq(1 .. l)
      /\ signals[a] = [i \in 1 .. Len(positions) |-> seen[a][positions[i]].seq]
      /\ ~s.faulted => Follows(s, prices, positions)
  BY DEF StrategyInv, WorkerTypes, FollowsSeen
<1>4. usable \in BOOLEAN /\ (usable => event.kind \in Prices) /\ x \in Sights
      /\ sight \in Sighting
  BY <1>2 DEF Sights, Sighting
<1>5. prices \in Seq(Sights) /\ Len(prices) = l
  <2>1. \A i \in 1 .. l : seen[a][i].price \in Sights
    <3>1. \A i \in 1 .. l : seen[a][i] \in Sighting
      BY <1>3
    <3> QED BY <3>1 DEF Sighting
  <2> QED BY <1>3, <2>1 DEF PricesOf
<1>6. /\ strategy' = [strategy EXCEPT ![a] = t]
      /\ signals' = IF decision.signal
                    THEN [signals EXCEPT ![a] = Append(signals[a], event.seq)]
                    ELSE signals
      /\ seen' = IF t.faulted THEN seen
                 ELSE [seen EXCEPT ![a] = Append(seen[a], sight)]
  BY <1>1
<1>7. strategy'[a] = t
      /\ signals'[a] = (IF decision.signal THEN Append(signals[a], event.seq)
                        ELSE signals[a])
      /\ seen'[a] = IF t.faulted THEN seen[a] ELSE Append(seen[a], sight)
  <2> HIDE DEF decision, t, sight
  <2> QED BY <1>6 DEF StrategyInv, WorkerTypes
<1>8. /\ s.faulted => decision.signal = FALSE /\ t = s
      /\ ~s.faulted => IF t.faulted THEN ~decision.signal
                       ELSE /\ Follows(t, longer, SignalPositions(longer))
                            /\ decision.signal <=> SignalDue(longer, positions, l + 1)
  <2>1. s.faulted => decision.signal = FALSE /\ t = s
    BY DEF Decide
  <2>2. ASSUME ~s.faulted
        PROVE  IF t.faulted THEN ~decision.signal
               ELSE /\ Follows(t, longer, SignalPositions(longer))
                    /\ decision.signal <=> SignalDue(longer, positions, l + 1)
    <3>1. Follows(s, prices, SignalPositions(prices))
      BY <1>3, <2>2
    <3> HIDE DEF usable, prices, event
    <3>2. LET made == Decide(s, event.seq, event.kind, usable)
              more == Append(prices, IF usable THEN event.kind ELSE "Bad")
          IN IF made.state.faulted THEN ~made.signal
             ELSE /\ Follows(made.state, more, SignalPositions(more))
                  /\ made.signal <=>
                       SignalDue(more, SignalPositions(prices), Len(prices) + 1)
      BY <1>2, <1>3, <1>4, <1>5, <2>2, <3>1, DecideFollows
    <3> QED BY <1>5, <3>2
  <2> QED BY <2>1, <2>2
<1> HIDE DEF decision, t, x, event, usable, positions
<1>9. CASE t.faulted
  <2>1. /\ seen'[a] = seen[a] /\ signals'[a] = signals[a]
        /\ strategy'[a].faulted
    BY <1>7, <1>8, <1>9
  <2>2. PricesOf(a)' = PricesOf(a)
    BY <2>1 DEF PricesOf
  <2>3. FollowsSeen(a)'
    BY <1>3, <2>1, <2>2 DEF FollowsSeen, positions
  <2> QED BY <1>6, <1>9, <2>3 DEF StrategyInv
<1>10. CASE ~t.faulted
  <2>1. ~s.faulted /\ seen'[a] = Append(seen[a], sight)
    BY <1>7, <1>8, <1>10
  <2>2. /\ Append(seen[a], sight) \in Seq(Sighting)
        /\ Len(Append(seen[a], sight)) = l + 1
        /\ Append(seen[a], sight)[l + 1] = sight
        /\ \A i \in 1 .. l : Append(seen[a], sight)[i] = seen[a][i]
    <3> HIDE DEF sight
    <3> QED BY <1>3, <1>4, OneMore
  <2>3. PricesOf(a)' = longer
    <3>1. /\ longer \in Seq(Sights) /\ Len(longer) = l + 1 /\ longer[l + 1] = x
          /\ \A i \in 1 .. l : longer[i] = prices[i]
      <4> HIDE DEF prices
      <4> QED BY <1>4, <1>5, OneMore
    <3>2. \A i \in 1 .. l : prices[i] = seen[a][i].price
      BY DEF PricesOf
    <3>3. longer = [i \in 1 .. l + 1 |-> longer[i]]
      <4> HIDE DEF longer
      <4> QED BY <3>1
    <3>4. PricesOf(a)' = [i \in 1 .. l + 1 |-> Append(seen[a], sight)[i].price]
      <4> HIDE DEF sight
      <4> QED BY <2>1, <2>2 DEF PricesOf
    <3>5. \A i \in 1 .. l + 1 : Append(seen[a], sight)[i].price = longer[i]
      <4>1. sight.price = x
        OBVIOUS
      <4> HIDE DEF sight, longer, prices
      <4> QED BY <1>3, <2>2, <3>1, <3>2, <4>1
    <3> HIDE DEF longer
    <3> QED BY <3>3, <3>4, <3>5
  <2> DEFINE due == SignalDue(longer, positions, l + 1)
             more == SignalPositions(longer)
  <2>4. Told(longer) /\ more = IF due THEN Append(positions, l + 1) ELSE positions
    <3> HIDE DEF prices
    <3> QED BY <1>3, <1>4, <1>5, ToldNext DEF positions
  <2>5. Follows(t, longer, more) /\ (decision.signal <=> due)
    BY <1>8, <1>10, <2>1
  <2> HIDE DEF longer, due, more, prices, sight
  <2>6. more \in Seq(1 .. l + 1)
    <3>1. positions \in Seq(1 .. l + 1) /\ l + 1 \in 1 .. l + 1
      <4>1. 1 .. l \subseteq 1 .. l + 1
        BY <1>3
      <4> QED BY <1>3, <4>1
    <3>2. Append(positions, l + 1) \in Seq(1 .. l + 1)
      BY <3>1, AppendProperties
    <3> QED BY <2>4, <3>1, <3>2
  <2>7. signals'[a] = [i \in 1 .. Len(more) |-> seen'[a][more[i]].seq]
    <3>1. \A i \in 1 .. Len(positions) :
            positions[i] \in 1 .. l /\ seen'[a][positions[i]] = seen[a][positions[i]]
      BY <1>3, <2>1, <2>2
    <3>2. CASE ~due
      BY <1>3, <1>7, <2>4, <2>5, <3>1, <3>2
    <3>3. CASE due
      <4>1. more = Append(positions, l + 1) /\ signals'[a] = Append(signals[a], event.seq)
        BY <1>7, <2>4, <2>5, <3>3
      <4>2. /\ Len(more) = Len(positions) + 1 /\ more[Len(positions) + 1] = l + 1
            /\ \A i \in 1 .. Len(positions) : more[i] = positions[i]
            /\ Len(positions) \in Nat
        BY <1>3, <4>1
      <4>3. /\ Len(signals[a]) = Len(positions)
            /\ signals'[a] \in Seq(Nat)
            /\ Len(signals'[a]) = Len(positions) + 1
            /\ signals'[a][Len(positions) + 1] = event.seq
            /\ \A i \in 1 .. Len(positions) :
                 signals'[a][i] = seen[a][positions[i]].seq
        <5>1. Len(signals[a]) = Len(positions)
          BY <1>3, <4>2
        <5>2. /\ \A i \in 1 .. Len(positions) : signals'[a][i] = signals[a][i]
              /\ signals'[a] \in Seq(Nat) /\ Len(signals'[a]) = Len(positions) + 1
              /\ signals'[a][Len(positions) + 1] = event.seq
          BY <1>2, <1>3, <4>1, <5>1 DEF event
        <5> QED BY <1>3, <5>1, <5>2
      <4>4. seen'[a][l + 1].seq = event.seq
        BY <2>1, <2>2 DEF sight
      <4>5. \A i \in 1 .. Len(more) : signals'[a][i] = seen'[a][more[i]].seq
        BY <3>1, <4>2, <4>3, <4>4
      <4>6. signals'[a] = [i \in 1 .. Len(more) |-> signals'[a][i]]
        BY <4>2, <4>3
      <4> QED BY <4>5, <4>6
    <3> QED BY <3>2, <3>3
  <2>8. FollowsSeen(a)'
    BY <1>7, <2>1, <2>2, <2>3, <2>4, <2>5, <2>6, <2>7 DEF FollowsSeen, more
  <2>9. seen' = [seen EXCEPT ![a] = Append(seen[a], sight)]
    BY <1>6, <1>10 DEF sight
  <2> QED BY <1>6, <2>2, <2>8, <2>9 DEF StrategyInv
<1> QED BY <1>9, <1>10

LEMMA StrategyInvSteps == StrategyInv /\ [FeedNext]_feedVars => StrategyInv'
<1> SUFFICES ASSUME StrategyInv, [FeedNext]_feedVars PROVE StrategyInv'
  OBVIOUS
<1>1. IngressInv' /\ KindsKnown' /\ WorkerTypes'
  BY FeedStepsIngress, KindsStay, IngressNextInv, WorkerTypesSteps
     DEF IngressStep, StrategyInv
<1>2. ASSUME NEW b \in Accounts,
             strategy'[b] = strategy[b], signals'[b] = signals[b], seen'[b] = seen[b]
      PROVE  FollowsSeen(b)'
  <2>1. PricesOf(b)' = PricesOf(b)
    BY <1>2 DEF PricesOf
  <2> QED BY <1>2, <2>1 DEF StrategyInv, FollowsSeen
<1>3. CASE UNCHANGED <<strategy, signals, seen>>
  BY <1>1, <1>2, <1>3 DEF StrategyInv
<1>4. ASSUME NEW a \in Accounts, OnMarket(a) PROVE StrategyInv'
  <2>1. /\ FollowsSeen(a)' /\ seen' \in [Accounts -> Seq(Sighting)]
        /\ \A b \in Accounts \ {a} :
             /\ strategy'[b] = strategy[b] /\ signals'[b] = signals[b]
             /\ seen'[b] = seen[b]
    BY <1>4, MarketSeen
  <2>2. \A b \in Accounts : FollowsSeen(b)'
    BY <1>2, <2>1
  <2> QED BY <1>1, <2>1, <2>2 DEF StrategyInv
<1>5. CASE UNCHANGED feedVars
  BY <1>3, <1>5 DEF feedVars, workers
<1>6. CASE ApiStep
  BY <1>3, <1>6 DEF ApiStep, OnFrontConnected, OnRspUserLogin, OnRspSubMarketData,
     OnRtnDepthMarketData, PublishEvent, OnFrontDisconnected, HangUp, workers
<1>7. CASE FailoverStep \/ StopEngine
  BY <1>3, <1>7 DEF FailoverStep, StopEngine, CloseFeed, Release, CreateCandidate,
     workers
<1>8. ASSUME NEW a \in Accounts, Discard(a) PROVE StrategyInv'
  BY <1>3, <1>8 DEF Discard
<1> QED BY <1>4, <1>5, <1>6, <1>7, <1>8 DEF FeedNext, WorkerStep

\* For any counts and any market: a strategy asks for an entry exactly at the
\* crossings among the events it has been shown, each after the first one far
\* enough from the one before; and, once it has failed, never.
THEOREM AsksAtCrossings == FeedSpec => []SignalsAreCrossings
<1>1. StrategyInv => SignalsAreCrossings
  BY DEF StrategyInv, FollowsSeen, SignalsAreCrossings, PricesOf
<1> QED BY <1>1, StrategyInvInit, StrategyInvSteps, PTL DEF FeedSpec
=============================================================================
