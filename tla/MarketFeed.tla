----------------------------- MODULE MarketFeed -----------------------------
(***************************************************************************)
(* The market side of the engine: one connection to the market front,      *)
(* with the credentials of one of the accounts (LiveMarketConnection); the *)
(* main thread, which replaces it by the next account's when it has failed *)
(* (run_live_engine); and the accounts' threads, which hand the events to  *)
(* their strategies while the account is Ready (LiveAccountWorker).        *)
(*                                                                         *)
(* The callbacks of the API, the main thread and each worker run on        *)
(* threads of their own. The front is external: it answers the request of  *)
(* a connected client once, and forgets it when the link goes down.        *)
(***************************************************************************)
EXTENDS MarketIngress, ThresholdStrategy, FiniteSets

CONSTANTS
  Blocked,   \* accounts whose worker could not be set up
  Budgets    \* bounds, one of which a run keeps to: the number of events of the
             \* feed, what its ticks say, whether one can be too old when the
             \* worker takes it, how often the front is reached, and which
             \* accounts are not always Ready

ASSUME FeedAssumption ==
  /\ Kinds \subseteq Prices \cup {"Null"} /\ "Null" \in Kinds
  /\ Blocked \subseteq Accounts
  /\ Accounts # {} /\ IsFiniteSet(Accounts)
  /\ Accounts = 0 .. Cardinality(Accounts) - 1
  /\ Budgets \subseteq [ticks : 0 .. MaxTicks, kinds : SUBSET Kinds,
                          stale : SUBSET BOOLEAN, connects : Nat,
                          restless : SUBSET Accounts]

VARIABLES
  market,       \* the state of the connection, "None" if there is none
  link,         \* the front is connected
  owed,         \* the request the front has still to answer
  left,         \* what is left of the bounds
  hangingUp,    \* OnFrontDisconnected is under way
  main,         \* where the main thread is
  candidate,    \* market_account_index
  nextCandidate,
  failures,     \* failed_market_accounts
  wasRunning,   \* market_was_running
  strategy,     \* the strategy of each account
  signals,      \* history: the events each account took for a signal
  seen,         \* history: what each strategy has been shown
  discarded,    \* history: accounts that passed over an event after the first
  tried,        \* history: accounts that failed since the feed last ran
  earlier,      \* history: accounts that failed before a run nobody has seen yet
  logins,       \* history: the first event of each subscription
  cutOff        \* history: the main thread closed a feed that had not failed

connection == <<market, link, owed, hangingUp, left>>
failover == <<main, candidate, nextCandidate, failures, wasRunning, tried, earlier>>
workers == <<strategy, signals, seen, discarded>>
feedVars == <<ingressVars, connection, failover, workers, logins, cutOff>>

N == Cardinality(Accounts)
States == {"None", "Connecting", "LoggingIn", "Subscribing", "Running",
           "Disconnected", "Failed"}

FeedInit ==
  /\ IngressInit
  /\ left \in Budgets
  /\ market = "None" /\ link = FALSE /\ owed = "None" /\ hangingUp = FALSE
  /\ main = "Create" /\ candidate = 0 /\ nextCandidate = 0
  /\ failures = 0 /\ wasRunning = FALSE /\ tried = {} /\ earlier = {}
  /\ strategy = [a \in Accounts |-> NewStrategy]
  /\ signals = [a \in Accounts |-> <<>>]
  /\ seen = [a \in Accounts |-> <<>>]
  /\ discarded = {}
  /\ logins = {}
  /\ cutOff = FALSE

-----------------------------------------------------------------------------
(* The callbacks of the market API: one at a time, on its own thread *)

Free == pending = NoEvent /\ ~hangingUp

\* fail
FailConnection == market' = "Failed" /\ owed' = "None" /\ SetAccepting(FALSE)

\* A request: the API takes it, or the connection has failed.
Ask(state, request) ==
  \/ /\ market' = state /\ owed' = request
     /\ UNCHANGED ingressVars
  \/ FailConnection

OnFrontConnected ==
  /\ market # "None" /\ Free /\ ~link
  /\ left.connects > 0 /\ left' = [left EXCEPT !.connects = @ - 1]
  /\ link' = TRUE
  /\ Ask("LoggingIn", "Login")
  /\ UNCHANGED <<hangingUp, failover, workers, logins, cutOff>>

OnRspUserLogin ==
  /\ Free /\ owed = "Login"
  /\ Ask("Subscribing", "Subscribe") \* an answer with an error fails as well
  /\ UNCHANGED <<link, left, hangingUp, failover, workers, logins, cutOff>>

OnRspSubMarketData ==
  /\ Free /\ owed = "Subscribe"
  /\ \/ /\ market' = "Running" /\ owed' = "None"
        /\ SetAccepting(TRUE)
        /\ logins' = logins \cup {numbered + 1}
        /\ tried' = {} /\ earlier' = earlier \cup tried
     \/ FailConnection /\ UNCHANGED <<logins, tried, earlier>>
  /\ UNCHANGED <<link, left, hangingUp, main, candidate, nextCandidate, failures,
                 wasRunning, workers, cutOff>>

\* OnRtnDepthMarketData, up to the publishing of the event
OnRtnDepthMarketData ==
  /\ market # "None" /\ Free /\ link
  /\ numbered < left.ticks
  /\ \E kind \in left.kinds : Number(kind)
  /\ UNCHANGED <<connection, failover, workers, logins, cutOff>>

\* Variant: no invalid event when the link goes down
DisconnectSilently ==
  /\ market # "None" /\ Free /\ link
  /\ link' = FALSE /\ owed' = "None" /\ hangingUp' = TRUE
  /\ UNCHANGED <<ingressVars, market, left, failover, workers, logins, cutOff>>

\* OnFrontDisconnected begins: an invalid event for every account, if the feed
\* is open
OnFrontDisconnected ==
  /\ market # "None" /\ Free /\ link
  /\ link' = FALSE /\ owed' = "None" /\ hangingUp' = TRUE
  /\ \/ numbered < left.ticks /\ Number("Null")
     \/ ~accepting /\ UNCHANGED ingressVars
  /\ UNCHANGED <<market, left, failover, workers, logins, cutOff>>

\* ... and ends.
HangUp ==
  /\ hangingUp /\ pending = NoEvent
  /\ hangingUp' = FALSE
  /\ market' = "Disconnected"
  /\ SetAccepting(FALSE)
  /\ UNCHANGED <<link, owed, left, failover, workers, logins, cutOff>>

PublishEvent ==
  /\ Publish
  /\ UNCHANGED <<connection, failover, workers, logins, cutOff>>

ApiStep ==
  \/ OnFrontConnected \/ OnRspUserLogin \/ OnRspSubMarketData
  \/ OnRtnDepthMarketData \/ PublishEvent \/ OnFrontDisconnected \/ HangUp

-----------------------------------------------------------------------------
(* The main thread *)

\* The loop of run_live_engine: a feed that is seen to run renews the budget of
\* failures, a failed one has to be replaced. What comes between two looks at
\* the state is not seen.
SeeRunning ==
  /\ main = "Poll" /\ market = "Running" /\ ~wasRunning
  /\ wasRunning' = TRUE /\ failures' = 0 /\ earlier' = {}
  /\ UNCHANGED <<main, candidate, nextCandidate, tried>>

\* Variant: only a connection that has run is replaced
MustReplaceRun == market = "Failed" /\ wasRunning

MustReplace == market = "Failed"

SeeFailed ==
  /\ main = "Poll" /\ MustReplace
  /\ wasRunning' = FALSE /\ main' = "Ensure"
  /\ UNCHANGED <<candidate, nextCandidate, failures, tried, earlier>>

\* Stopped by the operator, or because every verdict is in
StopEngine ==
  /\ main = "Poll"
  /\ main' = "Stopped"
  /\ SetAccepting(FALSE)
  /\ cutOff' = TRUE
  /\ UNCHANGED <<connection, candidate, nextCandidate, failures, wasRunning,
                 tried, earlier, workers, logins>>

\* ensure_market_candidate, with a connection
KeepCandidate ==
  /\ main = "Ensure" /\ market # "Failed"
  /\ main' = "Poll"
  /\ UNCHANGED <<candidate, nextCandidate, failures, wasRunning, tried, earlier>>

\* The failed connection is destroyed: the feed is closed,
DropCandidate ==
  /\ main = "Ensure" /\ market = "Failed"
  /\ main' = "Close"
  /\ UNCHANGED <<candidate, nextCandidate, failures, wasRunning, tried, earlier>>

CloseFeed ==
  /\ main = "Close"
  /\ main' = "Release"
  /\ SetAccepting(FALSE)
  /\ cutOff' = (cutOff \/ market # "Failed")
  /\ UNCHANGED <<connection, candidate, nextCandidate, failures, wasRunning,
                 tried, earlier, workers, logins>>

\* and the API released, which waits for the callback under way.
Release ==
  /\ main = "Release" /\ Free
  /\ market' = "None" /\ link' = FALSE /\ owed' = "None"
  /\ main' = "Create"
  /\ failures' = failures + 1 /\ tried' = tried \cup {candidate}
  /\ cutOff' = (cutOff \/ market # "Failed")
  /\ UNCHANGED <<ingressVars, left, hangingUp, candidate, nextCandidate, wasRunning,
                 earlier, workers, logins>>

\* Variant: the turn passes to the next account only if this one's API starts
SuccessorIfStarted(started) ==
  IF started THEN (nextCandidate + 1) % N ELSE nextCandidate

\* Whose turn it is after this one's
SuccessorOf(started) == (nextCandidate + 1) % N

\* A connection with the credentials of the next account, which may fail
CreateCandidate ==
  /\ main = "Create" /\ failures < N
  /\ candidate' = nextCandidate
  /\ \E started \in BOOLEAN :
       /\ nextCandidate' = SuccessorOf(started)
       /\ main' = IF started THEN "Ensure" ELSE "Create"
       /\ market' = IF started THEN "Connecting" ELSE "None"
       /\ failures' = IF started THEN failures ELSE failures + 1
       /\ tried' = IF started THEN tried ELSE tried \cup {nextCandidate}
  /\ UNCHANGED <<ingressVars, link, owed, left, hangingUp, wasRunning, earlier,
                 workers, logins, cutOff>>

GiveUp ==
  /\ main = "Create" /\ failures >= N
  /\ main' = "Exhausted"
  /\ UNCHANGED <<candidate, nextCandidate, failures, wasRunning, tried, earlier>>

FailoverStep ==
  \/ /\ SeeRunning \/ SeeFailed \/ KeepCandidate \/ DropCandidate \/ GiveUp
     /\ UNCHANGED <<ingressVars, connection, workers, logins, cutOff>>
  \/ CloseFeed \/ Release \/ CreateCandidate

-----------------------------------------------------------------------------
(* The worker of account a: one event of poll_once. Whether the account was *)
(* Ready when the poll began is for the recovery of its session to say, and  *)
(* can change before each event. That a latched queue freezes the account is *)
(* a fault of the session as any other.                                      *)

Stopping == main \in {"Stopped", "Exhausted"}

\* An event for an account that is not Ready, or blocked, is thrown away.
Discard(a) ==
  /\ a \in Blocked \cup left.restless
  /\ Take(a)
  /\ discarded' = IF strategy[a].last > 0 THEN discarded \cup {a} ELSE discarded
  /\ UNCHANGED <<connection, failover, strategy, signals, seen, logins, cutOff>>

\* The strategy is shown the event; what it asks for goes to submit.
OnMarket(a) ==
  /\ a \notin Blocked /\ Take(a)
  /\ \E stale \in left.stale :
       LET event == Head(channels[a])
           usable == event.kind # "Null" /\ ~stale
           decision == Decide(strategy[a], event.seq, event.kind, usable)
       IN /\ strategy' = [strategy EXCEPT ![a] = decision.state]
          /\ signals' = IF decision.signal
                        THEN [signals EXCEPT ![a] = Append(@, event.seq)]
                        ELSE signals
          /\ seen' = IF decision.state.faulted THEN seen
                     ELSE [seen EXCEPT ![a] =
                             Append(@, [seq |-> event.seq,
                                        price |-> IF usable THEN event.kind
                                                  ELSE "Bad"])]
  /\ UNCHANGED <<connection, failover, discarded, logins, cutOff>>

WorkerStep(a) == Discard(a) \/ OnMarket(a)

-----------------------------------------------------------------------------

\* What the threads still do while the engine is taken down is left out.
FeedNext ==
  ~Stopping /\ \/ ApiStep \/ FailoverStep \/ StopEngine
               \/ \E a \in Accounts : WorkerStep(a)

\* The main thread goes on: it polls without end, and nothing it calls waits
\* for more than a callback, which ends.
FeedFairness ==
  /\ WF_feedVars(FailoverStep)
  /\ WF_feedVars(PublishEvent \/ HangUp)

FeedSpec == FeedInit /\ [][FeedNext]_feedVars /\ FeedFairness

-----------------------------------------------------------------------------
(* Properties *)

\* Types of the variables
FeedTypeOK ==
  /\ IngressTypeOK
  /\ market \in States /\ owed \in {"None", "Login", "Subscribe"}
  /\ link \in BOOLEAN /\ hangingUp \in BOOLEAN
  /\ main \in {"Poll", "Ensure", "Close", "Release", "Create", "Stopped",
               "Exhausted"}
  /\ candidate \in Accounts /\ nextCandidate \in Accounts
  /\ failures \in 0 .. N /\ wasRunning \in BOOLEAN
  /\ strategy \in [Accounts -> Strategy]

\* A strategy asks for an entry exactly at the crossings among the events it
\* has been shown, with their repetitions held back (on_market).
SignalsAreCrossings ==
  \A a \in Accounts :
    LET positions ==
          SignalPositions([i \in 1 .. Len(seen[a]) |-> seen[a][i].price]) IN
    signals[a] = [i \in 1 .. Len(positions) |-> seen[a][positions[i]].seq]

\* engine.cpp:379: no strategy takes prices before and after a disconnection
\* for a crossing. A feed the main thread has closed while it ran is left out:
\* no invalid event marks that.
SignalsWithinSubscription ==
  cutOff \/ \A a \in Accounts : \A i \in 1 .. Len(signals[a]) :
                 signals[a][i] \notin logins

\* A strategy is out for good after a gap in the numbers of its events
\* (strategy.cpp:143-149). The feed itself makes none, however often it is
\* replaced: only the account's own worker does, which throws events away
\* while the account is not Ready.
FaultsOnlyAfterDiscard ==
  cutOff \/ \A a \in Accounts : strategy[a].faulted => a \in discarded

\* README.md:44: the engine gives up only when every account's credentials have
\* failed since the feed last ran; a failure from before that counts only if the
\* main thread has missed the run, which ended between two of its looks. And
\* once all have failed it starts no second round (run_live_engine,
\* ensure_market_candidate).
GivesUpAfterAll ==
  /\ main = "Exhausted" => tried \cup earlier = Accounts
  /\ tried \cup earlier = Accounts => main \in {"Create", "Exhausted"}

\* README.md:44: a failed connection is replaced, or recovers by itself before
\* it is, unless the engine stops.
FailedIsReplaced == market = "Failed" ~> market # "Failed" \/ Stopping
=============================================================================
