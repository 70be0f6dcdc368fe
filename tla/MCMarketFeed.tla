---------------------------- MODULE MCMarketFeed -----------------------------
(***************************************************************************)
(* Two accounts, either of which can supply the credentials of the feed.   *)
(***************************************************************************)
EXTENDS MarketFeed

TwoAccounts == {0, 1}
AllKinds == Prices \cup {"Null"}
\* A quiet feed long enough for two signals, one with every kind of tick, and
\* one that is disturbed
MCBudgets ==
  {[ticks |-> 6, kinds |-> {"Below", "Above"}, stale |-> {FALSE}, connects |-> 1,
    restless |-> {}],
   [ticks |-> 3, kinds |-> AllKinds, stale |-> BOOLEAN, connects |-> 1,
    restless |-> TwoAccounts],
   [ticks |-> 3, kinds |-> {"Below", "Above"}, stale |-> {FALSE}, connects |-> 3,
    restless |-> TwoAccounts]}
=============================================================================
