---------------------------- MODULE MCOrderBook ----------------------------
(***************************************************************************)
(* Instance of OrderBook: an order that opens two lots and one that closes *)
(* one or both of them, in tables with room for the two orders and three   *)
(* trades.  The strays reach every refusal of the book: a third order, a   *)
(* second seed, an event against the order of events, a volume out of      *)
(* range, a key reused for other contents, a trade of another instrument,  *)
(* of an order the book does not have and of no quantity at all.           *)
(***************************************************************************)
EXTENDS OrderBook

CONSTANTS o1, o2, o3, cu, al

MCTrade(key, id, instrument, direction, offset, quantity) ==
  [key |-> key, id |-> id, instrument |-> instrument,
   direction |-> direction, offset |-> offset, quantity |-> quantity]
MCSeed(direction, offset, quantity) ==
  [instrument |-> cu, direction |-> direction, offset |-> offset,
   quantity |-> quantity]
MCSeeds ==
  [o \in {o1, o2, o3} |->
     CASE o = o1 -> {MCSeed("Buy", "Open", 2)}
       [] o = o2 -> {MCSeed("Sell", "Close", 1), MCSeed("Sell", "Close", 2)}
       [] o = o3 -> {}]

MCStray(o, instrument, quantity) ==
  MCTrade(<<o1, 1>>, o, instrument, "Buy", "Open", quantity)
MCStrays ==
  {[id |-> o1, type |-> "Filled", cum |-> 3],
   MCStray(o1, cu, 2), MCStray(o1, al, 1), MCStray(o3, cu, 1),
   MCStray(o1, cu, 0),
   [id |-> o1, event |-> "CancelRequested"],
   [id |-> o1, event |-> "SubmitResultUnknown"],
   [id |-> o1, seed |-> MCSeed("Buy", "Open", 1)],
   [id |-> o3, seed |-> MCSeed("Buy", "Open", 1)]}
=============================================================================
