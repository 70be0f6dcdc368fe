------------------------------ MODULE MCSession -----------------------------
(***************************************************************************)
(* Instances of Session with one instrument and three orders: an entry and *)
(* two exits. OneLot is what the strategy of src/ submits; TwoLots fills   *)
(* in parts; TwoSignals are entries of two signals on opposite sides, on a *)
(* day that one cancel request was sent before the account restarted.      *)
(***************************************************************************)
EXTENDS Session

CONSTANTS cu

MCEntry(signal, direction, quantity) ==
  [signal |-> signal, direction |-> direction, quantity |-> quantity,
   offset |-> "Open", purpose |-> "Entry", attempt |-> 0]
MCPlan(entries, cancels) ==
  [entries |-> entries, used |-> [signals |-> 0, orders |-> 0, cancels |-> cancels]]

OneLot == {MCPlan({MCEntry(1, "Buy", 1)}, 0)}
TwoLots == {MCPlan({MCEntry(1, "Buy", 2)}, 0)}
TwoSignals == {MCPlan({MCEntry(1, "Buy", 1), MCEntry(2, "Sell", 1)}, 1)}
LotsOrSignals == TwoLots \cup TwoSignals
=============================================================================
