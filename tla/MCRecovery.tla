----------------------------- MODULE MCRecovery -----------------------------
(***************************************************************************)
(* Instances of Acceptance, which has Recovery for a run without it: an    *)
(* entry of one lot and one exit, two connections, with and without the    *)
(* settlement step.                                                        *)
(***************************************************************************)
EXTENDS Acceptance

CONSTANT cu

MCPlans == {[entries |-> {[signal |-> 1, direction |-> "Buy", offset |-> "Open",
                           quantity |-> 1, purpose |-> "Entry", attempt |-> 0]},
             used |-> [signals |-> 0, orders |-> 0, cancels |-> 0]]}
=============================================================================
