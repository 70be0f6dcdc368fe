--------------------------- MODULE MCCallbackDrain --------------------------
(***************************************************************************)
(* Instance of CallbackDrain: room for two callbacks, the fewest with      *)
(* which one is lost while a reconnection waits behind another.            *)
(***************************************************************************)
EXTENDS CallbackDrain
=============================================================================
