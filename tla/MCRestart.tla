--------------------------- MODULE MCRestart --------------------------------
(***************************************************************************)
(* Instance of Restart: the runs of two days with room for three orders, a *)
(* day's limit of two, and more references than the limit.                 *)
(***************************************************************************)
EXTENDS Restart
=============================================================================
