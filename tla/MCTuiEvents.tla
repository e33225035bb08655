---------------------------- MODULE MCTuiEvents ----------------------------
(* TLC instance of TuiEvents. *)
EXTENDS TuiEvents
=============================================================================
