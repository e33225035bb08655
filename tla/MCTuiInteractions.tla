------------------------- MODULE MCTuiInteractions -------------------------
(* TLC instance of TuiInteractions: an interaction of each of two runs, two *)
(* daemons.                                                                 *)
EXTENDS TuiInteractions

MCRunOf == <<1, 2>>
=============================================================================
