-------------------------- MODULE MCTuiConnection --------------------------
(* TLC instances of TuiConnection: one start operation, whose lanes meet the *)
(* interaction observer, a restore and Close.                                *)
EXTENDS TuiConnection

CONSTANT r1
=============================================================================
