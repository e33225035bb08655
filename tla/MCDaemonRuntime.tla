-------------------------- MODULE MCDaemonRuntime --------------------------
(* TLC instance of DaemonRuntime: two callers of Stop beside the runner.    *)
EXTENDS DaemonRuntime

CONSTANTS s1, s2
=============================================================================
