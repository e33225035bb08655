------------------------------ MODULE EventLog ------------------------------
(***************************************************************************)
(* What the terminal is promised about the events of one run: it is shown  *)
(* a growing prefix of the daemon's log, every event once and in order,    *)
(* and nothing after a failure was shown.                                  *)
(***************************************************************************)
EXTENDS Naturals, Sequences

VARIABLES emitted,   \* length of the daemon's log of the run
          shown,     \* sequence numbers of the events shown so far
          failure    \* the observation's failure has been shown

vars == <<emitted, shown, failure>>

Init == emitted = 0 /\ shown = <<>> /\ failure = FALSE

Emit == emitted' = emitted + 1 /\ UNCHANGED <<shown, failure>>

Show ==
  /\ ~failure
  /\ Len(shown) < emitted
  /\ shown' = Append(shown, Len(shown) + 1)
  /\ UNCHANGED <<emitted, failure>>

ShowFailure == ~failure /\ failure' = TRUE /\ UNCHANGED <<emitted, shown>>

Next == Emit \/ Show \/ ShowFailure

Spec == Init /\ [][Next]_vars
=============================================================================
