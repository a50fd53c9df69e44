---------------------------- MODULE MCTimerQueue ----------------------------
(* Days of seven seconds, a clock of three ticks per second.                 *)
EXTENDS TimerQueue

=============================================================================
