--------------------------- MODULE MC_CaptureTimer ---------------------------
(* CaptureTimer with the two timers of the program and two counts. *)
EXTENDS CaptureTimer

CONSTANTS TIMER_1, TIMER_3

MCTimers == {TIMER_1, TIMER_3}
=============================================================================
