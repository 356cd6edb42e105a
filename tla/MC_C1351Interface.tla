-------------------------- MODULE MC_C1351Interface --------------------------
(* C1351Interface with a desk for the Y axis that is wider than the range  *)
(* of the mouse, and a narrow one for the X axis.                          *)
EXTENDS C1351Interface

CONSTANTS XPlaces, YPlaces

MCPlaces == [n \in TimerNumber |-> IF n = TIMER_3 THEN YPlaces ELSE XPlaces]
=============================================================================
