-------------------------- MODULE MC_MainInterrupt --------------------------
(* MainInterrupt with a desk for each axis. *)
EXTENDS MainInterrupt

CONSTANTS XPlaces, YPlaces

MCPlaces == [n \in TimerNumber |-> IF n = TIMER_3 THEN YPlaces ELSE XPlaces]

(* The durations of this instance are those that the theorems about the    *)
(* program ask for, unless handleUsb() takes longer than the interval.     *)
ASSUME DurationAssumption ==
  MaxUsbTicks <= Interval =>
    /\ HandlersAreShort /\ CycleIsLongEnough /\ ServiceIsFrequent
    /\ TimestampAdjust % PotRange = 0
=============================================================================
