SPECIFICATION Spec
CONSTANTS
  TIMER_1 = TIMER_1
  TIMER_3 = TIMER_3
  TimerNumber <- MCTimers
  CountModulus = 2
  OverflowModulus = 2
INVARIANTS
  TypeOK
  PendingCaptureIsFresh
  RunningMeansUncaptured
PROPERTIES
  OneCapturePerArming
