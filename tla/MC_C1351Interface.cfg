SPECIFICATION Spec
CONSTANTS
  TIMER_1 = TIMER_1
  TIMER_3 = TIMER_3
  WordSize = 8
  ByteSize = 4
  PotRange = 4
  TicksPerCount = 2
  TimestampAdjust = 2
  Offset = 2
  OverflowModulus = 1
  Button = {"left"}
  MaxJumps = 1
  XPlaces = {0}
  YPlaces = {2, 3, 4, 5}
  Places <- MCPlaces
INVARIANTS
  TypeOK
  MotionMatchesReading
  AccumulatorHoldsMotion
  NeverDrivenHigh
PROPERTIES
  NoDrift
  ReportedWithinACount
  AcceptedYIsCurrent
