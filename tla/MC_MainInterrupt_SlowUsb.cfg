SPECIFICATION MainSpec
CONSTANTS
  TIMER_1 = TIMER_1
  TIMER_3 = TIMER_3
  WordSize = 16
  ByteSize = 4
  PotRange = 4
  TicksPerCount = 2
  TimestampAdjust = 8
  OverflowModulus = 1
  Button = {}
  Offset = 2
  MaxJumps = 0
  Interval = 8
  UpdateInterval = 2
  MaxUsbTicks = 20
  MaxBusTicks = 1
  ServiceLimit = 46
  CanUnplug = FALSE
  XPlaces = {0, 1}
  YPlaces = {0}
  Places <- MCPlaces
INVARIANT ReadingsUnaffected
