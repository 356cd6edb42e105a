SPECIFICATION FairMainSpec
CONSTANTS
  TIMER_1 = TIMER_1
  TIMER_3 = TIMER_3
  WordSize = 16
  ByteSize = 4
  PotRange = 4
  TicksPerCount = 2
  TimestampAdjust = 8
  OverflowModulus = 1
  Button = {"left"}
  Offset = 2
  MaxJumps = 0
  Interval = 8
  UpdateInterval = 2
  MaxUsbTicks = 8
  MaxBusTicks = 1
  ServiceLimit = 46
  CanUnplug = TRUE
  XPlaces = {3}
  YPlaces = {0, 1}
  Places <- MCPlaces
INVARIANTS
  ReadingsUnaffected
  UsbServicedInTime
PROPERTIES
  Spec
  NoMissedCapture
  SilentCycleIsStill
  ButtonsFollow
  UsbServicedForever
