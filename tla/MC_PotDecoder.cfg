SPECIFICATION Spec
CONSTANTS
  WordSize = 65536
  ByteSize = 256
  PotRange = 2048
  TicksPerCount = 16
  TimestampAdjust = 4096
  Offset = 1024
  Places <- MCPlaces
INVARIANTS
  SmallMotionDecoded
  NoDriftWithinRange
