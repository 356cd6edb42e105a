SPECIFICATION FairSpec
CONSTANTS
  Timeout = 100
  MinGap = 19
  MaxGap = 21
  ServiceLimit = 30
  MaxOut = 2
  MaxSuspend = 12
  BusEvents = {"reset", "suspend"}
INVARIANT ServiceDelay
PROPERTIES
  LinesReachHost
  HostNotLocked
