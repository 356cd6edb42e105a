SPECIFICATION Spec
CONSTANTS
  Timeout = 100
  MinGap = 19
  MaxGap = 21
  ServiceLimit = 30
  MaxOut = 0
  MaxSuspend = 0
  BusEvents = {}
INVARIANT UsbTaskInTime
