SPECIFICATION Spec
CONSTANTS
  Axis = {"X"}
  Velocity = {0}
  Button = {"left"}
  Requests <- ReadingRequests
  IdleValues = {0}
  DefaultIdle = 1
  LastFrame = 1
  MinFrames = 1
  MaxFrames = 1
  BusEvents = {}
INVARIANT ChangesAreSent
