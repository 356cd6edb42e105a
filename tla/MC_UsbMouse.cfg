SPECIFICATION FairSpec
CONSTANTS
  Axis = {"X"}
  Velocity = {0, 1}
  Button = {"left"}
  Requests <- AllRequests
  IdleValues = {0}
  DefaultIdle = 1
  LastFrame = 1
  MinFrames = 1
  MaxFrames = 1
  BusEvents = {"reset", "suspend"}
INVARIANTS
  TypeOK
  MotionConserved
  QuietMeansKnown
PROPERTIES
  HostLearnsButtons
  ChannelSpec
