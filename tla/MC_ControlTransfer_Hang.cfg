SPECIFICATION FairSpec
CONSTANTS
  EpSize = 3
  Requests <- AllRequests
  Troubled = {"value", "block"}
PROPERTY HandlerReturns
CHECK_DEADLOCK FALSE
