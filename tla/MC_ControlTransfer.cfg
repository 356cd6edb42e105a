SPECIFICATION FairSpec
CONSTANTS
  EpSize = 3
  Requests <- AllRequests
  Troubled = {"read", "write", "command", "unknown"}
INVARIANTS
  TypeOK
  ReceivedWithinAsked
  DataComplete
  CutRequestsGetNothing
  OnlyUnknownStalled
PROPERTIES
  AddressAfterStatus
  HandlerReturns
  RequestsEnd
