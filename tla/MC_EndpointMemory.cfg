SPECIFICATION Spec
CONSTANTS
  TotalEndpoints = 7
  Size <- MCSize
  Interfaces <- MCInterfaces
  Memories = {1, 2, 3, 4, 5, 6, 7, 8, 104}
INVARIANTS
  TypeOK
  ReadyIsTrue
  ErrorIsReal
  MouseFirst
