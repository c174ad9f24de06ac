CONSTANTS
  End = End
  MaxMessages = 3
SPECIFICATION LiveSpec
CHECK_DEADLOCK FALSE
INVARIANTS
  EndMeansAll
  WaitsForSomething
PROPERTIES
  ClientReturns
