CONSTANTS
  w1 = w1
  w2 = w2
  Workers <- MCWorkers
  MaxItems = 3
  MaxNodes = 2
  Width = 2
SPECIFICATION LiveSpec
CHECK_DEADLOCK FALSE
INVARIANTS
  StopAfterAll
  MasterAlive
PROPERTIES
  WorkerReturns
