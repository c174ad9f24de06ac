CONSTANTS
  t1 = t1
  t2 = t2
  NoData = NoData
  Threads <- MCThreads
  Data = {1, 2, 3, 4, 5, 6, 7, 8}
  Width = 8
  MaxCalls = 4
SPECIFICATION LiveSpec
CHECK_DEADLOCK FALSE
INVARIANTS
  Ownership
  PoolCount
  FreshInstance
PROPERTIES
  OperationReturns
