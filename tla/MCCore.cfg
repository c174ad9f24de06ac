CONSTANTS
  t1 = t1
  t2 = t2
  t3 = t3
  None = None
  Tasks <- MCTasks
  MaxThreads = 3
  MaxValues <- MCMax
SPECIFICATION LiveSpec
CHECK_DEADLOCK FALSE
INVARIANTS
  TypeOK
  Accounting
  NoNeedlessQueueing
  NoLostWakeup
  RunningAlive
  ShutdownDrains
PROPERTIES
  TaskServed
  ShutdownReturns
  ImplementsTaskPool
