CONSTANTS
  f1 = f1
  f2 = f2
  Files <- MCFiles
  FirstFiles <- MCFirstFiles
  Slots = {1, 2, 3}
  Main = 0
  MaxVersion = 1
  MaxEvents = 3
  MaxStarts = 1
  None = None
SPECIFICATION LiveSpec
CHECK_DEADLOCK FALSE
INVARIANTS
  OneService
PROPERTIES
  FileServed
