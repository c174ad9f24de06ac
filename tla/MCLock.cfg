CONSTANTS
  s1 = s1
  s2 = s2
  a = a
  b = b
  Threads <- MCThreads
  Objects <- MCObjects
  MaxCount = 2
  MaxMisuse = 1
  MaxFrames = 2
  None = None
SPECIFICATION LiveSpec
CHECK_DEADLOCK FALSE
INVARIANTS
  Protected
PROPERTIES
  Released
