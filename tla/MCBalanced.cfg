CONSTANTS
  n1 = n1
  n2 = n2
  n3 = n3
  n4 = n4
  r1 = r1
  r2 = r2
  a = a
  b = b
  None = None
  Empty = Empty
  Nodes <- MCNodes
  Runners <- MCRunners
  MaxValues <- MCMaxes
  Names <- MCNames
SPECIFICATION LiveSpec
CHECK_DEADLOCK FALSE
INVARIANTS
  Consistent
PROPERTIES
  NoDoubleOvertake
  NodeServed
