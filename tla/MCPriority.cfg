CONSTANTS
  n1 = n1
  n2 = n2
  n3 = n3
  r1 = r1
  r2 = r2
  None = None
  Nodes <- MCNodes
  Runners <- MCRunners
  MaxValues <- MCMax
  Priorities <- MCPriorities
SPECIFICATION LiveSpec
CHECK_DEADLOCK FALSE
INVARIANTS
  Consistent
PROPERTIES
  NoInversion
  NodeServed
