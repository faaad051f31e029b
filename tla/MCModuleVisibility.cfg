SPECIFICATION FairSpec
CONSTANTS
  a = a
  b = b
  c = c
  p = p
  q = q
  Modules = {a, b, c}
  Classes = {p, q}
  Order <- InOrder
  Graphs <- TheGraphs
INVARIANTS
  ExportsLeast
  IncompleteForAReason
  CompleteWithoutCycles
PROPERTIES
  Resolves
CHECK_DEADLOCK FALSE
