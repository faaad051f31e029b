SPECIFICATION Spec
CONSTANTS
  f = f
  g = g
  h = h
  e = e
  Methods = {f, g, h}
  Others = {e}
  Analyses <- TheAnalyses
  Requests <- TheRequests
  Items <- TheItems
  Key <- TheKey
  MaxResults = 2
  MaxChanges = 2
INVARIANTS
  DependentsFound
  EveryItemOnce
CHECK_DEADLOCK FALSE
