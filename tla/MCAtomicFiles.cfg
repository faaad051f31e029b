SPECIFICATION FairSpec
CONSTANTS
  c1 = c1
  c2 = c2
  artifact = artifact
  bundle = bundle
  Foreign = Foreign
  Absent = Absent
  Torn = Torn
  Calls <- MCCalls
  Paths <- MCPaths
  Plans <- MCPlans
  MaxFiles = 2
  Faults <- FaultKinds
INVARIANTS
  DestinationsWhole
  RefusalPublishesNothing
  PlanOrder
  NoTemporaryLeft
PROPERTIES
  CommitIgnoresCancellation
  CallsEnd
CHECK_DEADLOCK FALSE
