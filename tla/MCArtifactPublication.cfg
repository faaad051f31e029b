SPECIFICATION PublicationSpec
CONSTANTS
  scan1 = scan1
  scan2 = scan2
  report1 = report1
  catalogue = catalogue
  tracked = tracked
  analysis = analysis
  bundle = bundle
  trace1 = trace1
  Foreign = Foreign
  Absent = Absent
  Torn = Torn
  Catalogue = catalogue
  TraceManifest = tracked
  Analysis = analysis
  Bundle = bundle
  Scans <- TwoScans
  Reports <- OneReport
  Calls <- MCCalls
  Paths <- MCPaths
  Plans <- MCPlans
  Traces <- OneTrace
  MaxFiles = 5
  Faults <- AllFaults
  CleanupFails = TRUE
INVARIANTS
  MarkerAccounted
  MarkerLostForAReason
  TracesTracked
PROPERTIES
  ScansNeverSweepUnrelated
  ImplementsBundlePublication
CONSTRAINT FaultBound
SYMMETRY ScanSymmetry
CHECK_DEADLOCK FALSE
