CONSTANTS
  NotScanned = NotScanned
  NoRevision = NoRevision
  base = base
  head = head
  elsewhere = elsewhere
  DeclaredBaseline = base
  DeclaredCandidate = head
  MethodKey <- MCMethodKey
  WriteSlots <- MCWriteSlots
  BaselineHeads <- MCBaselineHeads
  CandidateHeads <- MCCandidateHeads
  AnalysesOf <- MCAnalysesOf
  Configurations <- MCConfigurations
SPECIFICATION Spec
INVARIANTS
  AmbiguityIsAGap
CHECK_DEADLOCK FALSE
