SPECIFICATION Spec
CONSTANTS
  r1 = r1
  r2 = r2
  r3 = r3
  User = User
  Runs = {r1, r2, r3}
  MaxEdits = 2
INVARIANTS
  WholeFile
  HonestReport
  OneWinner
PROPERTIES
  NeverOverwritten
CHECK_DEADLOCK FALSE
