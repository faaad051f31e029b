SPECIFICATION ImpactSpec
CONSTANTS
  m1 = m1
  m2 = m2
  m3 = m3
  i1 = i1
  i2 = i2
  Methods = {m1, m2, m3}
  Interactions = {i1, i2}
  Analyses <- Families
INVARIANTS
  EffectsProven
  NothingSilentlyCut
  TracedIsFound
  FoundIsTraced
CHECK_DEADLOCK FALSE
