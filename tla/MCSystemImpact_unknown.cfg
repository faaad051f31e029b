SPECIFICATION MCSpec
CONSTANTS
  p = p
  q = q
  r = r
  c = c
  d = d
  api = api
  worker = worker
  shadow = shadow
  red = red
  blue = blue
  Null = Null
  Producers = {p, q, r}
  Consumers = {c, d}
  Truths <- TheTruths
  Sights <- TheSights
  Touched <- TheTouched
  Leads <- TheLeads
  Systems <- Arrangements
  Limits <- SomeLimits
INVARIANTS
  UnknownIsNotAbsent
CHECK_DEADLOCK FALSE
