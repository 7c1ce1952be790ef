CONSTANTS
  login = login
  product = product
  k1 = k1
  id1 = id1
  Absent = Absent
  MaxFailures = 1
  Attempts = {a1, a2}
  Keys = {k1}
  Paths = {login, product}
  Routes <- MCRoutes
  Silent <- MCSilent
  Limited <- MCLimited
  RequestIds = {id1}
  Inputs <- MCPost
  Faults = {}
SPECIFICATION Spec
INVARIANT KeyExecutesOnce
CHECK_DEADLOCK FALSE
