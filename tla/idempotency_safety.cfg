CONSTANTS
  login = login
  product = product
  k1 = k1
  id1 = id1
  Absent = Absent
  MaxFailures = 1
  Attempts = {a1, a2, a3}
  Keys = {k1}
  Paths = {login, product}
  Routes <- MCRoutes
  Silent <- MCSilent
  Limited <- MCLimited
  RequestIds = {id1}
  Inputs <- MCAll
  Faults = {"expiry", "storeError", "crash", "resend"}
SPECIFICATION MCSpec
SYMMETRY MCSymmetry
INVARIANTS
  MiddlewareInv
  OverlapBoundedByLapses
  SecondRunNeedsOverlap
  LocksHaveOwners
PROPERTY ImplementsService
CHECK_DEADLOCK FALSE
