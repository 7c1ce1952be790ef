CONSTANTS
  r1 = r1
  r2 = r2
  r3 = r3
  other = other
  buys = buys
  alice = alice
  bob = bob
  carol = carol
  None = None
  Requests = {r1, r2, r3, other, buys}
  Users = {alice, bob, carol}
  Sellers = {alice, bob}
  UserOf <- MCUserOf
SPECIFICATION Spec
SYMMETRY MCSymmetry
INVARIANTS
  OnboardingInv
  SecondAccountNeedsOverlap
  LinkIsForTheRow
CHECK_DEADLOCK FALSE
