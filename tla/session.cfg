CONSTANTS
  Devices = {phone, laptop, tablet}
  MaxTime = 3
SPECIFICATION Spec
SYMMETRY MCSymmetry
INVARIANTS
  SessionInv
  LogoutSticks
  TokenIsHeld
CHECK_DEADLOCK FALSE
