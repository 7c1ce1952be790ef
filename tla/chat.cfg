CONSTANTS
  Users = {buyer, seller}
  Members = {buyer, seller}
  Nodes = {n1, n2}
  Handlers = {h1, h2}
  PageSize = 1
  MaxMessages = 2
  Off = Off
SPECIFICATION Spec
SYMMETRY MCSymmetry
INVARIANTS
  RoomInv
  NoGap
CHECK_DEADLOCK FALSE
