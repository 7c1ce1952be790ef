CONSTANTS
  Users = {buyer, seller}
  Members = {buyer, seller}
  Nodes = {n1, n2}
  Handlers = {h1}
  PageSize = 1
  MaxMessages = 1
  Off = Off
SPECIFICATION Spec
SYMMETRY MCSymmetry
INVARIANT RoomSpansNodes
CHECK_DEADLOCK FALSE
