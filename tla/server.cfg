CONSTANTS
  Nodes = {n1, n2}
  Probes = {p1}
  Jobs = {j1}
  None = None
  MaxStalled = 1
  MaxStarts = 3
  MaxOutages = 1
SPECIFICATION FairSpec
INVARIANTS
  ServerInv
  DrainedIsEmpty
  LossesAreRough
PROPERTIES
  ImplementsQueue
  SignalledProcessEnds
  JobsAreFinished
  ProbesAreAnswered
CHECK_DEADLOCK FALSE
