SPECIFICATION Spec
CONSTANTS
  n1 = n1
  n2 = n2
  h1 = h1
  NoNode = NoNode
  Nodes <- TwoNodes
  Handlers <- OneWriter
  ChanCap = 2
  CertsPerHello = 0
  MaxConfig = 2
  MaxStreams = 2
  MaxRestarts = 1
CHECK_DEADLOCK FALSE
INVARIANTS TypeOK BroadcastsUntorn ServedIffRegistered
PROPERTIES BroadcastsInOrder
SYMMETRY NodeSymmetry
