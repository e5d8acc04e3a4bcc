SPECIFICATION FairSpec
CONSTANTS
  n1 = n1
  n2 = n2
  h1 = h1
  NoNode = NoNode
  Nodes <- OneNode
  Handlers <- OneWriter
  ChanCap = 6
  CertsPerHello = 1
  MaxConfig = 1
  MaxStreams = 2
  MaxRestarts = 1
CHECK_DEADLOCK FALSE
INVARIANTS OnlyConnectLeavesStale
PROPERTIES EveryBroadcastArrives ConnectedAgentGetsPolicy
