SPECIFICATION FairSpec
CONSTANTS
  r1 = r1
  r2 = r2
  r3 = r3
  r4 = r4
  node = node
  svc = svc
  NoFile = NoFile
  Torn = Torn
  NoCert = NoCert
  Roots <- FourRoots
  Node = node
  Names <- TwoNames
  Lifetime = 2
  MaxCrashes = 2
  MaxLosses = 1
  MaxDrops = 2
CHECK_DEADLOCK FALSE
INVARIANTS TypeOK TrustKept NeverUpgradesEmpty
PROPERTIES AgentSettles SigilComesBack
