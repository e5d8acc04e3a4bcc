SPECIFICATION Spec
CONSTANTS
  n1 = n1
  n2 = n2
  a = a
  b = b
  p1 = p1
  Services <- TwoServices
  Nodes <- OneNode
  PodNames <- OwnPods
  PodService <- OwnService
  PodNode <- OwnNode
  Announces <- OwnHello
  Lifetime = 3
  RotateAfter = 2
  Rotation = Rotation
  API = API
  Registry = Registry
  Failing <- LoopsMayFail
  NoCert = NoCert
INVARIANTS TypeOK RenewedBeforeExpiry 
