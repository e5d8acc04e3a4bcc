SPECIFICATION Spec
CONSTANTS
  n1 = n1
  n2 = n2
  a = a
  b = b
  p1 = p1
  Services <- OneService
  Nodes <- TwoNodes
  PodNames <- OnePod
  PodService <- WideService
  PodNode <- WideNode
  Announces <- WideHello
  Lifetime = 3
  RotateAfter = 2
  Rotation = Rotation
  API = API
  Registry = Registry
  Failing <- LoopsMayFail
  NoCert = NoCert
INVARIANTS RenewedBeforeExpiry
