SPECIFICATION Spec
CONSTANTS
  a = a
  b = b
  x = x
  y = y
  Services <- TwoServices
  PlainRules = 1
  IPs <- PodIPs
  PodCIDR <- PodIPs
  Members <- OnePodEach
  Policies <- DenyPolicies
  ChanCap = 1
  MapCap = 8
INVARIANTS NoWronglyBlockedWindow
