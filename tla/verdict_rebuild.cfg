SPECIFICATION Spec
CONSTANTS
  a = a
  b = b
  x = x
  y = y
  Services <- TwoServices
  PlainRules = 1
  IPs <- PodIPs
  PodCIDR <- PodIPs
  Members <- SharedIP
  Policies <- TwoPolicies
  ChanCap = 1
  MapCap = 2
INVARIANTS TypeOK QuietMeansEnforced OldNewOrDefault
PROPERTIES FollowsPolicy FollowsPods
