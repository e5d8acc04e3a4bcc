SPECIFICATION Spec
CONSTANTS
  p = p
  q = q
  a = a
  b = b
  x = x
  y = y
  Absent = Absent
  Unready = Unready
  Unknown = Unknown
  Pods <- TwoPods
  Services <- TwoServices
  Addrs <- TwoAddrs
  PodCIDR <- OneInCIDR
  MaxChanges = 3
  MaxFailures = 1
  MaxPackets = 1
CHECK_DEADLOCK FALSE
INVARIANTS TypeOK NoneMissing OnlyMovesLinger AttributedToSender
SYMMETRY NameSymmetry
