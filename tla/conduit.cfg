SPECIFICATION FairSpec
CONSTANTS
  c1 = c1
  c2 = c2
  alert = alert
  Conns <- TwoConns
  Services <- OneService
  AlertNames <- OneService
  Lifetime = 1
  QueueCap = 1
  MaxCrashes = 1
INVARIANTS TypeOK  CountedAtMostOnce
PROPERTIES ReportsAtMostOnce SessionsEndTogether
