CONSTANTS
  xray = xray
  singbox = singbox
  Jobs = {1, 2, 3}
  CoreNames = {xray, singbox}
  s1 = s1
  s2 = s2
  s3 = s3
  a1 = a1
  Sessions = {s1, s2, s3}
  Admins = {a1}
  k1 = k1
  k2 = k2
  Callers = {k1, k2}
  Conns = {1, 2}
  QueueCap = 1
  MaxCalls = 2
SPECIFICATION RequestsSpec
INVARIANTS OkIsInstalled OwnAnswer NothingLeaks
PROPERTIES NewestStartWins EveryCallReturns ShutLeaves
CHECK_DEADLOCK FALSE
