SPECIFICATION FairSpec
CONSTANTS
  c1 = c1
  c2 = c2
  c3 = c3
  Callers = {c1, c2, c3}
  failureThreshold = 3
  cooldown = 4
  timeout = 2
  maxAttempts = 3
  Results = {"ok", "unavailable", "refused"}
INVARIANTS
  TypeOK
  ClosedIsHealthy
  ProbesDecide
  QuietWhileOpen
PROPERTIES
  OpenWaits
  EveryCallReturns
  Recovers
