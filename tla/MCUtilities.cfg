SPECIFICATION Spec
CONSTANTS
  None = None
  Callers = {c1, c2, c3}
  Keys = {k1, k2}
  Ttls = {1, 2}
  Tasks = {t1, t2, t3}
  Payloads = {p1, p2}
  Ttl = 2
  windowMs = 3
  maxRequests = 2
  capacity = 3
  refillRate = 1
  Costs = {1, 2}
  MaxClock = 6
SYMMETRY Symmetry
INVARIANTS
  LeaseIsExclusive
  FailureIsNotCached
  FreshTaskIsShared
  InFlightIsKept
  RateIsBounded
