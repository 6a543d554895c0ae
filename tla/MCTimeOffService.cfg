SPECIFICATION Spec
CONSTANTS
  c1 = c1
  c2 = c2
  k1 = k1
  k2 = k2
  i1 = i1
  i2 = i2
  l1 = l1
  l2 = l2
  vacation = vacation
  sick = sick
  NoRow = NoRow
  Clients = {c1, c2}
  Keys = {k1, k2}
  Ids = {i1, i2}
  Lanes = {l1}
  Types = {vacation, sick}
  Payloads <- OneLane
  Totals = {3}
  Ttl = 0
  TicksPerDay = 1
  MaxClock = 1
SYMMETRY Symmetry
INVARIANTS
  TypeOK
  BalanceInvariant
  NoDoubleBooking
  CountersMatchRequests
PROPERTIES
  BookingsAreFinal
  ImplementsLedger
