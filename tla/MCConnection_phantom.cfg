SPECIFICATION Spec
CONSTANTS
  k1 = k1
  k2 = k2
  k3 = k3
  l1 = l1
  l2 = l2
  vacation = vacation
  sick = sick
  None = None
  Sessions = {s1, s2}
  Keys = {k1, k2, k3}
  Body <- Bodies
  Decisions = {"APPROVED", "CANCELLED"}
  Total = 3
INVARIANTS
  CachedIsStored
