SPECIFICATION Spec
CONSTANTS
  a1 = a1
  a2 = a2
  r1 = r1
  r2 = r2
  None = None
  Accounts = {a1}
  Totals <- Uneven
  Seeds <- Uneven
  Runs = {r1, r2}
  Scheduled = {r1}
  SaveMayFail = FALSE
  MaxTriggers = 0
INVARIANTS
  BalanceInvariant
