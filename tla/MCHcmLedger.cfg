SPECIFICATION Spec
CONSTANTS
  i1 = i1
  i2 = i2
  None = None
  Requests = {i1, i2}
  Days <- OneDay
  Total = 1
  Seeds = {0, 1, 2}
  Grants = {1}
  TxMayFail = TRUE
  MaxEntitled = 2
  MaxDebits = 2
SYMMETRY Alike
INVARIANTS
  ApprovalsAreCovered
  AccrualsArriveFirst
