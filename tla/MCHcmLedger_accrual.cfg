SPECIFICATION Spec
CONSTANTS
  i1 = i1
  i2 = i2
  None = None
  Requests = {i1, i2}
  Days <- OneDay
  Total = 1
  Seeds = {1}
  Grants = {1}
  TxMayFail = FALSE
  MaxEntitled = 2
  MaxDebits = 1
SYMMETRY Alike
INVARIANTS
  AccrualsArrive
