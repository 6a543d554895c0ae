SPECIFICATION Spec
CONSTANTS
  i1 = i1
  i2 = i2
  w1 = w1
  w2 = w2
  Ids = {i1}
  Workers = {w1}
  MaxRetries = 1
  Take = 1
  Answers = {"valid", "invalid", "null"}
  AnswersGetLost = FALSE
  MaxFaults = 0
CHECK_DEADLOCK FALSE
INVARIANTS
  SuccessIsAcknowledged
