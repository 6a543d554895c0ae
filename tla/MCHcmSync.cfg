SPECIFICATION FairSpec
CONSTANTS
  i1 = i1
  i2 = i2
  w1 = w1
  w2 = w2
  Ids = {i1}
  Workers = {w1, w2}
  MaxRetries = 2
  Take = 1
  Answers = {"valid", "invalid", "null"}
  AnswersGetLost = TRUE
  MaxFaults = 1
CHECK_DEADLOCK FALSE
INVARIANTS
  TypeOK
  DebitNeedsClearance
  DebitNeedsApproval
  SkippedIsWithdrawn
PROPERTIES
  RetriesEnd
