SPECIFICATION Spec
CONSTANTS
  w1 = w1
  w2 = w2
  Workers = {w1, w2}
  RetryJobs = {}
  MaxAttempts = 1
  FailureOutcomes = {}
  Budget <- LockLossBudget
SYMMETRY SlotSymmetry
INVARIANTS AttemptLedger SuccessBacked
PROPERTIES RefinesTrail
CHECK_DEADLOCK FALSE
