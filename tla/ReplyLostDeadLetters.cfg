SPECIFICATION Spec
CONSTANTS
  w1 = w1
  w2 = w2
  Workers = {w1, w2}
  RetryJobs = {}
  MaxAttempts = 2
  FailureOutcomes = {"HTTP_ERROR"}
  Budget <- OneDbFault
PROPERTIES DeliveredIsFinal
CHECK_DEADLOCK FALSE
