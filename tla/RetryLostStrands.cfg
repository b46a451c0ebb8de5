SPECIFICATION FairSpec
CONSTANTS
  w1 = w1
  w2 = w2
  Workers = {w1, w2}
  RetryJobs = {"r1"}
  MaxAttempts = 2
  FailureOutcomes = {"HTTP_ERROR"}
  Budget <- OneRetryCrash
PROPERTIES EventuallySettled
CHECK_DEADLOCK FALSE
