SPECIFICATION FairSpec
CONSTANTS
  r1 = r1
  r2 = r2
  r3 = r3
  Requests = {r1, r2, r3}
  Calls = {"c1", "c2"}
  BACKPRESSURE_QUEUE_LIMIT = 1
  QUEUE_DEPTH_CACHE_MS = 3
  ReplyTicks = 1
  MaxDepth = 3
  MaxFailures = 2
INVARIANTS SingleFlight
PROPERTIES VerdictInTime VerdictsKeepComing
