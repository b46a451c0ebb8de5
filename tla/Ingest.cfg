SPECIFICATION FairSpec
CONSTANTS
  c1 = c1
  c2 = c2
  k1 = k1
  Clients = {c1, c2}
  Keys = {k1}
  KeyOf <- SameKey
  Ids = {1, 2, 3}
  NoId = NoId
  PoolSize = 2
  Budget <- RareBudget
INVARIANTS TypeOK OneEventPerKey AckedIsDurable OneCreator CacheTruthful DuplicateFindsRows PoolBalanced
PROPERTIES EventuallyAnswered AcceptedIsQueued
CHECK_DEADLOCK FALSE
