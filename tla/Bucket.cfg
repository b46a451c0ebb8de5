SPECIFICATION FairSpec
CONSTANTS
  w1 = w1
  w2 = w2
  w3 = w3
  Slots = {w1, w2, w3}
  RL_MAX_INFLIGHT = 2
  RL_TTL_SECONDS = 3
  MaxHold = 2
  MaxCrashes = 3
  MaxWipes = 2
INVARIANTS TypeOK Conservation OverCapIsTransient
PROPERTIES NeverStarved SelfCorrects
