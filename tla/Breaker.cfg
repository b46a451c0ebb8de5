SPECIFICATION FairSpec
CONSTANTS
  w1 = w1
  w2 = w2
  Slots = {w1, w2}
  CB_FAIL_THRESHOLD = 2
  CB_WINDOW_SECONDS = 5
  CB_OPEN_SECONDS = 2
  CB_PROBE_SECONDS = 2
  MaxRun = 3
  MaxCrashes = 2
  MaxLockLosses = 1
INVARIANTS TypeOK ProbeAlone OvershootBounded
PROPERTIES Recovers
