SPECIFICATION Spec
CONSTANTS
  w1 = w1
  w2 = w2
  Slots = {w1, w2}
  CB_FAIL_THRESHOLD = 2
  CB_WINDOW_SECONDS = 5
  CB_OPEN_SECONDS = 3
  CB_PROBE_SECONDS = 2
  MaxRun = 2
  MaxCrashes = 0
  MaxLockLosses = 0
INVARIANT OneProbe
