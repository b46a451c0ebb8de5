SPECIFICATION Spec
CONSTANTS
  Ids = {1, 2, 3}
  Limit = 1
  PerMs = 2
  Filters <- MCFilters
  StartTables <- MCTables
  MaxWrites = 2
  MaxFlight = 2
  MaxFailures = 1
INVARIANT WalkSkipsNothing
CHECK_DEADLOCK FALSE
