SPECIFICATION ReleasesSpec
CONSTANTS
  MaxReleases = 2
  Previews = {}
  Workers = {w1}
  MaxRetries = 3
  MaxFaults = 0
CHECK_DEADLOCK FALSE
INVARIANTS RollbackServes
