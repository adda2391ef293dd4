CONSTANTS
  Flush = {f1, f2}
  MAX_ATTEMPTS = 2
  MaxRuns = 1
  MaxFailures = 2
  MaxCrashes = 0
SPECIFICATION Spec
INVARIANTS
  NoRunIsStranded
CHECK_DEADLOCK FALSE
