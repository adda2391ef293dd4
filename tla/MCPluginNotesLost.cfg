CONSTANTS
  Store = {s1}
  MaxRuns = 1
  MaxPeople = 0
  MaxCrashes = 0
SPECIFICATION Spec
INVARIANTS
  RunnersRemovalsAreTold
CHECK_DEADLOCK FALSE
