CONSTANTS
  j1 = j1
  c1 = c1
  Jobs = {j1}
  Containers = {c1}
  MaxJobs = 1
  MaxRepair = 1
  Capacity = 1
  MaxRuns = 1
  MaxAttempts = 1
SPECIFICATION FairSpec
INVARIANTS TypeOK StoredAgrees
PROPERTIES SlotsRefined CapacityReturns StopReturns
CHECK_DEADLOCK FALSE
