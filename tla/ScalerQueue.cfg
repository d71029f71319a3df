SPECIFICATION FairSpec
CONSTANTS
  j1 = j1
  j2 = j2
  Jobs = {j1, j2}
  NoJob = NoJob
  MaxConcurrentVMs = 1
  MaxRetries = 0
  MaxKeys = 3
  MaxRejects = 1
  MaxStops = 1
  DiskMayFail = FALSE
  DeleteMayFail = FALSE
  CreateMayFail = FALSE
  StateFileMayBeLost = FALSE
INVARIANTS
  FleetBoundUnlessStopped
  RetryBudget
PROPERTIES
  WorkersSettle
