SPECIFICATION FairServiceSpec
CONSTANTS
  j1 = j1
  Jobs = {j1}
  NoJob = NoJob
  MaxConcurrentVMs = 1
  MaxRetries = 0
  MaxKeys = 2
  MaxRejects = 0
  MaxStops = 1
  DiskMayFail = TRUE
  DeleteMayFail = TRUE
  CreateMayFail = TRUE
  StateFileMayBeLost = FALSE
  MaxStale = 0
PROPERTIES
  EveryVMDeleted
  JobsSettle
  ServiceKeepsContract
