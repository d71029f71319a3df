SPECIFICATION ServiceSpec
CONSTANTS
  j1 = j1
  Jobs = {j1}
  NoJob = NoJob
  MaxConcurrentVMs = 1
  MaxRetries = 0
  MaxKeys = 3
  MaxRejects = 0
  MaxStops = 1
  DiskMayFail = TRUE
  DeleteMayFail = FALSE
  CreateMayFail = TRUE
  StateFileMayBeLost = TRUE
  MaxStale = 1
INVARIANTS
  SweepTypeOK
  NoLeakUnlessStale
  OneVMUnlessStopped
PROPERTIES
  OnlyOrphansReaped
