SPECIFICATION ServiceSpec
CONSTANTS
  j1 = j1
  j2 = j2
  Jobs = {j1,j2}
  NoJob = NoJob
  MaxConcurrentVMs = 1
  MaxRetries = 0
  MaxKeys = 1
  MaxRejects = 0
  MaxStops = 1
  DiskMayFail = FALSE
  DeleteMayFail = FALSE
  CreateMayFail = FALSE
  StateFileMayBeLost = FALSE
  MaxStale = 0
PROPERTIES
  OnlyOrphansReaped
