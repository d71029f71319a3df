SPECIFICATION Spec
CONSTANTS
  j1 = j1
  Jobs = {j1}
  NoJob = NoJob
  MaxConcurrentVMs = 1
  MaxRetries = 1
  MaxKeys = 6
  MaxRejects = 0
  MaxStops = 2
  DiskMayFail = TRUE
  DeleteMayFail = TRUE
  CreateMayFail = TRUE
  StateFileMayBeLost = TRUE
INVARIANTS
  TypeOK
  KeyDurable
  NoLeak
  OneVMPerJob
PROPERTIES
  TerminalIsFinal
  KeepsContract
