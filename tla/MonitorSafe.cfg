SPECIFICATION Spec
CONSTANTS
  j1 = j1
  Jobs = {j1}
  MaxRetries = 1
  MaxStagings = 2
  MaxFaults = 2
  GitHubMayFail = FALSE
  ExecMayFail = TRUE
  RunnerMayFail = TRUE
  ScriptMayLag = TRUE
  UnlistedMayCome = TRUE
INVARIANTS
  TypeOK
PROPERTIES
  KeepsContract
  GivesUpNoRegistered
