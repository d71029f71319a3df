SPECIFICATION FairSpec
CONSTANTS
  j1 = j1
  Jobs = {j1}
  MaxRetries = 1
  MaxStagings = 2
  MaxFaults = 1
  GitHubMayFail = TRUE
  ExecMayFail = FALSE
  RunnerMayFail = TRUE
  ScriptMayLag = FALSE
  UnlistedMayCome = TRUE
PROPERTIES
  CompleteMeansClaimed
  VMsGo
  LeftoversRemoved
  JobsServed
