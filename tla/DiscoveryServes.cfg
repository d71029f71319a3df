SPECIFICATION FairSpec
CONSTANTS
  a = a
  b = b
  Repos = {a,b}
  MaxRuns = 1
  MaxJobs = 1
  Scopes = {"org", "all"}
  MaxRepos = 2
  MaxFaults = 1
INVARIANTS
  TypeOK
  GateHidesNoJob
PROPERTIES
  HealthyReposServed
