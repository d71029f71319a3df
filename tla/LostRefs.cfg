SPECIFICATION FairSpec
CONSTANTS
  a = a
  Repos = {a}
  MaxRuns = 1
  MaxJobs = 1
  Scopes = {"org"}
  MaxRepos = 1
  MaxFaults = 1
PROPERTIES
  JobsPickedUp
