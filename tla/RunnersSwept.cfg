SPECIFICATION FairSpec
CONSTANTS
  a = a
  b = b
  Repos = {a, b}
  Broken = {b}
  Scopes = {"all", "fixed"}
  MaxRunners = 3
  PageSize = 1
  MaxPages = 2
  MaxFaults = 1
INVARIANTS
  TypeOK
  MissesAreShifts
PROPERTY LeftoversSwept
