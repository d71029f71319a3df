SPECIFICATION FairSpec
CONSTANTS
  CallTime = 1
  ProvisionTime = 1
  ReadyPoll = 1
  BootTime = 1
  PickupTime = 1
  JobTime = 5
  Interval = 2
  DeleteTime = 1
  MaxWait = 1
  RetryPause = 1
  MaxRetries = 1
  MaxStops = 1
INVARIANTS
  TypeOK
  CostIsCapped
  IdleIsCapped
PROPERTY JobEnds
CHECK_DEADLOCK FALSE
