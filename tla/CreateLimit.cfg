SPECIFICATION FairSpec
CONSTANTS
    Callers = {a, b}
    Burst = 2
    Cost = 2
    RetryAfter = 1
    Second = 1
    Initial = 1
    Longest = 2
    Budget = 4
    MaxLate = 3
    MaxRestarts = 1
INVARIANTS
    TypeOK
    KeepsTheRate
    RefusalsAreExplained
    NobodyOversleeps
PROPERTY EveryCallEnds
CHECK_DEADLOCK FALSE
