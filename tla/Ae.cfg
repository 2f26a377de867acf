CONSTANTS
    MaxSize = 2
    MaxTimers = 2
    Delays <- MCDelays
    Periods <- MCPeriods
    NoMore = NoMore
    Slow = FALSE
    MaxBack = 1

SPECIFICATION FairSpec

INVARIANTS
    TypeOK
    MaxfdExact
    PassComplete
    
    OncePerPass

PROPERTIES
    EveryTimerRuns
