SPECIFICATION FairSpec
CONSTANTS
    NoRequest = NoRequest
    NoKey = NoKey
    Requests = {q1, q2}
    Keys = {k1}
    MaxRequests = 1
    Deaths = 1
    SlowHandlers = TRUE
INVARIANTS
    TypeOK
    InsideHoldsLock
    ActiveRideNamed
    OneRidePerEvent
    CounterHasEnd
PROPERTIES
    LimitEnds
    ActiveSetDrains
CHECK_DEADLOCK FALSE
