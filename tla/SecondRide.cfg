SPECIFICATION Spec
CONSTANTS
    NoRequest = NoRequest
    NoKey = NoKey
    Requests = {q1, q2, q3}
    Keys = {k1}
    MaxRequests = 3
    Deaths = 0
    SlowHandlers = FALSE
INVARIANT OneRidePerCustomer
CHECK_DEADLOCK FALSE
