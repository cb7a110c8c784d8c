\* A customer that keeps its connection, two servers, a ride of four versions:
\* a cancel that read the ride before an accept.
SPECIFICATION Spec
CONSTANTS
    Servers = {s1, s2}
    NoServer = NoServer
    MaxVersion = 4
    Drops = 0
    Losses = 0
INVARIANT EndIsTold
CHECK_DEADLOCK FALSE
