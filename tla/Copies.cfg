SPECIFICATION FairSpec
CONSTANTS
    NoRide = NoRide
    Concurrency = 2
    Rebuilders = {b1, b2}
    MaxWrites = 4
    Mishaps = 2
INVARIANTS TypeOK MongoCatchesUp StatusIsTold EndedStaysEnded
PROPERTIES EndIsSaved WritesAsAgreed
CONSTRAINT Unspoilt
CHECK_DEADLOCK FALSE
