\* One ride, two drivers in one batch that come and go: answers, timeouts,
\* rejections, cancellations and transitions race.
SPECIFICATION Spec
CONSTANTS
    r1 = r1
    d1 = d1
    d2 = d2
    Rides = {r1}
    Drivers = {d1, d2}
    NoDriver = NoDriver
    NoRide = NoRide
    BatchSize = 2
    MaxRounds = 2
    InitialRadius = 2
    MaxRadius = 5
    Droppable = {d1, d2}
    Failures = TRUE
    MaxBatches = 3
    MaxVersion = 5
    MaxAccepts = 2
SYMMETRY IdSymmetry
CHECK_DEADLOCK FALSE
INVARIANTS TypeOK SnapshotsCurrent AcceptWinsItsBatch OneAnswerAccepted PendingListsClean ReservationsReturned
PROPERTIES Lifecycle VersionNeverDecreases WritesAsAgreed
