\* An accept wins while the timeout of its batch is being worked out.
SPECIFICATION Spec
CONSTANTS
    r1 = r1
    d1 = d1
    Rides = {r1}
    Drivers = {d1}
    NoDriver = NoDriver
    NoRide = NoRide
    BatchSize = 1
    MaxRounds = 1
    InitialRadius = 2
    MaxRadius = 5
    Droppable = {}
    Failures = FALSE
    MaxBatches = 2
    MaxVersion = 5
    MaxAccepts = 1
CHECK_DEADLOCK FALSE
INVARIANTS NoDriversMeansUnassigned
