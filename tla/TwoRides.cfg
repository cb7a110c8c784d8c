\* Two rides compete for one driver that stays online.
SPECIFICATION Spec
CONSTANTS
    r1 = r1
    r2 = r2
    d1 = d1
    Rides = {r1, r2}
    Drivers = {d1}
    NoDriver = NoDriver
    NoRide = NoRide
    BatchSize = 1
    MaxRounds = 2
    InitialRadius = 2
    MaxRadius = 5
    Droppable = {}
    Failures = FALSE
    MaxBatches = 2
    MaxVersion = 4
    MaxAccepts = 1
SYMMETRY IdSymmetry
CHECK_DEADLOCK FALSE
INVARIANTS OfferHoldsReservation
PROPERTIES OffersAsAgreed
