\* An accept between the read and the write of a heartbeat.
SPECIFICATION Spec
CONSTANTS
    r1 = r1
    r2 = r2
    d1 = d1
    Rides = {r1, r2}
    Drivers = {d1}
    NoDriver = NoDriver
    NoRide = NoRide
    Failures = 0
CHECK_DEADLOCK FALSE
INVARIANTS NoDoubleAssignment
