\* One driver that may fall silent and whose handlers may die, two rides, every
\* interleaving of whatever writes the driver's keys.
SPECIFICATION FairSpec
CONSTANTS
    r1 = r1
    r2 = r2
    d1 = d1
    Rides = {r1, r2}
    Drivers = {d1}
    NoDriver = NoDriver
    NoRide = NoRide
    Failures = 2
CHECK_DEADLOCK FALSE
INVARIANTS TypeOK PoolsDisjoint AvailableIsScanned StatusMatchesRide
INVARIANTS HeldRideIsNamed OneTripUnlessUndone
PROPERTIES OffersAsAgreed SilentDriversLeave
