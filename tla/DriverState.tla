----------------------------- MODULE DriverState -----------------------------
(***************************************************************************)
(* The realtime state of drivers in Redis and everything that writes it    *)
(* (driver-state.service.js; releaseDriverAvailability in                  *)
(* ride-state.service.js; ACCEPT_RIDE_SCRIPT).                             *)
(*                                                                         *)
(* goOnline, heartbeat, restoreDriverSession and goOffline run under       *)
(* lock:driver:{driverId}: writer[d] is the one that holds it.  Each reads *)
(* the driver first and writes the whole of it back later.  The accept     *)
(* script, the release of a driver at the end of a ride and the cleaning   *)
(* of ghosts write the same keys and take no lock.  One action is one      *)
(* Redis command, MULTI or script.                                         *)
(*                                                                         *)
(* Of a ride only its assignment is kept; RideDispatch models the rest.    *)
(***************************************************************************)
EXTENDS RideStatus, Naturals

CONSTANTS
    NoRide,         \* no active ride, empty reservation
    Failures        \* bound: handlers that die

ASSUME DriverStateAssumption ==
    /\ NoRide \notin Rides
    /\ Failures \in Nat

VARIABLES
    hash,           \* hash[d]: driver:{d}:state, its status and activeRideId
    activeKey,      \* activeKey[d]: driver:{d}:activeRide
    online,         \* the set drivers:online
    available,      \* drivers:available and drivers:geo:available
    busy,           \* drivers:busy
    heartbeat,      \* drivers whose heartbeat key exists
    reservation,    \* reservation[d]: the ride that driver:{d}:reservation is for
    trip,           \* trip[r]: is the ride dispatching, assigned (to whom) or over
    writer,         \* writer[d]: the holder of lock:driver:{d}
    release,        \* release[r]: releaseDriverAvailability for ride r
    seeker,         \* seeker[r]: the candidate dispatch looks at for ride r
    scan,           \* drivers scanStaleDrivers has still to look at
    stale,          \* the driver it is about to take offline, or NoDriver
    deaths,         \* handlers that died so far
    undone          \* (history) drivers an accept of whom a locked handler that
                    \* had not seen it has written over

driverVars == <<hash, activeKey, online, available, busy, heartbeat, reservation>>
vars == <<hash, activeKey, online, available, busy, heartbeat, reservation,
          trip, writer, release, seeker, scan, stale, deaths, undone>>

-----------------------------------------------------------------------------

NoOne == [status |-> "NONE", active |-> NoRide]
\* missed: an accept has run since the handler last read what it goes by.
Unlocked == [pc |-> "idle", op |-> "none", seen |-> NoOne, key |-> NoRide,
             missed |-> FALSE]
Unreleased == [pc |-> "idle", status |-> "NONE", mine |-> FALSE, beat |-> FALSE]
NoCandidate == [pc |-> "idle", driver |-> NoDriver]

Put(s, d, in) == IF in THEN s \union {d} ELSE s \ {d}

Init ==
    /\ hash = [d \in Drivers |-> NoOne]
    /\ activeKey = [d \in Drivers |-> NoRide]
    /\ online = {}
    /\ available = {}
    /\ busy = {}
    /\ heartbeat = {}
    /\ reservation = [d \in Drivers |-> NoRide]
    /\ trip = [r \in Rides |-> [phase |-> "open", driver |-> NoDriver]]
    /\ writer = [d \in Drivers |-> Unlocked]
    /\ release = [r \in Rides |-> Unreleased]
    /\ seeker = [r \in Rides |-> NoCandidate]
    /\ scan = {}
    /\ stale = NoDriver
    /\ deaths = 0
    /\ undone = {}

-----------------------------------------------------------------------------
\* The locked handlers.

\* Mutant: a busy driver is left in the available pool.
PersistKeepsPool(d, st, ride) ==
    /\ hash' = [hash EXCEPT ![d] = [status |-> st, active |-> ride]]
    /\ activeKey' = [activeKey EXCEPT ![d] = ride]
    /\ online' = online \union {d}
    /\ heartbeat' = heartbeat \union {d}
    /\ available' = IF st = "ONLINE" /\ ride = NoRide THEN available \union {d} ELSE available
    /\ busy' = Put(busy, d, st = "BUSY")
    /\ UNCHANGED reservation

\* persistDriverRealtimeState.
Persist(d, st, ride) ==
    /\ hash' = [hash EXCEPT ![d] = [status |-> st, active |-> ride]]
    /\ activeKey' = [activeKey EXCEPT ![d] = ride]
    /\ online' = online \union {d}
    /\ heartbeat' = heartbeat \union {d}
    /\ available' = Put(available, d, st = "ONLINE" /\ ride = NoRide)
    /\ busy' = Put(busy, d, st = "BUSY")
    /\ UNCHANGED reservation

\* A handler takes the lock; heartbeat stands for restoreDriverSession too,
\* which differs in the socket id only.
Lock(d, op) ==
    /\ writer[d].pc = "idle"
    /\ writer' = [writer EXCEPT ![d] = [Unlocked EXCEPT !.op = op, !.pc = "readHash"]]
    /\ UNCHANGED <<driverVars, trip, release, seeker, scan, deaths, undone>>

Begin(d) ==
    /\ \E op \in {"goOnline", "heartbeat", "goOffline"} : Lock(d, op)
    /\ UNCHANGED stale

\* Mutant: a heartbeat does not ask whether the driver is registered.
ReadHashAnyway(d) ==
    /\ writer[d].pc = "readHash"
    /\ writer' = [writer EXCEPT ![d] = [writer[d] EXCEPT !.seen = hash[d],
                    !.pc = IF writer[d].op = "heartbeat" THEN "write" ELSE "readKey"]]
    /\ UNCHANGED <<driverVars, trip, release, seeker, scan, stale, deaths, undone>>

\* A heartbeat of a driver that is offline, or unknown, ends here.
ReadHash(d) ==
    LET h == hash[d]
    IN  /\ writer[d].pc = "readHash"
        /\ writer' = [writer EXCEPT ![d] =
             IF writer[d].op = "heartbeat"
             THEN IF h.status \in {"NONE", "OFFLINE"} THEN Unlocked
                  ELSE [writer[d] EXCEPT !.seen = h, !.pc = "write"]
             ELSE [writer[d] EXCEPT !.seen = h, !.pc = "readKey"]]
        /\ UNCHANGED <<driverVars, trip, release, seeker, scan, stale, deaths, undone>>

ReadKey(d) ==
    /\ writer[d].pc = "readKey"
    /\ writer' = [writer EXCEPT ![d].key = activeKey[d], ![d].pc = "write"]
    /\ UNCHANGED <<driverVars, trip, release, seeker, scan, stale, deaths, undone>>

\* Mutant: goOnline and goOffline forget the active ride.
ForgetRide(w) == NoRide

\* The active ride goOnline and goOffline go by: the key, or else the hash.
ActiveRide(w) == IF w.key # NoRide THEN w.key ELSE w.seen.active

Writes(d, op) ==
    /\ writer[d].pc = "write"
    /\ writer[d].op = op
    /\ writer' = [writer EXCEPT ![d] = Unlocked]
    /\ undone' = IF writer[d].missed THEN undone \union {d} ELSE undone
    /\ UNCHANGED <<trip, release, seeker, scan, stale, deaths>>

WriteOnline(d) ==
    LET ride == ActiveRide(writer[d])
    IN  /\ Writes(d, "goOnline")
        /\ Persist(d, IF ride = NoRide THEN "ONLINE" ELSE "BUSY", ride)

\* The status and the ride are written back as they were read.
WriteHeartbeat(d) ==
    /\ Writes(d, "heartbeat")
    /\ Persist(d, writer[d].seen.status, writer[d].seen.active)

\* Mutant: going offline leaves the driver in the available pool.
OfflineKeepsPool(d) ==
    /\ Writes(d, "goOffline")
    /\ hash' = [hash EXCEPT ![d] = [status |-> "OFFLINE", active |-> ActiveRide(writer[d])]]
    /\ online' = online \ {d}
    /\ busy' = busy \ {d}
    /\ heartbeat' = heartbeat \ {d}
    /\ reservation' = [reservation EXCEPT ![d] = NoRide]
    /\ UNCHANGED <<activeKey, available>>

\* The active-ride key stays.
WriteOffline(d) ==
    /\ Writes(d, "goOffline")
    /\ hash' = [hash EXCEPT ![d] = [status |-> "OFFLINE", active |-> ActiveRide(writer[d])]]
    /\ online' = online \ {d}
    /\ available' = available \ {d}
    /\ busy' = busy \ {d}
    /\ heartbeat' = heartbeat \ {d}
    /\ reservation' = [reservation EXCEPT ![d] = NoRide]
    /\ UNCHANGED activeKey

-----------------------------------------------------------------------------
\* scanStaleDrivers.

ScanStarts ==
    /\ scan = {}
    /\ stale = NoDriver
    /\ scan' = online
    /\ UNCHANGED <<driverVars, trip, writer, release, seeker, stale, deaths, undone>>

\* EXISTS of the heartbeat key.
ScanLooks(d) ==
    /\ stale = NoDriver
    /\ d \in scan
    /\ scan' = scan \ {d}
    /\ stale' = IF d \in heartbeat THEN NoDriver ELSE d
    /\ UNCHANGED <<driverVars, trip, writer, release, seeker, deaths, undone>>

\* goOffline; the scan goes on with other drivers, which do not meet this one.
ScanDrops ==
    /\ stale # NoDriver
    /\ Lock(stale, "goOffline")
    /\ stale' = NoDriver

\* The driver's lock is taken: DRIVER_LOCKED ends the whole scan.
ScanFails ==
    /\ stale # NoDriver
    /\ writer[stale].pc # "idle"
    /\ stale' = NoDriver
    /\ scan' = {}
    /\ UNCHANGED <<driverVars, trip, writer, release, seeker, deaths, undone>>

-----------------------------------------------------------------------------
\* Offers: GEOSEARCH, isDriverReservable, the reservation.

Seek(r, c) ==
    /\ seeker' = [seeker EXCEPT ![r] = c]
    /\ UNCHANGED <<trip, writer, release, scan, stale, deaths, undone>>

\* Mutant: dispatch searches for a ride whatever has become of it.
FindForAnyRide(r, d) ==
    /\ seeker[r].pc = "idle"
    /\ d \in available
    /\ Seek(r, [pc |-> "check", driver |-> d])
    /\ UNCHANGED driverVars

\* A search that has begun goes on when a driver accepts meanwhile.
FindDriver(r, d) ==
    /\ seeker[r].pc = "idle"
    /\ trip[r].phase # "over"
    /\ d \in available
    /\ Seek(r, [pc |-> "check", driver |-> d])
    /\ UNCHANGED driverVars

IsGhost(d) == hash[d].status = "NONE" \/ d \notin heartbeat

\* A candidate on its reject cooldown is not told from one dispatch gives up.
Reservable(d) ==
    /\ hash[d].status = "ONLINE"
    /\ activeKey[d] = NoRide
    /\ reservation[d] = NoRide

CheckDriver(r) ==
    LET d == seeker[r].driver
    IN  /\ seeker[r].pc = "check"
        /\ Seek(r, IF IsGhost(d) THEN [seeker[r] EXCEPT !.pc = "ghost"]
                   ELSE IF Reservable(d) THEN [seeker[r] EXCEPT !.pc = "reserve"]
                   ELSE NoCandidate)
        /\ UNCHANGED driverVars

\* cleanupGhostAvailability.
CleanGhost(r) ==
    LET d == seeker[r].driver
    IN  /\ seeker[r].pc = "ghost"
        /\ Seek(r, NoCandidate)
        /\ online' = online \ {d}
        /\ available' = available \ {d}
        /\ busy' = busy \ {d}
        /\ heartbeat' = heartbeat \ {d}
        /\ reservation' = [reservation EXCEPT ![d] = NoRide]
        /\ UNCHANGED <<hash, activeKey>>

\* SET NX: a reserved driver is passed over.
Reserve(r) ==
    LET d == seeker[r].driver
    IN  /\ seeker[r].pc = "reserve"
        /\ Seek(r, NoCandidate)
        /\ reservation' = IF reservation[d] = NoRide
                          THEN [reservation EXCEPT ![d] = r] ELSE reservation
        /\ UNCHANGED <<hash, activeKey, online, available, busy, heartbeat>>

\* An offer ends without an accept of this driver: answer, timeout, expiry.
Withdraw(d) ==
    /\ reservation[d] # NoRide
    /\ reservation' = [reservation EXCEPT ![d] = NoRide]
    /\ UNCHANGED <<hash, activeKey, online, available, busy, heartbeat,
                   trip, writer, release, seeker, scan, stale, deaths, undone>>

-----------------------------------------------------------------------------
\* ACCEPT_RIDE_SCRIPT, as far as the driver goes.

\* Mutant: the active ride of the driver is not looked at.
AcceptByStatus(r, d) ==
    /\ trip[r].phase = "open"
    /\ reservation[d] = r
    /\ hash[d].status \in {"ONLINE", "BUSY"}

AcceptGuard(r, d) ==
    /\ trip[r].phase = "open"
    /\ reservation[d] = r
    /\ hash[d].status = "ONLINE"
    /\ activeKey[d] \in {NoRide, r}

Accept(r, d) ==
    /\ AcceptGuard(r, d)
    /\ trip' = [trip EXCEPT ![r] = [phase |-> "assigned", driver |-> d]]
    /\ hash' = [hash EXCEPT ![d] = [status |-> "BUSY", active |-> r]]
    /\ activeKey' = [activeKey EXCEPT ![d] = r]
    /\ available' = available \ {d}
    /\ busy' = busy \union {d}
    /\ reservation' = [reservation EXCEPT ![d] = NoRide]
    /\ writer' = [writer EXCEPT ![d].missed = @ \/ writer[d].pc = "write"]
    /\ UNCHANGED <<online, heartbeat, release, seeker, scan, stale, deaths, undone>>

-----------------------------------------------------------------------------
\* The end of a ride: releaseDriverAvailability.

\* The terminal status is written, under the ride's lock as the search is; a
\* ride with a driver goes on to release it.
EndRide(r) ==
    /\ trip[r].phase # "over"
    /\ seeker[r].pc = "idle"
    /\ trip' = [trip EXCEPT ![r].phase = "over"]
    /\ release' = IF trip[r].driver = NoDriver THEN release
                  ELSE [release EXCEPT ![r].pc = "readHash"]
    /\ UNCHANGED <<driverVars, writer, seeker, scan, stale, deaths, undone>>

Releasing(r, from, rec) ==
    /\ release[r].pc = from
    /\ release' = [release EXCEPT ![r] = rec]
    /\ UNCHANGED <<trip, writer, seeker, scan, stale, deaths, undone>>

ReleaseReadsHash(r) ==
    /\ Releasing(r, "readHash",
                 [release[r] EXCEPT !.status = hash[trip[r].driver].status, !.pc = "readKey"])
    /\ UNCHANGED driverVars

ReleaseReadsKey(r) ==
    /\ Releasing(r, "readKey",
                 [release[r] EXCEPT !.mine = (activeKey[trip[r].driver] = r), !.pc = "readBeat"])
    /\ UNCHANGED driverVars

ReleaseReadsBeat(r) ==
    /\ Releasing(r, "readBeat",
                 [release[r] EXCEPT !.beat = (trip[r].driver \in heartbeat), !.pc = "write"])
    /\ UNCHANGED driverVars

\* Mutant: the driver is made available without being put online.
ReleaseNotOnline(r) ==
    LET d == trip[r].driver
        back == release[r].beat /\ release[r].status \notin {"NONE", "OFFLINE"}
    IN  /\ Releasing(r, "write", Unreleased)
        /\ hash' = [hash EXCEPT ![d] = [status |-> IF back THEN "ONLINE" ELSE "OFFLINE",
                                        active |-> NoRide]]
        /\ activeKey' = IF release[r].mine THEN [activeKey EXCEPT ![d] = NoRide] ELSE activeKey
        /\ busy' = busy \ {d}
        /\ available' = IF back THEN available \union {d} ELSE available
        /\ UNCHANGED <<online, heartbeat, reservation>>

\* Mutant: the active-ride field of the hash is left.
ReleaseKeepsRide(r) ==
    LET d == trip[r].driver
        back == release[r].beat /\ release[r].status \notin {"NONE", "OFFLINE"}
    IN  /\ Releasing(r, "write", Unreleased)
        /\ hash' = [hash EXCEPT ![d].status = IF back THEN "ONLINE" ELSE "OFFLINE"]
        /\ activeKey' = IF release[r].mine THEN [activeKey EXCEPT ![d] = NoRide] ELSE activeKey
        /\ busy' = busy \ {d}
        /\ online' = IF back THEN online \union {d} ELSE online
        /\ available' = IF back THEN available \union {d} ELSE available
        /\ UNCHANGED <<heartbeat, reservation>>

ReleaseWrites(r) ==
    LET d == trip[r].driver
        back == release[r].beat /\ release[r].status \notin {"NONE", "OFFLINE"}
    IN  /\ Releasing(r, "write", Unreleased)
        /\ hash' = [hash EXCEPT ![d] = [status |-> IF back THEN "ONLINE" ELSE "OFFLINE",
                                        active |-> NoRide]]
        /\ activeKey' = IF release[r].mine THEN [activeKey EXCEPT ![d] = NoRide] ELSE activeKey
        /\ busy' = busy \ {d}
        /\ online' = IF back THEN online \union {d} ELSE online
        /\ available' = IF back THEN available \union {d} ELSE available
        /\ UNCHANGED <<heartbeat, reservation>>

-----------------------------------------------------------------------------
\* Around the handlers.

HeartbeatLapses(d) ==
    /\ d \in heartbeat
    /\ heartbeat' = heartbeat \ {d}
    /\ UNCHANGED <<hash, activeKey, online, available, busy, reservation,
                   trip, writer, release, seeker, scan, stale, deaths, undone>>

\* A process dies, or a Redis call throws, between two calls: the lock goes,
\* and the release of a driver is not finished.
WriterDies(d) ==
    /\ deaths < Failures
    /\ writer[d].pc # "idle"
    /\ writer' = [writer EXCEPT ![d] = Unlocked]
    /\ deaths' = deaths + 1
    /\ UNCHANGED <<driverVars, trip, release, seeker, scan, stale, undone>>

ReleaseDies(r) ==
    /\ deaths < Failures
    /\ release[r].pc # "idle"
    /\ release' = [release EXCEPT ![r] = Unreleased]
    /\ deaths' = deaths + 1
    /\ UNCHANGED <<driverVars, trip, writer, seeker, scan, stale, undone>>

\* The process that looks for a driver dies; the ride may be dispatched again.
SeekerDies(r) ==
    /\ deaths < Failures
    /\ seeker[r].pc # "idle"
    /\ seeker' = [seeker EXCEPT ![r] = NoCandidate]
    /\ deaths' = deaths + 1
    /\ UNCHANGED <<driverVars, trip, writer, release, scan, stale, undone>>

WriterStep(d) ==
    ReadHash(d) \/ ReadKey(d) \/ WriteOnline(d) \/ WriteHeartbeat(d) \/ WriteOffline(d)

ReleaseStep(r) ==
    \/ ReleaseReadsHash(r) \/ ReleaseReadsKey(r) \/ ReleaseReadsBeat(r) \/ ReleaseWrites(r)

ScanStep == ScanStarts \/ ScanDrops \/ ScanFails \/ \E d \in Drivers : ScanLooks(d)

SeekStep(r) ==
    \/ \E d \in Drivers : FindDriver(r, d)
    \/ CheckDriver(r) \/ CleanGhost(r) \/ Reserve(r)

Next ==
    \/ \E d \in Drivers : \/ Begin(d) \/ WriterStep(d) \/ Withdraw(d)
                          \/ HeartbeatLapses(d) \/ WriterDies(d)
    \/ \E r \in Rides : \/ SeekStep(r) \/ SeekerDies(r)
                        \/ EndRide(r) \/ ReleaseStep(r) \/ ReleaseDies(r)
    \/ \E r \in Rides, d \in Drivers : Accept(r, d)
    \/ ScanStep

Spec == Init /\ [][Next]_vars

\* A handler that has begun goes on, and the reconciliation worker repeats its
\* scan (registerRepeatableJobs).  Nothing else is owed: drivers, customers and
\* heartbeats may do anything or nothing.
FairSpec ==
    /\ Spec
    /\ WF_vars(ScanStep)
    /\ \A d \in Drivers : WF_vars(WriterStep(d))

-----------------------------------------------------------------------------
\* Types and safety.

DriverStatuses == {"ONLINE", "BUSY", "OFFLINE"}
SomeRide == Rides \union {NoRide}
HashType == [status : DriverStatuses \union {"NONE"}, active : SomeRide]
TripType == [phase : {"open", "assigned", "over"}, driver : Drivers \union {NoDriver}]
WriterType ==
    [pc : {"idle", "readHash", "readKey", "write"},
     op : {"none", "goOnline", "heartbeat", "goOffline"}, seen : HashType, key : SomeRide,
     missed : BOOLEAN]
ReleaseType ==
    [pc : {"idle", "readHash", "readKey", "readBeat", "write"},
     status : DriverStatuses \union {"NONE"}, mine : BOOLEAN, beat : BOOLEAN]
SeekerType ==
    [pc : {"idle", "check", "ghost", "reserve"}, driver : Drivers \union {NoDriver}]

\* Every variable keeps its type, and whoever is in one of the sets has a hash:
\* no request creates half a driver.
TypeOK ==
    /\ hash \in [Drivers -> HashType]
    /\ activeKey \in [Drivers -> SomeRide]
    /\ online \in SUBSET Drivers
    /\ available \in SUBSET Drivers
    /\ busy \in SUBSET Drivers
    /\ heartbeat \in SUBSET Drivers
    /\ reservation \in [Drivers -> SomeRide]
    /\ trip \in [Rides -> TripType]
    /\ writer \in [Drivers -> WriterType]
    /\ release \in [Rides -> ReleaseType]
    /\ seeker \in [Rides -> SeekerType]
    /\ scan \in SUBSET Drivers
    /\ stale \in Drivers \union {NoDriver}
    /\ deaths \in 0..Failures
    /\ undone \in SUBSET Drivers
    /\ \A d \in online \union busy : hash[d].status # "NONE"

\* No driver is in the pool dispatch searches and in the busy set at once,
\* whichever of its five writers wrote last.
PoolsDisjoint == available \intersect busy = {}

\* Whoever is in the pool is in the set the stale-driver scan goes through: no
\* order of release, going offline and cleaning leaves a driver on offer that
\* no scan would ever take off.
AvailableIsScanned == available \subseteq online

\* The status and the active ride of a driver's hash agree, although handlers
\* write back what they read of them before an accept or a release.
StatusMatchesRide ==
    \A d \in Drivers :
        /\ hash[d].status = "BUSY" => hash[d].active # NoRide
        /\ hash[d].status = "ONLINE" => hash[d].active = NoRide

\* Driver d carries out ride r.
Drives(d, r) == trip[r].phase = "assigned" /\ trip[r].driver = d

\* No driver carries out two rides: "Locks, idempotency keys, and one Lua script
\* are used to prevent double assignment" (acceptRide).
NoDoubleAssignment ==
    \A d \in Drivers, r1, r2 \in Rides : Drives(d, r1) /\ Drives(d, r2) => r1 = r2

\* The same, as far as it is true: no locked handler of the driver has written
\* back what it read of it before an accept.
OneTripUnlessUndone ==
    \A d \in Drivers \ undone, r1, r2 \in Rides :
        Drives(d, r1) /\ Drives(d, r2) => r1 = r2

\* Driver d carries out r, or the release of it from r is not finished.
Held(d, r) ==
    /\ trip[r].driver = d
    /\ trip[r].phase = "assigned" \/ release[r].pc # "idle"

\* The driver's key and hash name r, and so does what a locked handler that has
\* missed no accept goes by.
Named(d, r) ==
    LET w == writer[d] IN
    /\ activeKey[d] = r
    /\ hash[d].active = r
    /\ w.pc = "write" /\ ~w.missed =>
         (IF w.op = "heartbeat" THEN w.seen.active ELSE w.key) = r

\* As long as a ride holds its driver, all that is kept or read of the driver
\* names it, whichever handlers, releases and deaths it meets, unless a handler
\* wrote over an accept; therefore the accept script refuses any other ride.
HeldRideIsNamed ==
    \A d \in Drivers \ undone, r \in Rides : Held(d, r) => Named(d, r)

Offers == INSTANCE DriverOffers

\* Whatever becomes of drivers meanwhile, they are reserved and assigned as
\* DriverOffers says, which RideDispatch implements from the side of the rides:
\* what a handler reads of a driver, however old, gets it reserved once only,
\* and never for a ride that is over.
OffersAsAgreed == Offers!Spec

-----------------------------------------------------------------------------
\* Liveness.

\* The driver's heartbeat key is gone and none of its requests is under way.
Silent(d) == d \notin heartbeat /\ writer[d].op \notin {"goOnline", "heartbeat"}

\* A driver that falls silent for good is off the pool for good: the scan takes
\* it offline, also when the end of a ride puts it back into the pool.
SilentDriversLeave ==
    \A d \in Drivers : <>[]Silent(d) => <>[](d \notin available)
=============================================================================
