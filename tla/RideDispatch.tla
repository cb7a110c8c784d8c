---------------------------- MODULE RideDispatch ----------------------------
(***************************************************************************)
(* Dispatch of rides: offers in batches, answers, timeouts and transitions *)
(* (dispatch.service.js, ride-state.service.js, redis/scripts.js).         *)
(*                                                                         *)
(* Every handler but one runs under lock:ride:{rideId}; hold[r] is the     *)
(* handler that holds it, with the next call it makes (pc) and the local   *)
(* variables it carries across its awaits.  One action is one Redis        *)
(* command, or several that no other process can tell apart.  The one      *)
(* handler without the lock is acceptRide: accepts holds the requests in   *)
(* flight, and its Lua script can run between any two calls of the holder. *)
(*                                                                         *)
(* A batch id (a uuid in the code) is the number of batches issued for the *)
(* ride.  Time is reduced to what the code compares: lapsed[r] is the      *)
(* latest batch of r whose currentBatchExpiresAt has passed.               *)
(***************************************************************************)
EXTENDS RideStatus, Naturals, FiniteSets

CONSTANTS
    NoRide,         \* ride of an empty reservation key
    BatchSize,      \* env.dispatch.batchSize
    MaxRounds,      \* env.dispatch.maxRounds
    InitialRadius,  \* env.dispatch.initialSearchRadiusKm
    MaxRadius,      \* env.dispatch.maxSearchRadiusKm
    Droppable,      \* drivers that may go offline while they are offered a ride
    Failures,       \* whether a handler may die between two calls (bound: one
                    \* death for each ride)
    MaxBatches,     \* bound: batches issued for a ride
    MaxVersion,     \* bound: no dispatch or rejection starts at this version
    MaxAccepts      \* bound: accept requests in flight

ASSUME RideDispatchAssumption ==
    /\ NoRide \notin Rides
    /\ BatchSize \in Nat \ {0}
    /\ MaxRounds \in Nat
    /\ InitialRadius \in Nat \ {0}
    /\ MaxRadius \in Nat
    /\ InitialRadius <= MaxRadius
    /\ Droppable \subseteq Drivers
    /\ Failures \in BOOLEAN
    /\ MaxBatches \in Nat
    /\ MaxVersion \in Nat

VARIABLES
    ride,           \* ride[r]: the hash ride:{r}:active
    responses,      \* responses[r][d]: the field d of ride:{r}:responses
    notified,       \* notified[r]: the set ride:{r}:notified
    pending,        \* pending[d]: the set driver:{d}:dispatches
    reservation,    \* reservation[d]: the key driver:{d}:reservation
    cooldown,       \* drivers whose reject-cooldown key exists
    free,           \* drivers ONLINE with no active ride, heartbeat present
    lapsed,         \* lapsed[r]: latest batch whose deadline has passed
    issued,         \* issued[r]: batch ids generated so far
    hold,           \* hold[r]: the handler that holds lock:ride:{r}
    accepts,        \* accept requests in flight
    torn            \* history: rides one of whose handlers died half-way

rideVars == <<ride, responses, notified>>
driverVars == <<pending, reservation, cooldown, free>>
vars == <<ride, responses, notified, pending, reservation, cooldown, free,
          lapsed, issued, hold, accepts, torn>>

-----------------------------------------------------------------------------
\* Values.

NewRide ==
    [status |-> "REQUESTED", driver |-> NoDriver, batch |-> 0,
     batchDrivers |-> {}, round |-> 0, radius |-> InitialRadius,
     version |-> 1, noDrivers |-> FALSE]

NoResponse == [kind |-> "NONE", batch |-> 0]
Pending(b) == [kind |-> "PENDING", batch |-> b]
Answer(k) == [kind |-> k, batch |-> 0]

Token(r, b) == [ride |-> r, batch |-> b]
NoToken == [ride |-> NoRide, batch |-> 0]

Idle ==
    [pc |-> "idle", op |-> "none", snap |-> NewRide, seen |-> {},
     who |-> NoDriver, target |-> "CANCELLED", round |-> 0,
     radius |-> InitialRadius,
     batch |-> 0, todo |-> {}, chosen |-> {}]

At(r, p) == hold[r].pc = p

\* The two updates every handler makes: the hash of its ride, and its own
\* position and locals.
SetRide(r, ri) == ride' = [ride EXCEPT ![r] = ri]
SetHold(r, h) == hold' = [hold EXCEPT ![r] = h]
Goto(r, p) == SetHold(r, [hold[r] EXCEPT !.pc = p])

\* Written as version in every locked update: from the snapshot, not the hash.
NextVersion(r) == hold[r].snap.version + 1

\* The ride hash with its three batch fields cleared.
Cleared(ri) == [ri EXCEPT !.batch = 0, !.batchDrivers = {}]

\* releaseLock: a reservation goes only if it still holds this token.
Released(ds, t) ==
    [d \in Drivers |-> IF d \in ds /\ reservation[d] = t
                       THEN NoToken ELSE reservation[d]]

\* The pending sets with r removed for the drivers ds.
Without(r, ds) ==
    [d \in Drivers |-> IF d \in ds THEN pending[d] \ {r} ELSE pending[d]]

\* Drivers of the batch in snapshot s whose answer is still awaited.
StillPending(r, s) ==
    {d \in s.batchDrivers : responses[r][d] = Pending(s.batch)}

Init ==
    /\ ride = [r \in Rides |-> NewRide]
    /\ responses = [r \in Rides |-> [d \in Drivers |-> NoResponse]]
    /\ notified = [r \in Rides |-> {}]
    /\ pending = [d \in Drivers |-> {}]
    /\ reservation = [d \in Drivers |-> NoToken]
    /\ cooldown = {}
    /\ free \in SUBSET Drivers
    /\ lapsed = [r \in Rides |-> 0]
    /\ issued = [r \in Rides |-> 0]
    /\ hold = [r \in Rides |-> Idle]
    /\ accepts = {}
    /\ torn = {}

-----------------------------------------------------------------------------
\* dispatchUnderLock.

\* Mutant: dispatches a ride whatever its status.
DispatchAnyStatus(r) ==
    LET s == ride[r]
    IN  IF s.batch # 0 /\ s.batch > lapsed[r]
        THEN Idle
        ELSE [Idle EXCEPT
                !.op = "dispatch", !.snap = s,
                !.round = s.round, !.radius = s.radius,
                !.pc = CASE s.status = "REQUESTED" -> "start"
                         [] s.status # "REQUESTED" /\ s.batch # 0 -> "readResponses"
                         [] OTHER -> "search"]

\* Its entry: read the ride, keep the round and the radius as they are now,
\* and choose the branch.  Idle is an early return.
DispatchEntry(r) ==
    LET s == ride[r]
    IN  IF \/ s.status \notin UnassignedStatuses
           \/ s.batch # 0 /\ s.batch > lapsed[r]
        THEN Idle
        ELSE [Idle EXCEPT
                !.op = "dispatch", !.snap = s,
                !.round = s.round, !.radius = s.radius,
                !.pc = CASE s.status = "REQUESTED" -> "start"
                         [] s.status # "REQUESTED" /\ s.batch # 0 -> "readResponses"
                         [] OTHER -> "search"]

\* A handler that may issue a batch starts only within the bounds.
WithinBounds(r) == issued[r] < MaxBatches /\ ride[r].version < MaxVersion

BeginDispatch(r) ==
    /\ At(r, "idle")
    /\ WithinBounds(r)
    /\ DispatchEntry(r).pc # "idle"
    /\ SetHold(r, DispatchEntry(r))
    /\ UNCHANGED <<rideVars, driverVars, lapsed, issued, accepts, torn>>

\* REQUESTED -> DISPATCHING; the hash is read again, the captured round and
\* radius are not.
StartDispatching(r) ==
    LET new == [ride[r] EXCEPT !.status = "DISPATCHING", !.round = 1,
                               !.radius = InitialRadius, !.version = NextVersion(r)]
    IN  /\ At(r, "start")
        /\ SetRide(r, new)
        /\ SetHold(r, [hold[r] EXCEPT !.snap = new, !.pc = "search"])
        /\ UNCHANGED <<responses, notified, driverVars, lapsed, issued, accepts, torn>>

\* Closing a batch: the expired batch of dispatchUnderLock, and
\* handleBatchTimeout, make the same four calls.
ReadResponses(r) ==
    /\ At(r, "readResponses")
    /\ SetHold(r, [hold[r] EXCEPT !.seen = StillPending(r, hold[r].snap),
                                  !.pc = "closeBatch"])
    /\ UNCHANGED <<rideVars, driverVars, lapsed, issued, accepts, torn>>

CloseBatch(r) ==
    /\ At(r, "closeBatch")
    /\ responses' = [responses EXCEPT ![r] =
                       [d \in Drivers |-> IF d \in hold[r].seen
                                          THEN Answer("TIMEOUT") ELSE @[d]]]
    /\ SetRide(r, [Cleared(ride[r]) EXCEPT !.version = NextVersion(r)])
    /\ Goto(r, "releaseBatch")
    /\ UNCHANGED <<notified, driverVars, lapsed, issued, accepts, torn>>

\* Mutant: the reservations of the closed batch are kept.
KeepBatch(r) ==
    /\ At(r, "releaseBatch")
    /\ Goto(r, "clearPending")
    /\ UNCHANGED <<rideVars, driverVars, lapsed, issued, accepts, torn>>

ReleaseBatch(r) ==
    /\ At(r, "releaseBatch")
    /\ reservation' = Released(hold[r].snap.batchDrivers,
                               Token(r, hold[r].snap.batch))
    /\ Goto(r, "clearPending")
    /\ UNCHANGED <<rideVars, pending, cooldown, free, lapsed, issued, accepts, torn>>

\* Mutant: a closed batch stays on its drivers' lists.
KeepPending(r) ==
    /\ At(r, "clearPending")
    /\ SetHold(r, IF hold[r].op = "timeout" THEN DispatchEntry(r)
                  ELSE [hold[r] EXCEPT !.snap = ride[r], !.seen = {}, !.pc = "search"])
    /\ UNCHANGED <<rideVars, driverVars, lapsed, issued, accepts, torn>>

\* After it a timeout enters dispatchUnderLock afresh; dispatchUnderLock itself
\* only reads the ride again and goes on, whatever its status now is.
ClearBatchPending(r) ==
    /\ At(r, "clearPending")
    /\ pending' = Without(r, hold[r].snap.batchDrivers)
    /\ SetHold(r, IF hold[r].op = "timeout" THEN DispatchEntry(r)
                  ELSE [hold[r] EXCEPT !.snap = ride[r], !.seen = {}, !.pc = "search"])
    /\ UNCHANGED <<rideVars, reservation, cooldown, free, lapsed, issued, accepts, torn>>

\* Read the notified drivers, search the neighbourhood (any set of drivers may
\* be within the radius) and name the batch to come.
Search(r) ==
    /\ At(r, "search")
    /\ issued' = [issued EXCEPT ![r] = issued[r] + 1]
    /\ \E near \in SUBSET Drivers :
         SetHold(r, [hold[r] EXCEPT
                       !.batch = issued[r] + 1,
                       !.todo = {d \in near : d \notin notified[r] \/ hold[r].round > 1},
                       !.chosen = {},
                       !.pc = "check"])
    /\ UNCHANGED <<rideVars, driverVars, lapsed, accepts, torn>>

\* isDriverReservable.
Reservable(d) == d \in free /\ reservation[d] = NoToken /\ d \notin cooldown

CheckCandidate(r) ==
    /\ At(r, "check")
    /\ \E d \in hold[r].todo :
         SetHold(r, IF Reservable(d)
                    THEN [hold[r] EXCEPT !.who = d, !.pc = "reserve"]
                    ELSE [hold[r] EXCEPT !.todo = @ \ {d}])
    /\ UNCHANGED <<rideVars, driverVars, lapsed, issued, accepts, torn>>

\* Mutant: SET without NX takes the reservation of another ride.
ReserveAnyway(r) ==
    /\ At(r, "reserve")
    /\ LET d == hold[r].who
           got == hold[r].chosen \union {d}
       IN  /\ reservation' = [reservation EXCEPT ![d] = Token(r, hold[r].batch)]
           /\ SetHold(r, [hold[r] EXCEPT
                            !.chosen = got, !.who = NoDriver, !.pc = "check",
                            !.todo = IF Cardinality(got) >= BatchSize
                                     THEN {} ELSE @ \ {d}])
    /\ UNCHANGED <<rideVars, pending, cooldown, free, lapsed, issued, accepts, torn>>

\* SET NX of the reservation; the loop ends when the batch is full.
ReserveCandidate(r) ==
    /\ At(r, "reserve")
    /\ LET d == hold[r].who
           taken == reservation[d] # NoToken
           got == IF taken THEN hold[r].chosen ELSE hold[r].chosen \union {d}
       IN  /\ reservation' = IF taken THEN reservation
                             ELSE [reservation EXCEPT ![d] = Token(r, hold[r].batch)]
           /\ SetHold(r, [hold[r] EXCEPT
                            !.chosen = got, !.who = NoDriver, !.pc = "check",
                            !.todo = IF Cardinality(got) >= BatchSize
                                     THEN {} ELSE @ \ {d}])
    /\ UNCHANGED <<rideVars, pending, cooldown, free, lapsed, issued, accepts, torn>>

LoopDone(r) == At(r, "check") /\ hold[r].todo = {}

SendBatch(r) ==
    LET ds == hold[r].chosen
    IN  /\ LoopDone(r)
        /\ ds # {}
        /\ SetRide(r, [ride[r] EXCEPT !.batch = hold[r].batch, !.batchDrivers = ds,
                                      !.version = NextVersion(r)])
        /\ notified' = [notified EXCEPT ![r] = @ \union ds]
        /\ responses' = [responses EXCEPT ![r] =
                           [d \in Drivers |-> IF d \in ds
                                              THEN Pending(hold[r].batch) ELSE @[d]]]
        /\ pending' = [d \in Drivers |-> IF d \in ds
                                         THEN pending[d] \union {r} ELSE pending[d]]
        /\ SetHold(r, Idle)
        /\ UNCHANGED <<reservation, cooldown, free, lapsed, issued, accepts, torn>>

SearchExhausted(h) == h.round >= MaxRounds \/ h.radius >= MaxRadius

\* Mutant: the doubled radius is not capped.
WideRadius(km) == 2 * km

NextRadius(km) == IF 2 * km < MaxRadius THEN 2 * km ELSE MaxRadius

ExpandSearch(r) ==
    /\ LoopDone(r)
    /\ hold[r].chosen = {}
    /\ ~SearchExhausted(hold[r])
    /\ SetRide(r, [Cleared(ride[r]) EXCEPT !.round = hold[r].round + 1,
                                           !.radius = NextRadius(hold[r].radius),
                                           !.version = NextVersion(r)])
    /\ SetHold(r, Idle)
    /\ UNCHANGED <<responses, notified, driverVars, lapsed, issued, accepts, torn>>

GiveUp(r) ==
    LET new == [Cleared(ride[r]) EXCEPT !.status = "CANCELLED", !.noDrivers = TRUE,
                                        !.version = NextVersion(r)]
    IN  /\ LoopDone(r)
        /\ hold[r].chosen = {}
        /\ SearchExhausted(hold[r])
        /\ SetRide(r, new)
        /\ SetHold(r, [Idle EXCEPT !.snap = new, !.pc = "cleanup"])
        /\ UNCHANGED <<responses, notified, driverVars, lapsed, issued, accepts, torn>>

-----------------------------------------------------------------------------
\* cleanupTerminalRideKeys, on the snapshot read after the terminal write.

CleanupPending(r) ==
    /\ At(r, "cleanup")
    /\ pending' = Without(r, notified[r])
    /\ Goto(r, "cleanupReservations")
    /\ UNCHANGED <<rideVars, reservation, cooldown, free, lapsed, issued, accepts, torn>>

CleanupReservations(r) ==
    /\ At(r, "cleanupReservations")
    /\ reservation' = IF hold[r].snap.batch = 0 THEN reservation
                      ELSE Released(hold[r].snap.batchDrivers,
                                    Token(r, hold[r].snap.batch))
    /\ SetHold(r, IF hold[r].snap.driver = NoDriver THEN Idle
                  ELSE [hold[r] EXCEPT !.pc = "releaseDriver"])
    /\ UNCHANGED <<rideVars, pending, cooldown, free, lapsed, issued, accepts, torn>>

\* releaseDriverAvailability: the driver is offered rides again if it is not
\* offline and its heartbeat is there, and is marked offline otherwise.
ReleaseDriver(r) ==
    /\ At(r, "releaseDriver")
    /\ pending' = Without(r, {hold[r].snap.driver})
    /\ free' \in {free \union {hold[r].snap.driver}, free \ {hold[r].snap.driver}}
    /\ SetHold(r, Idle)
    /\ UNCHANGED <<rideVars, reservation, cooldown, lapsed, issued, accepts, torn>>

-----------------------------------------------------------------------------
\* handleBatchTimeout, handleDriverRejection, transitionRide.

BeginTimeout(r) ==
    /\ At(r, "idle")
    /\ WithinBounds(r)
    /\ ride[r].status = "DISPATCHING"
    /\ ride[r].batch # 0
    /\ ride[r].batch <= lapsed[r]
    /\ SetHold(r, [Idle EXCEPT !.op = "timeout", !.snap = ride[r],
                               !.pc = "readResponses"])
    /\ UNCHANGED <<rideVars, driverVars, lapsed, issued, accepts, torn>>

BeginReject(r, d) ==
    /\ At(r, "idle")
    /\ WithinBounds(r)
    /\ ride[r].status = "DISPATCHING"
    /\ SetHold(r, [Idle EXCEPT !.op = "reject", !.snap = ride[r], !.who = d,
                               !.pc = "readReject"])
    /\ UNCHANGED <<rideVars, driverVars, lapsed, issued, accepts, torn>>

ReadReject(r) ==
    /\ At(r, "readReject")
    /\ SetHold(r, IF responses[r][hold[r].who].kind \in {"NONE", "ACCEPTED"} THEN Idle
                  ELSE [hold[r] EXCEPT !.seen = StillPending(r, hold[r].snap),
                                       !.pc = "writeReject"])
    /\ UNCHANGED <<rideVars, driverVars, lapsed, issued, accepts, torn>>

\* Every other driver of the batch has answered (true of no batch at all).
BatchExhausted(h) == h.seen \subseteq {h.who}

\* The batch fields are written back as they were read, or cleared.
WriteReject(r) ==
    /\ At(r, "writeReject")
    /\ LET h == hold[r]
       IN  /\ responses' = [responses EXCEPT ![r][h.who] = Answer("REJECTED")]
           /\ pending' = Without(r, {h.who})
           /\ SetRide(r, [ride[r] EXCEPT
                            !.batch = IF BatchExhausted(h) THEN 0 ELSE h.snap.batch,
                            !.batchDrivers = IF BatchExhausted(h) THEN {}
                                             ELSE h.snap.batchDrivers,
                            !.version = NextVersion(r)])
    /\ Goto(r, "applyCooldown")
    /\ UNCHANGED <<notified, reservation, cooldown, free, lapsed, issued, accepts, torn>>

\* applyRejectCooldown.
ApplyCooldown(r) ==
    /\ At(r, "applyCooldown")
    /\ cooldown' = cooldown \union {hold[r].who}
    /\ Goto(r, "releaseRejected")
    /\ UNCHANGED <<rideVars, pending, reservation, free, lapsed, issued, accepts, torn>>

\* The rejecting driver's reservation, and if the batch is exhausted all of
\* its reservations; then dispatchUnderLock, in the same hold of the lock.
ReleaseRejected(r) ==
    /\ At(r, "releaseRejected")
    /\ LET h == hold[r]
           ds == {h.who} \union (IF BatchExhausted(h) THEN h.snap.batchDrivers ELSE {})
       IN  reservation' = IF h.snap.batch = 0 THEN reservation
                          ELSE Released(ds, Token(r, h.snap.batch))
    /\ SetHold(r, IF BatchExhausted(hold[r]) THEN DispatchEntry(r) ELSE Idle)
    /\ UNCHANGED <<rideVars, pending, cooldown, free, lapsed, issued, accepts, torn>>

DriverTransitions == {"ARRIVING", "ONGOING", "COMPLETED"}

\* Mutant: no assertTransition.
BeginAnyTransition(r, s) ==
    /\ At(r, "idle")
    /\ ride[r].status # s
    /\ s \in DriverTransitions => ride[r].driver # NoDriver
    /\ SetHold(r, [Idle EXCEPT !.op = "transition", !.snap = ride[r], !.target = s,
                               !.pc = "writeStatus"])
    /\ UNCHANGED <<rideVars, driverVars, lapsed, issued, accepts, torn>>

\* cancelRide, markDriverArriving, startRide and completeRide up to the write
\* of transitionRide.  The driver's operations check the assignment first; it
\* cannot change before the ride is read again under the lock.
BeginTransition(r, s) ==
    /\ At(r, "idle")
    /\ <<ride[r].status, s>> \in RideTransitions
    /\ s \in DriverTransitions => ride[r].driver # NoDriver
    /\ SetHold(r, [Idle EXCEPT !.op = "transition", !.snap = ride[r], !.target = s,
                               !.pc = "writeStatus"])
    /\ UNCHANGED <<rideVars, driverVars, lapsed, issued, accepts, torn>>

\* Mutant: the version is not incremented.
SameVersion(ri, h) == [ri EXCEPT !.status = h.target, !.version = h.snap.version]

\* The update of transitionRide.
Transitioned(ri, h) == [ri EXCEPT !.status = h.target, !.version = h.snap.version + 1]

WriteStatus(r) ==
    LET new == Transitioned(ride[r], hold[r])
    IN  /\ At(r, "writeStatus")
        /\ SetRide(r, new)
        /\ SetHold(r, IF hold[r].target \in TerminalRideStatuses
                      THEN [Idle EXCEPT !.snap = new, !.pc = "cleanup"] ELSE Idle)
        /\ UNCHANGED <<responses, notified, driverVars, lapsed, issued, accepts, torn>>

-----------------------------------------------------------------------------
\* acceptRide, without the ride lock.

\* Read the ride and take the time.  A ride without a batch is left out: its
\* token would be empty and the script refuse it (-6, -9).
AcceptRead(r, d) ==
    /\ ride[r].batch # 0
    /\ Cardinality(accepts) < MaxAccepts
    /\ accepts' = accepts \union
         {[ride |-> r, driver |-> d, batch |-> ride[r].batch,
           others |-> ride[r].batchDrivers \ {d},
           late |-> ride[r].batch <= lapsed[r], pc |-> "eval"]}
    /\ UNCHANGED <<rideVars, driverVars, lapsed, issued, hold, torn>>

\* Mutant: neither the status nor the assigned driver is looked at.
AcceptWhateverStatus(a) ==
    LET ri == ride[a.ride]
    IN  /\ ri.batch # 0
        /\ ~a.late
        /\ a.driver \in notified[a.ride]
        /\ responses[a.ride][a.driver] = Pending(ri.batch)
        /\ reservation[a.driver] = Token(a.ride, a.batch)
        /\ a.driver \in free

\* Mutant: the reservation is not compared with the token.
AcceptWithoutToken(a) ==
    LET ri == ride[a.ride]
    IN  /\ ri.status = "DISPATCHING"
        /\ ri.driver = NoDriver
        /\ ri.batch # 0
        /\ ~a.late
        /\ a.driver \in notified[a.ride]
        /\ responses[a.ride][a.driver] = Pending(ri.batch)
        /\ a.driver \in free

\* The guards of ACCEPT_RIDE_SCRIPT.
AcceptGuard(a) ==
    LET ri == ride[a.ride]
    IN  /\ ri.status = "DISPATCHING"                                    \* -2
        /\ ri.driver = NoDriver                                         \* -3
        /\ ri.batch # 0                                                 \* -6
        /\ ~a.late                                                      \* -7
        /\ a.driver \in notified[a.ride]                                \* -4
        /\ responses[a.ride][a.driver] = Pending(ri.batch)              \* -8
        /\ reservation[a.driver] = Token(a.ride, a.batch)               \* -9
        /\ a.driver \in free                                            \* -5

AcceptWins(a) ==
    /\ a.pc = "eval"
    /\ AcceptGuard(a)
    /\ SetRide(a.ride, [Cleared(ride[a.ride]) EXCEPT
                          !.status = "ACCEPTED", !.driver = a.driver,
                          !.version = ride[a.ride].version + 1])
    /\ responses' = [responses EXCEPT ![a.ride][a.driver] = Answer("ACCEPTED")]
    /\ pending' = Without(a.ride, {a.driver})
    /\ reservation' = [reservation EXCEPT ![a.driver] = NoToken]
    /\ free' = free \ {a.driver}
    /\ accepts' = (accepts \ {a}) \union {[a EXCEPT !.pc = "release"]}
    /\ UNCHANGED <<notified, cooldown, lapsed, issued, hold, torn>>

AcceptRefused(a) ==
    /\ a.pc = "eval"
    /\ ~AcceptGuard(a)
    /\ accepts' = accepts \ {a}
    /\ UNCHANGED <<rideVars, driverVars, lapsed, issued, hold, torn>>

AcceptRelease(a) ==
    /\ a.pc = "release"
    /\ reservation' = Released(a.others, Token(a.ride, a.batch))
    /\ accepts' = (accepts \ {a}) \union {[a EXCEPT !.pc = "clear"]}
    /\ UNCHANGED <<rideVars, pending, cooldown, free, lapsed, issued, hold, torn>>

AcceptClear(a) ==
    /\ a.pc = "clear"
    /\ pending' = Without(a.ride, a.others)
    /\ accepts' = accepts \ {a}
    /\ UNCHANGED <<rideVars, reservation, cooldown, free, lapsed, issued, hold, torn>>

-----------------------------------------------------------------------------
\* What happens around the handlers.

BatchLapses(r) ==
    /\ ride[r].batch > lapsed[r]
    /\ lapsed' = [lapsed EXCEPT ![r] = ride[r].batch]
    /\ UNCHANGED <<rideVars, driverVars, issued, hold, accepts, torn>>

\* The token of d is that of an unexpired batch, or of one being put together.
TokenInUse(d) ==
    LET t == reservation[d]
    IN  \/ ride[t.ride].batch = t.batch /\ t.batch > lapsed[t.ride]
        \/ hold[t.ride].pc \in {"check", "reserve"} /\ hold[t.ride].batch = t.batch

\* reservationTtlMs exceeds responseTtlMs, and counts from a later moment.
ReservationLapses(d) ==
    /\ reservation[d] # NoToken
    /\ ~TokenInUse(d)
    /\ reservation' = [reservation EXCEPT ![d] = NoToken]
    /\ UNCHANGED <<rideVars, pending, cooldown, free, lapsed, issued, hold, accepts, torn>>

CooldownLapses(d) ==
    /\ d \in cooldown
    /\ cooldown' = cooldown \ {d}
    /\ UNCHANGED <<rideVars, pending, reservation, free, lapsed, issued, hold, accepts, torn>>

\* goOnline, heartbeat, restoreDriverSession: they write what they read of the
\* driver earlier, so any driver may come out as free, at any time.
DriverAppears(d) ==
    /\ d \notin free
    /\ free' = free \union {d}
    /\ UNCHANGED <<rideVars, pending, reservation, cooldown, lapsed, issued, hold,
                   accepts, torn>>

\* goOffline and cleanupGhostAvailability also delete the reservation,
\* whichever batch it was for.
DriverLeaves(d) ==
    /\ d \in Droppable
    /\ d \in free \/ reservation[d] # NoToken
    /\ free' = free \ {d}
    /\ reservation' = [reservation EXCEPT ![d] = NoToken]
    /\ UNCHANGED <<rideVars, pending, cooldown, lapsed, issued, hold, accepts, torn>>

\* A handler's process dies, or a Redis call of it throws: the lock goes (by
\* its TTL, or in withLock's finally) and the rest of the work is not done.
HandlerDies(r) ==
    /\ Failures
    /\ r \notin torn
    /\ ~At(r, "idle")
    /\ SetHold(r, Idle)
    /\ torn' = torn \union {r}
    /\ UNCHANGED <<rideVars, driverVars, lapsed, issued, accepts>>

\* The same for a winner that has not finished clearing up.
AcceptDies(a) ==
    /\ Failures
    /\ a.ride \notin torn
    /\ a.pc # "eval"
    /\ accepts' = accepts \ {a}
    /\ torn' = torn \union {a.ride}
    /\ UNCHANGED <<rideVars, driverVars, lapsed, issued, hold>>

-----------------------------------------------------------------------------

HandlerStep(r) ==
    \/ StartDispatching(r) \/ ReadResponses(r) \/ CloseBatch(r)
    \/ ReleaseBatch(r) \/ ClearBatchPending(r)
    \/ Search(r) \/ CheckCandidate(r) \/ ReserveCandidate(r)
    \/ SendBatch(r) \/ ExpandSearch(r) \/ GiveUp(r)
    \/ CleanupPending(r) \/ CleanupReservations(r) \/ ReleaseDriver(r)
    \/ ReadReject(r) \/ WriteReject(r) \/ ApplyCooldown(r) \/ ReleaseRejected(r)
    \/ WriteStatus(r)

Begin(r) ==
    \/ BeginDispatch(r) \/ BeginTimeout(r)
    \/ \E d \in Drivers : BeginReject(r, d)
    \/ \E s \in DriverTransitions \union {"CANCELLED"} : BeginTransition(r, s)

AcceptStep(a) ==
    \/ AcceptWins(a) \/ AcceptRefused(a) \/ AcceptRelease(a) \/ AcceptClear(a)

Environment ==
    \/ \E r \in Rides : BatchLapses(r) \/ HandlerDies(r)
    \/ \E d \in Drivers : \/ ReservationLapses(d) \/ CooldownLapses(d)
                          \/ DriverAppears(d) \/ DriverLeaves(d)
    \/ \E a \in accepts : AcceptDies(a)

Next ==
    \/ \E r \in Rides : Begin(r) \/ HandlerStep(r)
    \/ \E r \in Rides, d \in Drivers : AcceptRead(r, d)
    \/ \E a \in accepts : AcceptStep(a)
    \/ Environment

Spec == Init /\ [][Next]_vars

-----------------------------------------------------------------------------
\* Types.

RideType ==
    [status : RideStatuses, driver : Drivers \union {NoDriver}, batch : Nat,
     batchDrivers : SUBSET Drivers, round : Nat,
     radius : InitialRadius..MaxRadius, version : Nat, noDrivers : BOOLEAN]

ResponseType ==
    [kind : {"NONE", "PENDING", "TIMEOUT", "REJECTED", "ACCEPTED"}, batch : Nat]

TokenType == [ride : Rides \union {NoRide}, batch : Nat]

HandlerType ==
    [pc : {"idle", "start", "readResponses", "closeBatch", "releaseBatch",
           "clearPending", "search", "check", "reserve", "cleanup",
           "cleanupReservations", "releaseDriver", "readReject", "writeReject",
           "applyCooldown", "releaseRejected", "writeStatus"},
     op : {"none", "dispatch", "timeout", "reject", "transition"},
     snap : RideType, seen : SUBSET Drivers, who : Drivers \union {NoDriver},
     target : RideStatuses, round : Nat, radius : InitialRadius..MaxRadius,
     batch : Nat,
     todo : SUBSET Drivers, chosen : SUBSET Drivers]

AcceptType ==
    [ride : Rides, driver : Drivers, batch : Nat, others : SUBSET Drivers,
     late : BOOLEAN, pc : {"eval", "release", "clear"}]

\* Every variable keeps its type; in particular the search radius never
\* exceeds MaxRadius (dispatch.service.js, the expansion of the search).
TypeOK ==
    /\ ride \in [Rides -> RideType]
    /\ responses \in [Rides -> [Drivers -> ResponseType]]
    /\ notified \in [Rides -> SUBSET Drivers]
    /\ pending \in [Drivers -> SUBSET Rides]
    /\ reservation \in [Drivers -> TokenType]
    /\ cooldown \in SUBSET Drivers
    /\ free \in SUBSET Drivers
    /\ lapsed \in [Rides -> Nat]
    /\ issued \in [Rides -> Nat]
    /\ hold \in [Rides -> HandlerType]
    /\ accepts \in SUBSET AcceptType
    /\ torn \in SUBSET Rides

-----------------------------------------------------------------------------
\* Safety.

Life == INSTANCE RideLifecycle WITH
            status <- [r \in Rides |-> ride[r].status],
            driver <- [r \in Rides |-> ride[r].driver]

\* Whatever the lock-free accept interleaves with, a ride keeps the promises
\* of RideLifecycle: the status follows the table, and one driver is assigned,
\* once, while it is dispatching.
Lifecycle == Life!Spec

\* A ride under way has a driver, one still dispatching has none: no handler's
\* write-back of an older status separates the two fields.
AssignedIffAccepted == Life!AssignedIffAccepted

\* What the holder of r's lock has read and may still write from.
MayWrite(h) ==
    h.pc \in {"start", "readResponses", "closeBatch", "search", "check", "reserve",
              "readReject", "writeReject", "writeStatus"}

StatusAndVersion(ri) == [status |-> ri.status, version |-> ri.version]

Writers == INSTANCE RideWrites WITH
            ride <- [r \in Rides |-> StatusAndVersion(ride[r])],
            snap <- [r \in Rides |-> IF MayWrite(hold[r])
                                     THEN StatusAndVersion(hold[r].snap)
                                     ELSE [status |-> "NONE", version |-> 0]]

\* Whatever the handlers do, of one write each, in a search of several writes,
\* or after a re-read that meets an accepted ride, they change the status and
\* the version of a ride only as RideWrites says, to which the writers of
\* RideCopies and CustomerFeed keep as well.
WritesAsAgreed == Writers!Spec

Phase(status) ==
    IF status \in TerminalRideStatuses THEN "over"
    ELSE IF status \in AssignedStatuses THEN "assigned" ELSE "open"

Offers == INSTANCE DriverOffers WITH
            reservation <- [d \in Drivers |-> reservation[d].ride],
            trip <- [r \in Rides |-> [phase |-> Phase(ride[r].status),
                                      driver |-> ride[r].driver]]

\* Batches, tokens and snapshots aside, dispatch treats drivers as DriverOffers
\* says: nobody reserves a reserved driver, for a ride that is over, or is
\* assigned a ride without its reservation.
OffersAsAgreed == Offers!Spec

\* The version of a ride never goes back, although the handlers write
\* version + 1 from the snapshot they read and the accept script increments
\* the field in between.
VersionNeverDecreases ==
    [][\A r \in Rides : ride'[r].version >= ride[r].version]_vars

\* An accept that would win read the batch it wins before: the drivers whose
\* reservations and pending entries it goes on to clear are those of the batch
\* it closed (acceptRide computes them from the ride it read before the script).
AcceptWinsItsBatch ==
    \A a \in accepts :
        a.pc = "eval" /\ AcceptGuard(a) =>
            /\ a.batch = ride[a.ride].batch
            /\ a.others = ride[a.ride].batchDrivers \ {a.driver}

\* At most one driver of a ride is recorded as having accepted it, and it is
\* the one assigned to it.
OneAnswerAccepted ==
    \A r \in Rides, d \in Drivers :
        responses[r][d].kind = "ACCEPTED" => ride[r].driver = d

\* No handler holds the ride, no winner is still cleaning up, and none of
\* either died half-way.
Settled(r) ==
    /\ At(r, "idle")
    /\ \A a \in accepts : a.ride = r => a.pc = "eval"
    /\ r \notin torn

\* A settled ride is pending only for drivers of its open batch, and for none
\* once it is over: timeouts, rejections, accepts and cancellations between
\* them take it off every other driver's list.
PendingListsClean ==
    \A r \in Rides : Settled(r) =>
        \A d \in Drivers : r \in pending[d] =>
            /\ d \in ride[r].batchDrivers
            /\ ride[r].status \notin TerminalRideStatuses

\* The same for reservations: a settled ride reserves only drivers of its open
\* batch, and none once it is over.
ReservationsReturned ==
    \A r \in Rides : Settled(r) =>
        \A d \in Drivers : reservation[d].ride = r =>
            /\ reservation[d].batch = ride[r].batch
            /\ d \in ride[r].batchDrivers
            /\ ride[r].status \notin TerminalRideStatuses

\* Driver d has been offered r and may still accept.
Offered(d, r) ==
    /\ ride[r].status = "DISPATCHING"
    /\ ride[r].batch > lapsed[r]
    /\ responses[r][d] = Pending(ride[r].batch)

\* A driver that stays online is never offered two rides at a time, and the
\* reservation key that ensures it is there as long as the offer is.
OfferHoldsReservation ==
    \A r \in Rides, d \in Drivers \ Droppable :
        Offered(d, r) => reservation[d] = Token(r, ride[r].batch)

-----------------------------------------------------------------------------
\* Where each handler stands with respect to its ride.

\* The snapshot is still the ride, but for what an accept changed.
SeesRide(h, ri) ==
    \/ /\ ri.status = h.snap.status
       /\ ri.version = h.snap.version
    \/ /\ h.snap.status = "DISPATCHING"
       /\ ri.status = "ACCEPTED"
       /\ ri.version = h.snap.version + 1

\* What handler h may rely on when its ride is ri.
Consistent(h, ri) ==
    /\ MayWrite(h) => SeesRide(h, ri)
    /\ h.pc = "start" => h.snap.status = "REQUESTED"
    /\ h.pc \in {"readResponses", "closeBatch", "readReject", "writeReject"} =>
          h.snap.status = "DISPATCHING"
    /\ h.pc \in {"releaseBatch", "clearPending"} => ri.status \in {"DISPATCHING", "ACCEPTED"}
    /\ h.pc \in {"search", "check", "reserve"} => h.snap.status \in {"DISPATCHING", "ACCEPTED"}
    /\ h.pc = "writeStatus" =>
          /\ <<h.snap.status, h.target>> \in RideTransitions
          /\ h.target \in DriverTransitions \union {"CANCELLED"}
    /\ h.pc \in {"reserve", "readReject", "writeReject", "applyCooldown",
                 "releaseRejected"} => h.who \in Drivers
    /\ h.pc = "releaseDriver" => h.snap.driver \in Drivers

\* The lock does its work: between the snapshot a handler reads and the write
\* it makes from it, nothing but one winning accept changes the ride.
SnapshotsCurrent == \A r \in Rides : Consistent(hold[r], ride[r])

-----------------------------------------------------------------------------
\* What the documentation says and the code does not keep.

\* A ride is cancelled for want of drivers only if it has none.
NoDriversMeansUnassigned ==
    \A r \in Rides : ride[r].noDrivers => ride[r].driver = NoDriver
=============================================================================
