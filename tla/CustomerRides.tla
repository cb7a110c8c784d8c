---------------------------- MODULE CustomerRides ----------------------------
(***************************************************************************)
(* One customer who asks for rides (request_ride of socket/customer.socket *)
(* and POST of customer.controller): the idempotency key of the socket     *)
(* event, the rate limit, the customer lock, the pointer to the customer's *)
(* active ride, and the set of active rides, with the cleanup of rides     *)
(* that end, the expiry of their hashes and the recovery scan.  Every      *)
(* action is one command (or MULTI) sent to Redis, so handlers interleave  *)
(* where the code awaits.                                                  *)
(***************************************************************************)
EXTENDS Naturals, FiniteSets

CONSTANTS
    Requests,       \* deliveries of a request; also names the ride each creates
    Keys,           \* idempotency keys the deliveries may carry
    NoRequest,      \* no ride, no lock holder
    NoKey,          \* the key of a request that came by HTTP: no gate
    MaxRequests,    \* env.rateLimit.requestRide.maxRequests
    Deaths,         \* bound: processes that die in the middle of a handler
    SlowHandlers    \* whether a handler may take longer than LOCK_TTL_MS

ASSUME RequestsAssumption == NoRequest \notin Requests
ASSUME KeysAssumption == NoKey \notin Keys
ASSUME LimitAssumption == MaxRequests \in Nat \ {0}
ASSUME BoundsAssumption == Deaths \in Nat /\ SlowHandlers \in BOOLEAN

VARIABLES
    seen,       \* the idempotency keys that are set
    count,      \* the rate limit's counter (0: no such key)
    window,     \* whether the counter has a TTL
    lock,       \* the request whose token is in the customer lock
    pointer,    \* the customer's active ride key
    active,     \* the set rides:active
    ride,       \* ride[q]: the hash of the ride that request q created
    pc,         \* pc[q]: the next command of the handler of q
    key,        \* key[q]: the idempotency key q came with
    found,      \* found[q]: the pointer, while the handler of q looks at it
    cleaning,   \* cleaning[q]: how far the cleanup of q's ride is
    deaths,     \* processes that died
    lapsed,     \* (history) handlers that lost the lock before they created
    overlapped, \* (history) a cleanup deleted the pointer to another ride
    leaked,     \* (history) a process died between INCR and EXPIRE
    expired     \* (history) keys whose TTL ran out

handlerVars == <<pc, key, found>>
gateVars    == <<seen, expired>>
limitVars   == <<count, window, leaked>>
rideVars    == <<pointer, active, ride, cleaning, overlapped>>
vars == <<seen, count, window, lock, pointer, active, ride, pc, key, found,
          cleaning, deaths, lapsed, overlapped, leaked, expired>>

Inside == {"pointer", "ride", "create"}
Steps  == {"new", "incr", "expire", "lock", "unlock", "done"} \union Inside

Goto(q, step) == pc' = [pc EXCEPT ![q] = step]

Init ==
    /\ seen = {} /\ expired = {}
    /\ count = 0 /\ window = FALSE /\ leaked = FALSE
    /\ lock = NoRequest /\ lapsed = {}
    /\ pointer = NoRequest /\ active = {} /\ overlapped = FALSE
    /\ ride = [q \in Requests |-> "none"]
    /\ cleaning = [q \in Requests |-> "no"]
    /\ pc = [q \in Requests |-> "new"]
    /\ key = [q \in Requests |-> NoKey]
    /\ found = [q \in Requests |-> NoRequest]
    /\ deaths = 0

-----------------------------------------------------------------------------
\* The gate of the socket: a key that is set already refuses the event, and
\* the handler does not run.  The key is the event's id or, without one, the
\* same for every request of the customer.

NoGate(k) == TRUE                         \* mutant of Accepted: no SET NX
Accepted(k) == k \notin seen

ArriveBySocket(q, k) ==
    /\ pc[q] = "new"
    /\ Goto(q, IF Accepted(k) THEN "incr" ELSE "done")
    /\ seen' = seen \union {k}
    /\ key' = IF Accepted(k) THEN [key EXCEPT ![q] = k] ELSE key
    /\ UNCHANGED <<found, expired, limitVars, lock, lapsed, rideVars, deaths>>

ArriveByHttp(q) ==
    /\ pc[q] = "new"
    /\ Goto(q, "incr")
    /\ UNCHANGED <<key, found, gateVars, limitVars, lock, lapsed, rideVars,
                   deaths>>

KeyExpires(k) ==
    /\ k \in seen
    /\ seen' = seen \ {k}
    /\ expired' = expired \union {k}
    /\ UNCHANGED <<handlerVars, limitVars, lock, lapsed, rideVars, deaths>>

-----------------------------------------------------------------------------
\* The rate limit.  Only the request that finds the counter at zero gives it
\* a TTL, in a second command.

\* Mutants of AfterIncr: the TTL comes with the second request; or never,
\* because INCR is taken to return the old value.
AfterIncrSecond(n) ==
    IF n = 2 THEN "expire" ELSE IF n > MaxRequests THEN "done" ELSE "lock"
AfterIncrZero(n) ==
    IF n = 0 THEN "expire" ELSE IF n > MaxRequests THEN "done" ELSE "lock"

AfterIncr(n) ==
    IF n = 1 THEN "expire" ELSE IF n > MaxRequests THEN "done" ELSE "lock"

Incr(q) ==
    /\ pc[q] = "incr"
    /\ count' = count + 1
    /\ Goto(q, AfterIncr(count + 1))
    /\ UNCHANGED <<key, found, gateVars, window, leaked, lock, lapsed,
                   rideVars, deaths>>

Expire(q) ==
    /\ pc[q] = "expire"
    /\ window' = (count > 0)
    /\ Goto(q, "lock")
    /\ UNCHANGED <<key, found, gateVars, count, leaked, lock, lapsed,
                   rideVars, deaths>>

WindowEnds ==
    /\ window
    /\ window' = FALSE
    /\ count' = 0
    /\ UNCHANGED <<handlerVars, gateVars, leaked, lock, lapsed, rideVars,
                   deaths>>

-----------------------------------------------------------------------------
\* requestRide, under the customer lock.

LockIgnored == TRUE                       \* mutant of LockFree: SET without NX
LockFree == lock = NoRequest

Lock(q) ==
    /\ pc[q] = "lock"
    /\ IF LockFree
         THEN lock' = q /\ Goto(q, "pointer")
         ELSE lock' = lock /\ Goto(q, "done")      \* CUSTOMER_LOCKED
    /\ UNCHANGED <<key, found, gateVars, limitVars, lapsed, rideVars, deaths>>

ReadPointer(q) ==
    /\ pc[q] = "pointer"
    /\ found' = [found EXCEPT ![q] = pointer]
    /\ Goto(q, IF pointer = NoRequest THEN "create" ELSE "ride")
    /\ UNCHANGED <<key, gateVars, limitVars, lock, lapsed, rideVars, deaths>>

\* A live ride stops the request (ACTIVE_RIDE_EXISTS); the lock is released.
ReadRide(q) ==
    /\ pc[q] = "ride"
    /\ Goto(q, IF ride[found[q]] = "live" THEN "unlock" ELSE "create")
    /\ found' = [found EXCEPT ![q] = NoRequest]
    /\ UNCHANGED <<key, gateVars, limitVars, lock, lapsed, rideVars,
                   deaths>>

\* One MULTI: the hash, the pointer and the set.
Create(q) ==
    /\ pc[q] = "create"
    /\ ride' = [ride EXCEPT ![q] = "live"]
    /\ pointer' = q
    /\ active' = active \union {q}
    /\ Goto(q, "unlock")
    /\ UNCHANGED <<key, found, gateVars, limitVars, lock, lapsed, cleaning,
                   overlapped, deaths>>

\* Mutants of Released: any token is deleted; the value is emptied, not deleted.
ReleasedAny(q) == NoRequest
ReleasedEmpty(q) == IF lock = q THEN NoKey ELSE lock

\* The lock after a release by q: only q's own token is deleted.
Released(q) == IF lock = q THEN NoRequest ELSE lock

Unlock(q) ==
    /\ pc[q] = "unlock"
    /\ lock' = Released(q)
    /\ Goto(q, "done")
    /\ UNCHANGED <<key, found, gateVars, limitVars, lapsed, rideVars, deaths>>

\* The lock's TTL runs out, under a handler that has ended or (when handlers
\* may be slow) one that is still at work.
LockLapses ==
    /\ lock # NoRequest
    /\ SlowHandlers \/ pc[lock] = "done"
    /\ lapsed' = IF pc[lock] \in Inside THEN lapsed \union {lock} ELSE lapsed
    /\ lock' = NoRequest
    /\ UNCHANGED <<handlerVars, gateVars, limitVars, rideVars, deaths>>

\* The process of a handler dies: nothing it set is taken back.
Die(q) ==
    /\ deaths < Deaths
    /\ pc[q] \notin {"new", "done"}
    /\ deaths' = deaths + 1
    /\ leaked' = (leaked \/ pc[q] = "expire")
    /\ Goto(q, "done")
    /\ UNCHANGED <<key, found, gateVars, count, window, lock, lapsed, rideVars>>

-----------------------------------------------------------------------------
\* The ride ends (transitionRide or a dispatch that gives up, under the ride
\* lock, not the customer's): the terminal write, then cleanupTerminalRideKeys
\* reads the pointer and, in a MULTI, leaves the set and deletes the pointer
\* it read.

EndRide(r) ==
    /\ ride[r] = "live"
    /\ ride' = [ride EXCEPT ![r] = "over"]
    /\ cleaning' = [cleaning EXCEPT ![r] = "read"]
    /\ UNCHANGED <<handlerVars, gateVars, limitVars, lock, lapsed, pointer,
                   active, overlapped, deaths>>

CleanupRead(r) ==
    /\ cleaning[r] = "read"
    /\ cleaning' =
         [cleaning EXCEPT ![r] = IF pointer = r THEN "delete" ELSE "keep"]
    /\ UNCHANGED <<handlerVars, gateVars, limitVars, lock, lapsed, pointer,
                   active, ride, overlapped, deaths>>

CleanupWrite(r) ==
    /\ cleaning[r] \in {"delete", "keep"}
    /\ active' = active \ {r}
    /\ pointer' = IF cleaning[r] = "delete" THEN NoRequest ELSE pointer
    /\ overlapped' =
         \/ overlapped
         \/ cleaning[r] = "delete" /\ pointer \notin {r, NoRequest}
    /\ cleaning' = [cleaning EXCEPT ![r] = "no"]
    /\ UNCHANGED <<handlerVars, gateVars, limitVars, lock, lapsed, ride, deaths>>

\* The process dies with the cleanup undone: a retry of the transition finds
\* the ride terminal and returns, so nobody cleans up later.
CleanupDies(r) ==
    /\ deaths < Deaths
    /\ cleaning[r] \in {"read", "delete", "keep"}
    /\ deaths' = deaths + 1
    /\ cleaning' = [cleaning EXCEPT ![r] = "no"]
    /\ UNCHANGED <<handlerVars, gateVars, limitVars, lock, lapsed, pointer,
                   active, ride, overlapped>>

\* The hash of a ride nobody has written for long expires.
HashExpires(r) ==
    /\ ride[r] \in {"live", "over"}
    /\ ride' = [ride EXCEPT ![r] = "gone"]
    /\ UNCHANGED <<handlerVars, gateVars, limitVars, lock, lapsed, pointer,
                   active, cleaning, overlapped, deaths>>

\* recoverDispatchingRides takes an id without a hash out of the set.
GhostsKept == {}                          \* mutant of Ghosts: only skipped
Ghosts == {r \in active : ride[r] = "gone"}

RemoveGhost(r) ==
    /\ r \in Ghosts
    /\ active' = active \ {r}
    /\ UNCHANGED <<handlerVars, gateVars, limitVars, lock, lapsed, pointer,
                   ride, cleaning, overlapped, deaths>>

-----------------------------------------------------------------------------

Handle(q) ==
    \/ Incr(q) \/ Expire(q) \/ Lock(q) \/ ReadPointer(q) \/ ReadRide(q)
    \/ Create(q) \/ Unlock(q)

Cleanup(r) == CleanupRead(r) \/ CleanupWrite(r)

Next ==
    \/ \E q \in Requests :
         \/ \E k \in Keys : ArriveBySocket(q, k)
         \/ ArriveByHttp(q)
         \/ Handle(q)
         \/ Die(q)
         \/ EndRide(q) \/ Cleanup(q) \/ CleanupDies(q)
         \/ HashExpires(q) \/ RemoveGhost(q)
    \/ \E k \in Keys : KeyExpires(k)
    \/ WindowEnds
    \/ LockLapses

Spec == Init /\ [][Next]_vars

\* What the program and Redis do by themselves: handlers and cleanups go on,
\* TTLs run out, the repeatable scan comes round.  Requests, ends of rides and
\* deaths are not promised.
FairSpec ==
    /\ Spec
    /\ \A q \in Requests :
         /\ WF_vars(Handle(q))
         /\ WF_vars(Cleanup(q))
         /\ WF_vars(HashExpires(q) /\ ride[q] = "over")
         /\ WF_vars(RemoveGhost(q))
    /\ WF_vars(WindowEnds)

-----------------------------------------------------------------------------
\* Every variable has its type.
TypeOK ==
    /\ seen \subseteq Keys /\ expired \subseteq Keys
    /\ count \in Nat /\ window \in BOOLEAN /\ leaked \in BOOLEAN
    /\ lock \in Requests \union {NoRequest}
    /\ lapsed \subseteq Requests
    /\ pointer \in Requests \union {NoRequest}
    /\ active \subseteq Requests
    /\ ride \in [Requests -> {"none", "live", "over", "gone"}]
    /\ cleaning \in [Requests -> {"no", "read", "delete", "keep"}]
    /\ pc \in [Requests -> Steps]
    /\ key \in [Requests -> Keys \union {NoKey}]
    /\ found \in [Requests -> Requests \union {NoRequest}]
    /\ deaths \in 0..Deaths
    /\ overlapped \in BOOLEAN

Live == {r \in Requests : ride[r] = "live"}

\* The customer lock: a handler between its SET NX and its MULTI is the one
\* whose token is in the lock, unless the TTL ran out under it; no release by
\* another, late or early, takes it away (releaseLock compares the token).
InsideHoldsLock ==
    \A q \in Requests : pc[q] \in Inside => lock = q \/ q \in lapsed

\* What the pointer is for: when no handler outlived its lock and no cleanup
\* deleted the pointer to another ride, a live ride is the one the customer's
\* key names and is in rides:active.
ActiveRideNamed ==
    lapsed = {} /\ ~overlapped =>
        \A r \in Live : pointer = r /\ r \in active

\* Two deliveries of one event (or two events without an id) create one ride,
\* unless the key's TTL ran out between them.
OneRidePerEvent ==
    \A q, r \in Requests :
        /\ ride[q] # "none" /\ ride[r] # "none" /\ q # r
        /\ key[q] = key[r] /\ key[q] # NoKey
        => key[q] \in expired

\* The counter is never left without an end, unless a process died between
\* its two commands: it has a TTL or a handler is about to set one.
CounterHasEnd ==
    count > 0 /\ ~leaked => window \/ \E q \in Requests : pc[q] = "expire"

\* The rate limit passes: short of that leak the counter returns to zero.
LimitEnds == count > 0 ~> count = 0 \/ leaked

\* A ride that ended leaves rides:active in the end, although the process that
\* should have cleaned up died and no retry does it: the scan finds its id
\* once the hash has expired.
ActiveSetDrains ==
    \A r \in Requests : ride[r] = "over" ~> r \notin active

\* (violated) One active ride per customer, as the documents promise.
OneRidePerCustomer == Cardinality(Live) <= 1
=============================================================================
