-------------------------- MODULE RideDispatchProofs --------------------------
(***************************************************************************)
(* Proofs about RideDispatch, for any rides, drivers, batch sizes, limits  *)
(* and bounds.                                                             *)
(***************************************************************************)
EXTENDS RideDispatch, TLAPS

\* The inductive invariant: TypeOK alone is not inductive, since the candidate
\* a handler reserves has to be a driver.
IInv == TypeOK /\ SnapshotsCurrent

-----------------------------------------------------------------------------
\* The values handlers are built from.

LEMMA NewRideType == NewRide \in RideType
  BY RideDispatchAssumption DEF NewRide, RideType, RideStatuses

LEMMA IdleType == Idle \in HandlerType
  BY NewRideType, RideDispatchAssumption DEF Idle, HandlerType, RideStatuses

\* dispatchUnderLock's entry is a well-typed handler.
LEMMA DispatchEntryType ==
  ASSUME TypeOK, NEW r \in Rides
  PROVE  DispatchEntry(r) \in HandlerType
<1>1. ride[r] \in RideType
  BY DEF TypeOK
<1>2. ride[r].round \in Nat /\ ride[r].radius \in InitialRadius..MaxRadius
  BY <1>1 DEF RideType
<1>3. ASSUME NEW p \in {"start", "readResponses", "search"}
      PROVE  [Idle EXCEPT !.op = "dispatch", !.snap = ride[r], !.round = ride[r].round,
                          !.radius = ride[r].radius, !.pc = p] \in HandlerType
  BY <1>1, <1>2, IdleType DEF HandlerType
<1> QED
  BY <1>3, IdleType DEF DispatchEntry

LEMMA NextRadiusType ==
  ASSUME NEW km \in InitialRadius..MaxRadius
  PROVE  NextRadius(km) \in InitialRadius..MaxRadius
  BY RideDispatchAssumption DEF NextRadius

\* Closing a batch and giving back what it held keep the types.
LEMMA ClearedType ==
  ASSUME NEW ri \in RideType
  PROVE  Cleared(ri) \in RideType
  BY DEF Cleared, RideType

LEMMA ReleasedType ==
  ASSUME reservation \in [Drivers -> TokenType], NEW ds, NEW t
  PROVE  Released(ds, t) \in [Drivers -> TokenType]
  BY DEF Released, TokenType, NoToken

LEMMA WithoutType ==
  ASSUME pending \in [Drivers -> SUBSET Rides], NEW r, NEW ds
  PROVE  Without(r, ds) \in [Drivers -> SUBSET Rides]
  BY DEF Without

\* A handler that moves on stays well-typed.
LEMMA GotoType ==
  ASSUME TypeOK, NEW r \in Rides, NEW p, Goto(r, p),
         p \in {"releaseBatch", "clearPending", "cleanupReservations",
                "applyCooldown", "releaseRejected"}
  PROVE  hold' \in [Rides -> HandlerType]
<1>0. hold[r] \in HandlerType
  BY DEF TypeOK
<1>1. [hold[r] EXCEPT !.pc = p] \in HandlerType
  BY <1>0 DEF HandlerType
<1> QED
  BY <1>1 DEF Goto, SetHold, TypeOK

LEMMA InitType == Init => TypeOK
  BY NewRideType, IdleType DEF Init, TypeOK, ResponseType, NoResponse, TokenType, NoToken

-----------------------------------------------------------------------------
\* Every step keeps the types.

LEMMA BeginType ==
  ASSUME TypeOK, NEW r \in Rides, Begin(r)
  PROVE  TypeOK'
<1> USE DEF rideVars, driverVars, SetHold
<1>1. CASE BeginDispatch(r)
  BY <1>1, DispatchEntryType DEF BeginDispatch, TypeOK
<1>2. CASE BeginTimeout(r)
  BY <1>2, IdleType DEF BeginTimeout, TypeOK, HandlerType
<1>3. ASSUME NEW d \in Drivers, BeginReject(r, d)
      PROVE  TypeOK'
  BY <1>3, IdleType DEF BeginReject, TypeOK, HandlerType
<1>4. ASSUME NEW s \in DriverTransitions \union {"CANCELLED"}, BeginTransition(r, s)
      PROVE  TypeOK'
  BY <1>4, IdleType
     DEF BeginTransition, TypeOK, HandlerType, DriverTransitions, RideStatuses
<1> QED
  BY <1>1, <1>2, <1>3, <1>4 DEF Begin

\* The calls of dispatchUnderLock.
LEMMA DispatchStepType ==
  ASSUME IInv, NEW r \in Rides,
         \/ StartDispatching(r) \/ ReadResponses(r) \/ CloseBatch(r)
         \/ ReleaseBatch(r) \/ ClearBatchPending(r)
         \/ Search(r) \/ CheckCandidate(r) \/ ReserveCandidate(r)
         \/ SendBatch(r) \/ ExpandSearch(r) \/ GiveUp(r)
  PROVE  TypeOK'
<1> USE DEF rideVars, driverVars
<1>0. /\ ride[r] \in RideType
      /\ hold[r] \in HandlerType
      /\ hold[r].snap \in RideType
      /\ NextVersion(r) \in Nat
      /\ hold[r].radius \in InitialRadius..MaxRadius
  BY DEF IInv, TypeOK, HandlerType, RideType, NextVersion
<1> USE DEF IInv
<1>1. CASE StartDispatching(r)
  <2> DEFINE new == [ride[r] EXCEPT !.status = "DISPATCHING", !.round = 1,
                                   !.radius = InitialRadius, !.version = NextVersion(r)]
  <2>1. new \in RideType
    <3>1. InitialRadius \in InitialRadius..MaxRadius
      BY RideDispatchAssumption
    <3> QED
      BY <1>0, <3>1 DEF RideType, RideStatuses
  <2>2. [hold[r] EXCEPT !.snap = new, !.pc = "search"] \in HandlerType
    BY <1>0, <2>1 DEF HandlerType
  <2> HIDE DEF new
  <2>3. /\ ride' = [ride EXCEPT ![r] = new]
        /\ hold' = [hold EXCEPT ![r] = [hold[r] EXCEPT !.snap = new, !.pc = "search"]]
        /\ UNCHANGED <<responses, notified, driverVars, lapsed, issued, accepts, torn>>
    BY <1>1 DEF StartDispatching, SetRide, SetHold, new
  <2> QED
    BY <2>1, <2>2, <2>3 DEF TypeOK
<1>2. CASE ReadResponses(r)
  <2>1. [hold[r] EXCEPT !.seen = StillPending(r, hold[r].snap), !.pc = "closeBatch"]
           \in HandlerType
    BY <1>0 DEF StillPending, HandlerType, RideType
  <2> QED
    BY <1>2, <2>1 DEF ReadResponses, SetHold, TypeOK
<1>3. CASE CloseBatch(r)
  <2>1. [Cleared(ride[r]) EXCEPT !.version = NextVersion(r)] \in RideType
    BY <1>0, ClearedType DEF RideType
  <2>2. hold' \in [Rides -> HandlerType]
    BY <1>3, GotoType DEF CloseBatch
  <2>3. responses' \in [Rides -> [Drivers -> ResponseType]]
    BY <1>3 DEF CloseBatch, TypeOK, Answer, ResponseType
  <2> QED
    BY <1>3, <2>1, <2>2, <2>3 DEF CloseBatch, SetRide, TypeOK
<1>4. CASE ReleaseBatch(r)
  BY <1>4, GotoType, ReleasedType DEF ReleaseBatch, TypeOK
<1>5. CASE ClearBatchPending(r)
  <2>1. [hold[r] EXCEPT !.snap = ride[r], !.seen = {}, !.pc = "search"] \in HandlerType
    BY <1>0 DEF HandlerType
  <2> QED
    BY <1>5, <2>1, DispatchEntryType, WithoutType DEF ClearBatchPending, SetHold, TypeOK
<1>6. CASE Search(r)
  <2>1. PICK near \in SUBSET Drivers :
          SetHold(r, [hold[r] EXCEPT
                       !.batch = issued[r] + 1,
                       !.todo = {d \in near : d \notin notified[r] \/ hold[r].round > 1},
                       !.chosen = {},
                       !.pc = "check"])
    BY <1>6 DEF Search
  <2>2. issued[r] + 1 \in Nat
    BY DEF TypeOK
  <2>3. {d \in near : d \notin notified[r] \/ hold[r].round > 1} \in SUBSET Drivers
    OBVIOUS
  <2>4. hold' \in [Rides -> HandlerType]
    BY <1>0, <2>1, <2>2, <2>3 DEF SetHold, HandlerType, TypeOK
  <2>5. issued' = [issued EXCEPT ![r] = issued[r] + 1]
    BY <1>6 DEF Search
  <2> QED
    BY <1>6, <2>2, <2>4, <2>5 DEF Search, TypeOK
<1>7. CASE CheckCandidate(r)
  <2>1. PICK d \in hold[r].todo :
          SetHold(r, IF Reservable(d)
                     THEN [hold[r] EXCEPT !.who = d, !.pc = "reserve"]
                     ELSE [hold[r] EXCEPT !.todo = @ \ {d}])
    BY <1>7 DEF CheckCandidate
  <2>2. d \in Drivers
    BY <1>0 DEF HandlerType
  <2>3. /\ [hold[r] EXCEPT !.who = d, !.pc = "reserve"] \in HandlerType
        /\ [hold[r] EXCEPT !.todo = @ \ {d}] \in HandlerType
    BY <1>0, <2>2 DEF HandlerType
  <2>4. hold' \in [Rides -> HandlerType]
    BY <2>1, <2>3 DEF SetHold, TypeOK
  <2> QED
    BY <1>7, <2>4 DEF CheckCandidate, TypeOK
<1>8. CASE ReserveCandidate(r)
  <2> DEFINE d == hold[r].who
             taken == reservation[d] # NoToken
             got == IF taken THEN hold[r].chosen ELSE hold[r].chosen \union {d}
             next == [hold[r] EXCEPT
                        !.chosen = got, !.who = NoDriver, !.pc = "check",
                        !.todo = IF Cardinality(got) >= BatchSize
                                 THEN {} ELSE @ \ {d}]
  <2>1. d \in Drivers
    BY <1>8 DEF ReserveCandidate, At, SnapshotsCurrent, Consistent, MayWrite
  <2>2. next \in HandlerType
    BY <1>0, <2>1 DEF HandlerType
  <2>3. Token(r, hold[r].batch) \in TokenType
    BY <1>0 DEF Token, TokenType, HandlerType
  <2>4. /\ hold' = [hold EXCEPT ![r] = next]
        /\ reservation' = IF taken THEN reservation
                          ELSE [reservation EXCEPT ![d] = Token(r, hold[r].batch)]
        /\ UNCHANGED <<rideVars, pending, cooldown, free, lapsed, issued, accepts, torn>>
    BY <1>8 DEF ReserveCandidate, SetHold
  <2> HIDE DEF d, taken, next
  <2> QED
    BY <2>2, <2>3, <2>4 DEF TypeOK
<1>9. CASE SendBatch(r)
  <2> DEFINE ds == hold[r].chosen
             new == [ride[r] EXCEPT !.batch = hold[r].batch, !.batchDrivers = ds,
                                    !.version = NextVersion(r)]
  <2>1. new \in RideType
    BY <1>0 DEF HandlerType, RideType
  <2>2. ds \subseteq Drivers
    BY <1>0 DEF HandlerType
  <2>3. Pending(hold[r].batch) \in ResponseType
    BY <1>0 DEF Pending, ResponseType, HandlerType
  <2> HIDE DEF new
  <2>4. /\ ride' = [ride EXCEPT ![r] = new]
        /\ hold' = [hold EXCEPT ![r] = Idle]
        /\ notified' = [notified EXCEPT ![r] = @ \union ds]
        /\ responses' = [responses EXCEPT ![r] =
                           [d \in Drivers |-> IF d \in ds
                                              THEN Pending(hold[r].batch) ELSE @[d]]]
        /\ pending' = [d \in Drivers |-> IF d \in ds
                                         THEN pending[d] \union {r} ELSE pending[d]]
        /\ UNCHANGED <<reservation, cooldown, free, lapsed, issued, accepts, torn>>
    BY <1>9 DEF SendBatch, SetRide, SetHold, new
  <2>5. notified' \in [Rides -> SUBSET Drivers]
    BY <2>2, <2>4 DEF TypeOK
  <2>6. responses' \in [Rides -> [Drivers -> ResponseType]]
    BY <2>3, <2>4 DEF TypeOK
  <2>7. pending' \in [Drivers -> SUBSET Rides]
    BY <2>4 DEF TypeOK
  <2> QED
    BY <2>1, <2>4, <2>5, <2>6, <2>7, IdleType DEF TypeOK
<1>10. CASE ExpandSearch(r)
  <2> DEFINE new == [Cleared(ride[r]) EXCEPT !.round = hold[r].round + 1,
                                             !.radius = NextRadius(hold[r].radius),
                                             !.version = NextVersion(r)]
  <2>1. hold[r].round + 1 \in Nat
    BY <1>0 DEF HandlerType
  <2>2. new \in RideType
    BY <1>0, <2>1, ClearedType, NextRadiusType DEF RideType
  <2>3. /\ ride' = [ride EXCEPT ![r] = new]
        /\ hold' = [hold EXCEPT ![r] = Idle]
        /\ UNCHANGED <<responses, notified, driverVars, lapsed, issued, accepts, torn>>
    BY <1>10 DEF ExpandSearch, SetRide, SetHold
  <2> QED
    BY <2>2, <2>3, IdleType DEF TypeOK
<1>11. CASE GiveUp(r)
  <2> DEFINE new == [Cleared(ride[r]) EXCEPT !.status = "CANCELLED", !.noDrivers = TRUE,
                                             !.version = NextVersion(r)]
  <2>1. new \in RideType
    BY <1>0, ClearedType DEF RideType, RideStatuses
  <2> HIDE DEF new
  <2>2. [Idle EXCEPT !.snap = new, !.pc = "cleanup"] \in HandlerType
    BY <2>1, IdleType DEF HandlerType
  <2>3. /\ ride' = [ride EXCEPT ![r] = new]
        /\ hold' = [hold EXCEPT ![r] = [Idle EXCEPT !.snap = new, !.pc = "cleanup"]]
        /\ UNCHANGED <<responses, notified, driverVars, lapsed, issued, accepts, torn>>
    BY <1>11 DEF GiveUp, SetRide, SetHold, new
  <2> QED
    BY <2>1, <2>2, <2>3 DEF TypeOK
<1> QED
  BY <1>1, <1>2, <1>3, <1>4, <1>5, <1>6, <1>7, <1>8, <1>9, <1>10, <1>11

\* The cleanup of a terminal ride, and the calls of handleDriverRejection and
\* transitionRide.
LEMMA OtherStepType ==
  ASSUME IInv, NEW r \in Rides,
         \/ CleanupPending(r) \/ CleanupReservations(r) \/ ReleaseDriver(r)
         \/ ReadReject(r) \/ WriteReject(r) \/ ApplyCooldown(r) \/ ReleaseRejected(r)
         \/ WriteStatus(r)
  PROVE  TypeOK'
<1> USE DEF IInv, rideVars, driverVars
<1>0. /\ ride[r] \in RideType
      /\ hold[r] \in HandlerType
      /\ hold[r].snap \in RideType
      /\ NextVersion(r) \in Nat
      /\ Consistent(hold[r], ride[r])
  BY DEF TypeOK, HandlerType, RideType, NextVersion, SnapshotsCurrent
<1>1. CASE CleanupPending(r)
  BY <1>1, GotoType, WithoutType DEF CleanupPending, TypeOK
<1>2. CASE CleanupReservations(r)
  <2>1. [hold[r] EXCEPT !.pc = "releaseDriver"] \in HandlerType
    BY <1>0 DEF HandlerType
  <2>2. hold' \in [Rides -> HandlerType]
    BY <1>2, <2>1, IdleType DEF CleanupReservations, SetHold, TypeOK
  <2> QED
    BY <1>2, <2>2, ReleasedType DEF CleanupReservations, TypeOK
<1>3. CASE ReleaseDriver(r)
  <2>1. hold[r].snap.driver \in Drivers
    BY <1>0, <1>3 DEF ReleaseDriver, At, Consistent, MayWrite
  <2> QED
    BY <1>3, <2>1, IdleType, WithoutType DEF ReleaseDriver, SetHold, TypeOK
<1>4. CASE ReadReject(r)
  <2>1. [hold[r] EXCEPT !.seen = StillPending(r, hold[r].snap), !.pc = "writeReject"]
           \in HandlerType
    BY <1>0 DEF StillPending, HandlerType, RideType
  <2> QED
    BY <1>4, <2>1, IdleType DEF ReadReject, SetHold, TypeOK
<1>5. CASE WriteReject(r)
  <2> DEFINE h == hold[r]
             new == [ride[r] EXCEPT
                       !.batch = IF BatchExhausted(h) THEN 0 ELSE h.snap.batch,
                       !.batchDrivers = IF BatchExhausted(h) THEN {}
                                        ELSE h.snap.batchDrivers,
                       !.version = NextVersion(r)]
  <2>1. /\ h.snap.batch \in Nat
        /\ h.snap.batchDrivers \in SUBSET Drivers
    BY <1>0 DEF RideType
  <2>2. new \in RideType
    BY <1>0, <2>1 DEF RideType
  <2>3. hold' \in [Rides -> HandlerType]
    BY <1>5, GotoType DEF WriteReject
  <2>4. Answer("REJECTED") \in ResponseType
    BY DEF Answer, ResponseType
  <2> HIDE DEF new
  <2>5. /\ ride' = [ride EXCEPT ![r] = new]
        /\ responses' = [responses EXCEPT ![r][h.who] = Answer("REJECTED")]
        /\ pending' = Without(r, {h.who})
        /\ UNCHANGED <<notified, reservation, cooldown, free, lapsed, issued, accepts, torn>>
    BY <1>5 DEF WriteReject, SetRide, new
  <2>6. responses' \in [Rides -> [Drivers -> ResponseType]]
    BY <2>4, <2>5 DEF TypeOK
  <2> QED
    BY <2>2, <2>3, <2>5, <2>6, WithoutType DEF TypeOK
<1>6. CASE ApplyCooldown(r)
  <2>1. hold[r].who \in Drivers
    BY <1>0, <1>6 DEF ApplyCooldown, At, Consistent, MayWrite
  <2> QED
    BY <1>6, <2>1, GotoType DEF ApplyCooldown, TypeOK
<1>7. CASE ReleaseRejected(r)
  <2>1. hold' \in [Rides -> HandlerType]
    BY <1>7, DispatchEntryType, IdleType DEF ReleaseRejected, SetHold, TypeOK
  <2> QED
    BY <1>7, <2>1, ReleasedType DEF ReleaseRejected, TypeOK
<1>8. CASE WriteStatus(r)
  <2> DEFINE new == Transitioned(ride[r], hold[r])
  <2>1. new \in RideType
    BY <1>0 DEF Transitioned, HandlerType, RideType, NextVersion
  <2> HIDE DEF new
  <2>2. [Idle EXCEPT !.snap = new, !.pc = "cleanup"] \in HandlerType
    BY <2>1, IdleType DEF HandlerType
  <2>3. /\ ride' = [ride EXCEPT ![r] = new]
        /\ hold' = [hold EXCEPT ![r] = IF hold[r].target \in TerminalRideStatuses
                      THEN [Idle EXCEPT !.snap = new, !.pc = "cleanup"] ELSE Idle]
        /\ UNCHANGED <<responses, notified, driverVars, lapsed, issued, accepts, torn>>
    BY <1>8 DEF WriteStatus, SetRide, SetHold, new
  <2> QED
    BY <2>1, <2>2, <2>3, IdleType DEF TypeOK
<1> QED
  BY <1>1, <1>2, <1>3, <1>4, <1>5, <1>6, <1>7, <1>8

\* acceptRide.
LEMMA AcceptSideType ==
  ASSUME TypeOK,
         \/ \E r \in Rides, d \in Drivers : AcceptRead(r, d)
         \/ \E a \in accepts : AcceptStep(a)
  PROVE  TypeOK'
<1> USE DEF rideVars, driverVars
<1>1. ASSUME NEW r \in Rides, NEW d \in Drivers, AcceptRead(r, d)
      PROVE  TypeOK'
  <2>1. ride[r] \in RideType
    BY DEF TypeOK
  <2>2. [ride |-> r, driver |-> d, batch |-> ride[r].batch,
         others |-> ride[r].batchDrivers \ {d},
         late |-> ride[r].batch <= lapsed[r], pc |-> "eval"] \in AcceptType
    BY <2>1 DEF RideType, AcceptType
  <2> QED
    BY <1>1, <2>2 DEF AcceptRead, TypeOK
<1>2. ASSUME NEW a \in accepts, AcceptStep(a)
      PROVE  TypeOK'
  <2>0. /\ a \in AcceptType
        /\ a.ride \in Rides
        /\ a.driver \in Drivers
        /\ ride[a.ride] \in RideType
    BY DEF TypeOK, AcceptType
  <2>1. /\ [a EXCEPT !.pc = "release"] \in AcceptType
        /\ [a EXCEPT !.pc = "clear"] \in AcceptType
    BY <2>0 DEF AcceptType
  <2>2. CASE AcceptWins(a)
    <3> DEFINE new == [Cleared(ride[a.ride]) EXCEPT
                         !.status = "ACCEPTED", !.driver = a.driver,
                         !.version = ride[a.ride].version + 1]
    <3>1. new \in RideType
      <4>1. ride[a.ride].version + 1 \in Nat
        BY <2>0 DEF RideType
      <4> QED
        BY <2>0, <4>1, ClearedType DEF RideType, RideStatuses
    <3>2. /\ Answer("ACCEPTED") \in ResponseType
          /\ NoToken \in TokenType
      BY DEF Answer, ResponseType, NoToken, TokenType
    <3> HIDE DEF new
    <3>3. /\ ride' = [ride EXCEPT ![a.ride] = new]
          /\ responses' = [responses EXCEPT ![a.ride][a.driver] = Answer("ACCEPTED")]
          /\ pending' = Without(a.ride, {a.driver})
          /\ reservation' = [reservation EXCEPT ![a.driver] = NoToken]
          /\ free' = free \ {a.driver}
          /\ accepts' = (accepts \ {a}) \union {[a EXCEPT !.pc = "release"]}
          /\ UNCHANGED <<notified, cooldown, lapsed, issued, hold, torn>>
      BY <2>2 DEF AcceptWins, SetRide, new
    <3>4. responses' \in [Rides -> [Drivers -> ResponseType]]
      BY <2>0, <3>2, <3>3 DEF TypeOK
    <3>5. reservation' \in [Drivers -> TokenType]
      BY <2>0, <3>2, <3>3 DEF TypeOK
    <3>6. accepts' \in SUBSET AcceptType
      BY <2>1, <3>3 DEF TypeOK
    <3> QED
      BY <3>1, <3>3, <3>4, <3>5, <3>6, WithoutType DEF TypeOK
  <2>3. CASE AcceptRefused(a)
    BY <2>3 DEF AcceptRefused, TypeOK
  <2>4. CASE AcceptRelease(a)
    BY <2>1, <2>4, ReleasedType DEF AcceptRelease, TypeOK
  <2>5. CASE AcceptClear(a)
    BY <2>5, WithoutType DEF AcceptClear, TypeOK
  <2> QED
    BY <1>2, <2>2, <2>3, <2>4, <2>5 DEF AcceptStep
<1> QED
  BY <1>1, <1>2

LEMMA EnvironmentType ==
  ASSUME TypeOK, Environment
  PROVE  TypeOK'
<1> USE DEF rideVars, driverVars
<1>1. ASSUME NEW r \in Rides, BatchLapses(r)
      PROVE  TypeOK'
  <2>1. ride[r].batch \in Nat
    BY DEF TypeOK, RideType
  <2> QED
    BY <1>1, <2>1 DEF BatchLapses, TypeOK
<1>2. ASSUME NEW r \in Rides, HandlerDies(r)
      PROVE  TypeOK'
  BY <1>2, IdleType DEF HandlerDies, SetHold, TypeOK
<1>3. ASSUME NEW d \in Drivers,
             ReservationLapses(d) \/ CooldownLapses(d) \/ DriverAppears(d) \/ DriverLeaves(d)
      PROVE  TypeOK'
  <2>1. NoToken \in TokenType
    BY DEF NoToken, TokenType
  <2> QED
    BY <1>3, <2>1
       DEF ReservationLapses, CooldownLapses, DriverAppears, DriverLeaves, TypeOK
<1>4. ASSUME NEW a \in accepts, AcceptDies(a)
      PROVE  TypeOK'
  <2>1. a.ride \in Rides
    BY DEF TypeOK, AcceptType
  <2> QED
    BY <1>4, <2>1 DEF AcceptDies, TypeOK
<1> QED
  BY <1>1, <1>2, <1>3, <1>4 DEF Environment

LEMMA NextType ==
  ASSUME IInv, [Next]_vars
  PROVE  TypeOK'
<1>1. CASE UNCHANGED vars
  BY <1>1 DEF vars, IInv, TypeOK
<1>2. ASSUME NEW r \in Rides, Begin(r) \/ HandlerStep(r)
      PROVE  TypeOK'
  BY <1>2, BeginType, DispatchStepType, OtherStepType DEF IInv, HandlerStep
<1> QED
  BY <1>1, <1>2, AcceptSideType, EnvironmentType DEF IInv, Next

-----------------------------------------------------------------------------
\* Every step keeps the handlers consistent with their rides.

LEMMA IdleConsistent ==
  ASSUME NEW ri
  PROVE  Consistent(Idle, ri)
  BY DEF Consistent, MayWrite, Idle

\* dispatchUnderLock starts from the ride as it is.
LEMMA DispatchEntryConsistent ==
  ASSUME NEW r \in Rides, ride[r] \in RideType
  PROVE  Consistent(DispatchEntry(r), ride[r])
<1>1. CASE DispatchEntry(r) = Idle
  BY <1>1, IdleConsistent
<1>2. CASE DispatchEntry(r) # Idle
  <2> DEFINE p == CASE ride[r].status = "REQUESTED" -> "start"
                    [] ride[r].status # "REQUESTED" /\ ride[r].batch # 0 -> "readResponses"
                    [] OTHER -> "search"
             e == [Idle EXCEPT !.op = "dispatch", !.snap = ride[r],
                               !.round = ride[r].round, !.radius = ride[r].radius,
                               !.pc = p]
  <2>0. ride[r].status \in UnassignedStatuses /\ DispatchEntry(r) = e
    BY <1>2, Zenon DEF DispatchEntry
  <2>1. e.snap = ride[r] /\ e.pc = p
    BY DEF Idle
  <2>3. \/ /\ p = "start"
           /\ ride[r].status = "REQUESTED"
        \/ /\ p \in {"readResponses", "search"}
           /\ ride[r].status # "REQUESTED"
    OBVIOUS
  <2> HIDE DEF p, e
  <2>2. Consistent(e, ride[r])
    BY <2>0, <2>1, <2>3 DEF Consistent, MayWrite, SeesRide, UnassignedStatuses
  <2> QED
    BY <2>0, <2>2
<1> QED
  BY <1>1, <1>2

\* A handler that moves on without touching what Consistent looks at.
LEMMA HolderMoves ==
  ASSUME IInv, NEW r \in Rides, NEW h, NEW ri,
         hold' = [hold EXCEPT ![r] = h],
         \/ ride' = [ride EXCEPT ![r] = ri]
         \/ UNCHANGED ride /\ ri = ride[r],
         Consistent(h, ri)
  PROVE  SnapshotsCurrent'
<1> SUFFICES ASSUME NEW q \in Rides
             PROVE  Consistent(hold'[q], ride'[q])
  BY DEF SnapshotsCurrent
<1>2. CASE q = r
  <2>1. hold'[q] = h /\ ride'[q] = ri
    BY <1>2 DEF IInv, TypeOK
  <2> QED
    BY <2>1
<1>3. CASE q # r
  <2>1. hold'[q] = hold[q] /\ ride'[q] = ride[q]
    BY <1>3 DEF IInv, TypeOK
  <2> QED
    BY <2>1 DEF IInv, SnapshotsCurrent
<1> QED
  BY <1>2, <1>3

\* What the accept script does to a ride leaves its handler consistent.
LEMMA AcceptConsistent ==
  ASSUME NEW h, NEW ri \in RideType, NEW d \in Drivers,
         Consistent(h, ri), ri.status = "DISPATCHING"
  PROVE  Consistent(h, [Cleared(ri) EXCEPT !.status = "ACCEPTED", !.driver = d,
                                           !.version = ri.version + 1])
<1> DEFINE new == [Cleared(ri) EXCEPT !.status = "ACCEPTED", !.driver = d,
                                      !.version = ri.version + 1]
<1>1. new.status = "ACCEPTED" /\ new.version = ri.version + 1
  BY DEF Cleared, RideType
<1>2. SeesRide(h, ri) => SeesRide(h, new)
  BY <1>1 DEF SeesRide
<1> HIDE DEF new
<1>3. Consistent(h, new)
  BY <1>1, <1>2 DEF Consistent, MayWrite
<1> QED
  BY <1>3 DEF new

LEMMA BeginConsistent ==
  ASSUME IInv, NEW r \in Rides, Begin(r)
  PROVE  SnapshotsCurrent'
<1> USE DEF rideVars, SetHold
<1>0. ride[r] \in RideType
  BY DEF IInv, TypeOK
<1>1. CASE BeginDispatch(r)
  BY <1>0, <1>1, DispatchEntryConsistent, HolderMoves DEF BeginDispatch
<1>2. CASE BeginTimeout(r)
  <2> DEFINE h == [Idle EXCEPT !.op = "timeout", !.snap = ride[r], !.pc = "readResponses"]
  <2>1. Consistent(h, ride[r])
    BY <1>2 DEF BeginTimeout, Consistent, MayWrite, SeesRide, Idle
  <2>2. hold' = [hold EXCEPT ![r] = h] /\ UNCHANGED ride
    BY <1>2 DEF BeginTimeout
  <2> QED
    BY <2>1, <2>2, HolderMoves
<1>3. ASSUME NEW d \in Drivers, BeginReject(r, d)
      PROVE  SnapshotsCurrent'
  <2> DEFINE h == [Idle EXCEPT !.op = "reject", !.snap = ride[r], !.who = d,
                               !.pc = "readReject"]
  <2>1. Consistent(h, ride[r])
    BY <1>3 DEF BeginReject, Consistent, MayWrite, SeesRide, Idle
  <2>2. hold' = [hold EXCEPT ![r] = h] /\ UNCHANGED ride
    BY <1>3 DEF BeginReject
  <2> QED
    BY <2>1, <2>2, HolderMoves
<1>4. ASSUME NEW s \in DriverTransitions \union {"CANCELLED"}, BeginTransition(r, s)
      PROVE  SnapshotsCurrent'
  <2> DEFINE h == [Idle EXCEPT !.op = "transition", !.snap = ride[r], !.target = s,
                               !.pc = "writeStatus"]
  <2>1. Consistent(h, ride[r])
    BY <1>4 DEF BeginTransition, Consistent, MayWrite, SeesRide, Idle
  <2>2. hold' = [hold EXCEPT ![r] = h] /\ UNCHANGED ride
    BY <1>4 DEF BeginTransition
  <2> QED
    BY <2>1, <2>2, HolderMoves
<1> QED
  BY <1>1, <1>2, <1>3, <1>4 DEF Begin

LEMMA HandlerStepConsistent ==
  ASSUME IInv, NEW r \in Rides, HandlerStep(r)
  PROVE  SnapshotsCurrent'
<1> USE DEF rideVars, SetHold, SetRide
<1>0. /\ ride[r] \in RideType
      /\ hold[r] \in HandlerType
      /\ hold[r].snap \in RideType
      /\ Consistent(hold[r], ride[r])
  BY DEF IInv, TypeOK, HandlerType, SnapshotsCurrent
<1>1. CASE StartDispatching(r)
  <2> DEFINE new == [ride[r] EXCEPT !.status = "DISPATCHING", !.round = 1,
                                   !.radius = InitialRadius, !.version = NextVersion(r)]
             h == [hold[r] EXCEPT !.snap = new, !.pc = "search"]
  <2>1. new.status = "DISPATCHING"
    BY <1>0 DEF RideType
  <2>2. h.pc = "search" /\ h.snap = new
    BY <1>0 DEF HandlerType
  <2>3. ride' = [ride EXCEPT ![r] = new] /\ hold' = [hold EXCEPT ![r] = h]
    BY <1>1 DEF StartDispatching
  <2> HIDE DEF new, h
  <2>4. Consistent(h, new)
    BY <2>1, <2>2 DEF Consistent, MayWrite, SeesRide
  <2> QED
    BY <2>3, <2>4, HolderMoves
<1>2. CASE ReadResponses(r)
  <2> DEFINE h == [hold[r] EXCEPT !.seen = StillPending(r, hold[r].snap),
                                  !.pc = "closeBatch"]
  <2>1. h.pc = "closeBatch" /\ h.snap = hold[r].snap
    BY <1>0 DEF HandlerType
  <2>2. hold[r].pc = "readResponses" /\ UNCHANGED ride /\ hold' = [hold EXCEPT ![r] = h]
    BY <1>2 DEF ReadResponses, At
  <2> HIDE DEF h
  <2>3. Consistent(h, ride[r])
    BY <1>0, <2>1, <2>2 DEF Consistent, MayWrite, SeesRide
  <2> QED
    BY <2>2, <2>3, HolderMoves
<1>3. CASE CloseBatch(r)
  <2> DEFINE new == [Cleared(ride[r]) EXCEPT !.version = NextVersion(r)]
             h == [hold[r] EXCEPT !.pc = "releaseBatch"]
  <2>1. new.status = ride[r].status
    BY <1>0 DEF Cleared, RideType
  <2>2. h.pc = "releaseBatch"
    BY <1>0 DEF HandlerType
  <2>3. /\ hold[r].pc = "closeBatch"
        /\ ride' = [ride EXCEPT ![r] = new]
        /\ hold' = [hold EXCEPT ![r] = h]
    BY <1>3 DEF CloseBatch, At, Goto
  <2> HIDE DEF new, h
  <2>4. Consistent(h, new)
    BY <1>0, <2>1, <2>2, <2>3 DEF Consistent, MayWrite, SeesRide
  <2> QED
    BY <2>3, <2>4, HolderMoves
<1>4. CASE ReleaseBatch(r)
  <2> DEFINE h == [hold[r] EXCEPT !.pc = "clearPending"]
  <2>1. h.pc = "clearPending"
    BY <1>0 DEF HandlerType
  <2>2. hold[r].pc = "releaseBatch" /\ UNCHANGED ride /\ hold' = [hold EXCEPT ![r] = h]
    BY <1>4 DEF ReleaseBatch, At, Goto
  <2> HIDE DEF h
  <2>3. Consistent(h, ride[r])
    BY <1>0, <2>1, <2>2 DEF Consistent, MayWrite
  <2> QED
    BY <2>2, <2>3, HolderMoves
<1>5. CASE ClearBatchPending(r)
  <2> DEFINE g == [hold[r] EXCEPT !.snap = ride[r], !.seen = {}, !.pc = "search"]
             h == IF hold[r].op = "timeout" THEN DispatchEntry(r) ELSE g
  <2>1. g.pc = "search" /\ g.snap = ride[r]
    BY <1>0 DEF HandlerType
  <2>2. /\ hold[r].pc = "clearPending"
        /\ UNCHANGED ride
        /\ hold' = [hold EXCEPT ![r] = h]
    BY <1>5 DEF ClearBatchPending, At
  <2> HIDE DEF g
  <2>3. Consistent(g, ride[r])
    BY <1>0, <2>1, <2>2 DEF Consistent, MayWrite, SeesRide
  <2>4. Consistent(h, ride[r])
    BY <1>0, <2>3, DispatchEntryConsistent
  <2> QED
    BY <2>2, <2>4, HolderMoves
<1>6. CASE Search(r)
  <2>1. PICK near \in SUBSET Drivers :
          SetHold(r, [hold[r] EXCEPT
                       !.batch = issued[r] + 1,
                       !.todo = {d \in near : d \notin notified[r] \/ hold[r].round > 1},
                       !.chosen = {},
                       !.pc = "check"])
    BY <1>6 DEF Search
  <2> DEFINE h == [hold[r] EXCEPT
                     !.batch = issued[r] + 1,
                     !.todo = {d \in near : d \notin notified[r] \/ hold[r].round > 1},
                     !.chosen = {},
                     !.pc = "check"]
  <2>2. h.pc = "check" /\ h.snap = hold[r].snap
    BY <1>0 DEF HandlerType
  <2>3. hold[r].pc = "search" /\ UNCHANGED ride /\ hold' = [hold EXCEPT ![r] = h]
    BY <1>6, <2>1 DEF Search, At
  <2> HIDE DEF h
  <2>4. Consistent(h, ride[r])
    BY <1>0, <2>2, <2>3 DEF Consistent, MayWrite, SeesRide
  <2> QED
    BY <2>3, <2>4, HolderMoves
<1>7. CASE CheckCandidate(r)
  <2>1. PICK d \in hold[r].todo :
          SetHold(r, IF Reservable(d)
                     THEN [hold[r] EXCEPT !.who = d, !.pc = "reserve"]
                     ELSE [hold[r] EXCEPT !.todo = @ \ {d}])
    BY <1>7 DEF CheckCandidate
  <2> DEFINE h == IF Reservable(d)
                  THEN [hold[r] EXCEPT !.who = d, !.pc = "reserve"]
                  ELSE [hold[r] EXCEPT !.todo = @ \ {d}]
  <2>2. hold[r].pc = "check" /\ UNCHANGED ride /\ hold' = [hold EXCEPT ![r] = h]
    BY <1>7, <2>1 DEF CheckCandidate, At
  <2>3. /\ h.snap = hold[r].snap
        /\ \/ h.pc = "reserve" /\ h.who \in Drivers
           \/ h.pc = "check"
    BY <1>0, <2>2 DEF HandlerType
  <2> HIDE DEF h
  <2>4. Consistent(h, ride[r])
    BY <1>0, <2>2, <2>3 DEF Consistent, MayWrite, SeesRide
  <2> QED
    BY <2>2, <2>4, HolderMoves
<1>8. CASE ReserveCandidate(r)
  <2>1. PICK got : hold' = [hold EXCEPT ![r] = [hold[r] EXCEPT
                                !.chosen = got, !.who = NoDriver, !.pc = "check",
                                !.todo = IF Cardinality(got) >= BatchSize
                                         THEN {} ELSE @ \ {hold[r].who}]]
    BY <1>8 DEF ReserveCandidate
  <2> DEFINE h == [hold[r] EXCEPT !.chosen = got, !.who = NoDriver, !.pc = "check",
                                  !.todo = IF Cardinality(got) >= BatchSize
                                           THEN {} ELSE @ \ {hold[r].who}]
  <2>2. h.pc = "check" /\ h.snap = hold[r].snap
    BY <1>0 DEF HandlerType
  <2>3. hold[r].pc = "reserve" /\ UNCHANGED ride /\ hold' = [hold EXCEPT ![r] = h]
    BY <1>8, <2>1 DEF ReserveCandidate, At
  <2> HIDE DEF h
  <2>4. Consistent(h, ride[r])
    BY <1>0, <2>2, <2>3 DEF Consistent, MayWrite, SeesRide
  <2> QED
    BY <2>3, <2>4, HolderMoves
<1>9. CASE SendBatch(r) \/ ExpandSearch(r)
  BY <1>9, IdleConsistent, HolderMoves DEF SendBatch, ExpandSearch
<1>10. CASE GiveUp(r)
  <2> DEFINE new == [Cleared(ride[r]) EXCEPT !.status = "CANCELLED", !.noDrivers = TRUE,
                                             !.version = NextVersion(r)]
             h == [Idle EXCEPT !.snap = new, !.pc = "cleanup"]
  <2>1. h.pc = "cleanup"
    BY DEF Idle
  <2>2. ride' = [ride EXCEPT ![r] = new] /\ hold' = [hold EXCEPT ![r] = h]
    BY <1>10 DEF GiveUp
  <2> HIDE DEF new, h
  <2>3. Consistent(h, new)
    BY <2>1 DEF Consistent, MayWrite
  <2> QED
    BY <2>2, <2>3, HolderMoves
<1>11. CASE CleanupPending(r)
  <2> DEFINE h == [hold[r] EXCEPT !.pc = "cleanupReservations"]
  <2>1. h.pc = "cleanupReservations"
    BY <1>0 DEF HandlerType
  <2>2. UNCHANGED ride /\ hold' = [hold EXCEPT ![r] = h]
    BY <1>11 DEF CleanupPending, Goto
  <2> HIDE DEF h
  <2>3. Consistent(h, ride[r])
    BY <2>1 DEF Consistent, MayWrite
  <2> QED
    BY <2>2, <2>3, HolderMoves
<1>12. CASE CleanupReservations(r)
  <2> DEFINE g == [hold[r] EXCEPT !.pc = "releaseDriver"]
             h == IF hold[r].snap.driver = NoDriver THEN Idle ELSE g
  <2>1. g.pc = "releaseDriver" /\ g.snap = hold[r].snap
    BY <1>0 DEF HandlerType
  <2>2. UNCHANGED ride /\ hold' = [hold EXCEPT ![r] = h]
    BY <1>12 DEF CleanupReservations
  <2> HIDE DEF g
  <2>3. hold[r].snap.driver # NoDriver => Consistent(g, ride[r])
    BY <1>0, <2>1 DEF Consistent, MayWrite, RideType
  <2>4. Consistent(h, ride[r])
    BY <2>3, IdleConsistent
  <2> QED
    BY <2>2, <2>4, HolderMoves
<1>13. CASE ReleaseDriver(r)
  BY <1>13, IdleConsistent, HolderMoves DEF ReleaseDriver
<1>14. CASE ReadReject(r)
  <2> DEFINE g == [hold[r] EXCEPT !.seen = StillPending(r, hold[r].snap),
                                  !.pc = "writeReject"]
             h == IF responses[r][hold[r].who].kind \in {"NONE", "ACCEPTED"} THEN Idle ELSE g
  <2>1. g.pc = "writeReject" /\ g.snap = hold[r].snap /\ g.who = hold[r].who
    BY <1>0 DEF HandlerType
  <2>2. hold[r].pc = "readReject" /\ UNCHANGED ride /\ hold' = [hold EXCEPT ![r] = h]
    BY <1>14 DEF ReadReject, At
  <2> HIDE DEF g
  <2>3. Consistent(g, ride[r])
    BY <1>0, <2>1, <2>2 DEF Consistent, MayWrite, SeesRide
  <2>4. Consistent(h, ride[r])
    BY <2>3, IdleConsistent
  <2> QED
    BY <2>2, <2>4, HolderMoves
<1>15. CASE WriteReject(r)
  <2> DEFINE h == [hold[r] EXCEPT !.pc = "applyCooldown"]
             new == [ride[r] EXCEPT
                       !.batch = IF BatchExhausted(hold[r]) THEN 0 ELSE hold[r].snap.batch,
                       !.batchDrivers = IF BatchExhausted(hold[r]) THEN {}
                                        ELSE hold[r].snap.batchDrivers,
                       !.version = NextVersion(r)]
  <2>1. h.pc = "applyCooldown" /\ h.who = hold[r].who
    BY <1>0 DEF HandlerType
  <2>2. /\ hold[r].pc = "writeReject"
        /\ ride' = [ride EXCEPT ![r] = new]
        /\ hold' = [hold EXCEPT ![r] = h]
    BY <1>15 DEF WriteReject, At, Goto
  <2> HIDE DEF new, h
  <2>3. Consistent(h, new)
    BY <1>0, <2>1, <2>2 DEF Consistent, MayWrite
  <2> QED
    BY <2>2, <2>3, HolderMoves
<1>16. CASE ApplyCooldown(r)
  <2> DEFINE h == [hold[r] EXCEPT !.pc = "releaseRejected"]
  <2>1. h.pc = "releaseRejected" /\ h.who = hold[r].who
    BY <1>0 DEF HandlerType
  <2>2. hold[r].pc = "applyCooldown" /\ UNCHANGED ride /\ hold' = [hold EXCEPT ![r] = h]
    BY <1>16 DEF ApplyCooldown, At, Goto
  <2> HIDE DEF h
  <2>3. Consistent(h, ride[r])
    BY <1>0, <2>1, <2>2 DEF Consistent, MayWrite
  <2> QED
    BY <2>2, <2>3, HolderMoves
<1>17. CASE ReleaseRejected(r)
  <2> DEFINE h == IF BatchExhausted(hold[r]) THEN DispatchEntry(r) ELSE Idle
  <2>1. Consistent(h, ride[r])
    BY <1>0, IdleConsistent, DispatchEntryConsistent
  <2>2. UNCHANGED ride /\ hold' = [hold EXCEPT ![r] = h]
    BY <1>17 DEF ReleaseRejected
  <2> QED
    BY <2>1, <2>2, HolderMoves
<1>18. CASE WriteStatus(r)
  <2> DEFINE new == Transitioned(ride[r], hold[r])
             g == [Idle EXCEPT !.snap = new, !.pc = "cleanup"]
             h == IF hold[r].target \in TerminalRideStatuses THEN g ELSE Idle
  <2>1. g.pc = "cleanup"
    BY DEF Idle
  <2>2. ride' = [ride EXCEPT ![r] = new] /\ hold' = [hold EXCEPT ![r] = h]
    BY <1>18 DEF WriteStatus
  <2> HIDE DEF new, g
  <2>3. Consistent(h, new)
    BY <2>1, IdleConsistent DEF Consistent, MayWrite
  <2> QED
    BY <2>2, <2>3, HolderMoves
<1> QED
  BY <1>1, <1>2, <1>3, <1>4, <1>5, <1>6, <1>7, <1>8, <1>9, <1>10, <1>11, <1>12,
     <1>13, <1>14, <1>15, <1>16, <1>17, <1>18 DEF HandlerStep

LEMMA AcceptSideConsistent ==
  ASSUME IInv, NEW a \in accepts, AcceptStep(a)
  PROVE  SnapshotsCurrent'
<1>0. /\ a.ride \in Rides
      /\ a.driver \in Drivers
      /\ ride[a.ride] \in RideType
      /\ Consistent(hold[a.ride], ride[a.ride])
  BY DEF IInv, TypeOK, AcceptType, SnapshotsCurrent
<1>1. CASE AcceptWins(a)
  <2> DEFINE new == [Cleared(ride[a.ride]) EXCEPT
                       !.status = "ACCEPTED", !.driver = a.driver,
                       !.version = ride[a.ride].version + 1]
  <2>1. ride[a.ride].status = "DISPATCHING"
    BY <1>1 DEF AcceptWins, AcceptGuard
  <2>2. Consistent(hold[a.ride], new)
    BY <1>0, <2>1, AcceptConsistent
  <2>3. ride' = [ride EXCEPT ![a.ride] = new] /\ UNCHANGED hold
    BY <1>1 DEF AcceptWins, SetRide
  <2> HIDE DEF new
  <2> QED
    BY <1>0, <2>2, <2>3 DEF IInv, TypeOK, SnapshotsCurrent
<1>2. CASE AcceptRefused(a) \/ AcceptRelease(a) \/ AcceptClear(a)
  BY <1>2 DEF AcceptRefused, AcceptRelease, AcceptClear, rideVars, IInv, SnapshotsCurrent
<1> QED
  BY <1>1, <1>2 DEF AcceptStep

LEMMA NextConsistent ==
  ASSUME IInv, [Next]_vars
  PROVE  SnapshotsCurrent'
<1>1. CASE UNCHANGED vars
  BY <1>1 DEF vars, IInv, SnapshotsCurrent
<1>2. ASSUME NEW r \in Rides, Begin(r) \/ HandlerStep(r)
      PROVE  SnapshotsCurrent'
  BY <1>2, BeginConsistent, HandlerStepConsistent
<1>3. ASSUME NEW r \in Rides, NEW d \in Drivers, AcceptRead(r, d)
      PROVE  SnapshotsCurrent'
  BY <1>3 DEF AcceptRead, rideVars, IInv, SnapshotsCurrent
<1>4. CASE Environment
  <2>1. ASSUME NEW r \in Rides, HandlerDies(r)
        PROVE  SnapshotsCurrent'
    BY <2>1, IdleConsistent, HolderMoves DEF HandlerDies, rideVars, SetHold
  <2>2. ASSUME UNCHANGED <<ride, hold>>
        PROVE  SnapshotsCurrent'
    BY <2>2 DEF IInv, SnapshotsCurrent
  <2>3. ASSUME NEW r \in Rides, BatchLapses(r)
        PROVE  SnapshotsCurrent'
    BY <2>2, <2>3 DEF BatchLapses, rideVars
  <2>4. ASSUME NEW d \in Drivers,
               ReservationLapses(d) \/ CooldownLapses(d) \/ DriverAppears(d) \/ DriverLeaves(d)
        PROVE  SnapshotsCurrent'
    BY <2>2, <2>4
       DEF ReservationLapses, CooldownLapses, DriverAppears, DriverLeaves, rideVars
  <2>5. ASSUME NEW a \in accepts, AcceptDies(a)
        PROVE  SnapshotsCurrent'
    BY <2>2, <2>5 DEF AcceptDies, rideVars
  <2> QED
    BY <1>4, <2>1, <2>3, <2>4, <2>5 DEF Environment
<1> QED
  BY <1>1, <1>2, <1>3, <1>4, AcceptSideConsistent DEF Next

-----------------------------------------------------------------------------
\* The theorems.

LEMMA Invariance == Spec => []IInv
<1>1. Init => IInv
  <2>1. ASSUME Init, NEW r \in Rides
        PROVE  Consistent(hold[r], ride[r])
    <3>1. hold[r] = Idle
      BY <2>1 DEF Init
    <3> QED
      BY <3>1, IdleConsistent
  <2> QED
    BY <2>1, InitType DEF IInv, SnapshotsCurrent
<1>2. IInv /\ [Next]_vars => IInv'
  BY NextType, NextConsistent DEF IInv
<1> QED
  BY <1>1, <1>2, PTL DEF Spec

\* Every variable keeps its type, the search radius its cap.
THEOREM TypeCorrect == Spec => []TypeOK
<1>1. IInv => TypeOK
  BY DEF IInv
<1> QED
  BY <1>1, Invariance, PTL

\* Between the snapshot a handler reads and the write it makes from it, nothing
\* but one winning accept changes its ride.
THEOREM HandlersSeeTheirRides == Spec => []SnapshotsCurrent
<1>1. IInv => SnapshotsCurrent
  BY DEF IInv
<1> QED
  BY <1>1, Invariance, PTL

-----------------------------------------------------------------------------
\* The moves of a ride.

\* What one write may do to a ride: the steps of RideLifecycle, and a version
\* that does not go back.
RideMove(ri, new) ==
    /\ new.version >= ri.version
    /\ \/ /\ new.status = ri.status
          /\ new.driver = ri.driver
       \/ /\ ri.status = "DISPATCHING"
          /\ ri.driver = NoDriver
          /\ new.status = "ACCEPTED"
          /\ new.driver \in Drivers
       \/ /\ <<ri.status, new.status>> \in RideTransitions
          /\ new.status # "ACCEPTED"
          /\ new.status = "DISPATCHING" => ri.status = "REQUESTED"
          /\ new.driver = ri.driver

\* The version a handler writes is at least the one an accept left.
LEMMA NextVersionNoLess ==
  ASSUME TypeOK, NEW r \in Rides, SeesRide(hold[r], ride[r])
  PROVE  NextVersion(r) >= ride[r].version
<1>1. hold[r].snap.version \in Nat /\ ride[r].version \in Nat
  BY DEF TypeOK, HandlerType, RideType
<1> QED
  BY <1>1 DEF NextVersion, SeesRide

\* Every call of a handler that writes its ride makes such a move.
LEMMA HandlerMovesRide ==
  ASSUME IInv, NEW r \in Rides, HandlerStep(r)
  PROVE  \/ UNCHANGED ride
         \/ \E new \in RideType : /\ ride' = [ride EXCEPT ![r] = new]
                                  /\ RideMove(ride[r], new)
<1> USE DEF rideVars, SetRide
<1>0. /\ ride[r] \in RideType
      /\ hold[r] \in HandlerType
      /\ Consistent(hold[r], ride[r])
      /\ TypeOK
      /\ TypeOK'
      /\ ride'[r] \in RideType
  BY DispatchStepType, OtherStepType DEF IInv, TypeOK, SnapshotsCurrent, HandlerStep
<1>1. ASSUME NEW new, ride' = [ride EXCEPT ![r] = new], RideMove(ride[r], new)
      PROVE  \E n \in RideType : /\ ride' = [ride EXCEPT ![r] = n]
                                 /\ RideMove(ride[r], n)
  <2>1. new \in RideType
    BY <1>0, <1>1 DEF TypeOK
  <2> QED
    BY <1>1, <2>1
<1>2. CASE StartDispatching(r)
  <2> DEFINE new == [ride[r] EXCEPT !.status = "DISPATCHING", !.round = 1,
                                   !.radius = InitialRadius, !.version = NextVersion(r)]
  <2>1. /\ new.status = "DISPATCHING"
        /\ new.driver = ride[r].driver
        /\ new.version = NextVersion(r)
    BY <1>0 DEF RideType
  <2>2. hold[r].pc = "start" /\ ride' = [ride EXCEPT ![r] = new]
    BY <1>2 DEF StartDispatching, At
  <2> HIDE DEF new
  <2>3. SeesRide(hold[r], ride[r]) /\ ride[r].status = "REQUESTED"
    BY <1>0, <2>2 DEF Consistent, MayWrite, SeesRide
  <2>4. RideMove(ride[r], new)
    BY <1>0, <2>1, <2>3, NextVersionNoLess DEF RideMove, RideTransitions
  <2> QED
    BY <1>1, <2>2, <2>4
<1>3. CASE CloseBatch(r)
  <2> DEFINE new == [Cleared(ride[r]) EXCEPT !.version = NextVersion(r)]
  <2>1. /\ new.status = ride[r].status
        /\ new.driver = ride[r].driver
        /\ new.version = NextVersion(r)
    BY <1>0 DEF Cleared, RideType
  <2>2. hold[r].pc = "closeBatch" /\ ride' = [ride EXCEPT ![r] = new]
    BY <1>3 DEF CloseBatch, At
  <2> HIDE DEF new
  <2>3. SeesRide(hold[r], ride[r])
    BY <1>0, <2>2 DEF Consistent, MayWrite
  <2>4. RideMove(ride[r], new)
    BY <1>0, <2>1, <2>3, NextVersionNoLess DEF RideMove
  <2> QED
    BY <1>1, <2>2, <2>4
<1>4. CASE SendBatch(r)
  <2> DEFINE new == [ride[r] EXCEPT !.batch = hold[r].batch,
                                    !.batchDrivers = hold[r].chosen,
                                    !.version = NextVersion(r)]
  <2>1. /\ new.status = ride[r].status
        /\ new.driver = ride[r].driver
        /\ new.version = NextVersion(r)
    BY <1>0 DEF RideType
  <2>2. hold[r].pc = "check" /\ ride' = [ride EXCEPT ![r] = new]
    BY <1>4 DEF SendBatch, LoopDone, At
  <2> HIDE DEF new
  <2>3. SeesRide(hold[r], ride[r])
    BY <1>0, <2>2 DEF Consistent, MayWrite
  <2>4. RideMove(ride[r], new)
    BY <1>0, <2>1, <2>3, NextVersionNoLess DEF RideMove
  <2> QED
    BY <1>1, <2>2, <2>4
<1>5. CASE ExpandSearch(r)
  <2> DEFINE new == [Cleared(ride[r]) EXCEPT !.round = hold[r].round + 1,
                                             !.radius = NextRadius(hold[r].radius),
                                             !.version = NextVersion(r)]
  <2>1. /\ new.status = ride[r].status
        /\ new.driver = ride[r].driver
        /\ new.version = NextVersion(r)
    BY <1>0 DEF Cleared, RideType
  <2>2. hold[r].pc = "check" /\ ride' = [ride EXCEPT ![r] = new]
    BY <1>5 DEF ExpandSearch, LoopDone, At
  <2> HIDE DEF new
  <2>3. SeesRide(hold[r], ride[r])
    BY <1>0, <2>2 DEF Consistent, MayWrite
  <2>4. RideMove(ride[r], new)
    BY <1>0, <2>1, <2>3, NextVersionNoLess DEF RideMove
  <2> QED
    BY <1>1, <2>2, <2>4
<1>6. CASE GiveUp(r)
  <2> DEFINE new == [Cleared(ride[r]) EXCEPT !.status = "CANCELLED", !.noDrivers = TRUE,
                                             !.version = NextVersion(r)]
  <2>1. /\ new.status = "CANCELLED"
        /\ new.driver = ride[r].driver
        /\ new.version = NextVersion(r)
    BY <1>0 DEF Cleared, RideType
  <2>2. hold[r].pc = "check" /\ ride' = [ride EXCEPT ![r] = new]
    BY <1>6 DEF GiveUp, LoopDone, At
  <2> HIDE DEF new
  <2>3. SeesRide(hold[r], ride[r]) /\ ride[r].status \in {"DISPATCHING", "ACCEPTED"}
    BY <1>0, <2>2 DEF Consistent, MayWrite, SeesRide
  <2>4. RideMove(ride[r], new)
    BY <1>0, <2>1, <2>3, NextVersionNoLess DEF RideMove, RideTransitions
  <2> QED
    BY <1>1, <2>2, <2>4
<1>7. CASE WriteReject(r)
  <2> DEFINE new == [ride[r] EXCEPT
                       !.batch = IF BatchExhausted(hold[r]) THEN 0 ELSE hold[r].snap.batch,
                       !.batchDrivers = IF BatchExhausted(hold[r]) THEN {}
                                        ELSE hold[r].snap.batchDrivers,
                       !.version = NextVersion(r)]
  <2>1. /\ new.status = ride[r].status
        /\ new.driver = ride[r].driver
        /\ new.version = NextVersion(r)
    BY <1>0 DEF RideType
  <2>2. hold[r].pc = "writeReject" /\ ride' = [ride EXCEPT ![r] = new]
    BY <1>7 DEF WriteReject, At
  <2> HIDE DEF new
  <2>3. SeesRide(hold[r], ride[r])
    BY <1>0, <2>2 DEF Consistent, MayWrite
  <2>4. RideMove(ride[r], new)
    BY <1>0, <2>1, <2>3, NextVersionNoLess DEF RideMove
  <2> QED
    BY <1>1, <2>2, <2>4
<1>8. CASE WriteStatus(r)
  <2> DEFINE new == Transitioned(ride[r], hold[r])
  <2>1. /\ new.status = hold[r].target
        /\ new.driver = ride[r].driver
        /\ new.version = NextVersion(r)
    BY <1>0 DEF Transitioned, RideType, NextVersion
  <2>2. hold[r].pc = "writeStatus" /\ ride' = [ride EXCEPT ![r] = new]
    BY <1>8 DEF WriteStatus, At
  <2> HIDE DEF new
  <2>3. /\ SeesRide(hold[r], ride[r])
        /\ <<hold[r].snap.status, hold[r].target>> \in RideTransitions
        /\ hold[r].target \in DriverTransitions \union {"CANCELLED"}
    BY <1>0, <2>2 DEF Consistent, MayWrite
  <2>4. <<ride[r].status, hold[r].target>> \in RideTransitions
    BY <2>3 DEF SeesRide, RideTransitions, DriverTransitions
  <2>5. RideMove(ride[r], new)
    BY <1>0, <2>1, <2>3, <2>4, NextVersionNoLess DEF RideMove, DriverTransitions
  <2> QED
    BY <1>1, <2>2, <2>5
<1>9. CASE UNCHANGED ride
  BY <1>9
<1> QED
  BY <1>2, <1>3, <1>4, <1>5, <1>6, <1>7, <1>8, <1>9
     DEF HandlerStep, ReadResponses, ReleaseBatch, ClearBatchPending, Search, CheckCandidate,
         ReserveCandidate, CleanupPending, CleanupReservations, ReleaseDriver, ReadReject,
         ApplyCooldown, ReleaseRejected

\* And so does every step.
LEMMA NextMovesRide ==
  ASSUME IInv, [Next]_vars
  PROVE  \/ UNCHANGED ride
         \/ \E r \in Rides, new \in RideType : /\ ride' = [ride EXCEPT ![r] = new]
                                               /\ RideMove(ride[r], new)
<1> USE DEF rideVars
<1>1. CASE UNCHANGED vars
  BY <1>1 DEF vars
<1>2. ASSUME NEW r \in Rides, Begin(r)
      PROVE  UNCHANGED ride
  BY <1>2 DEF Begin, BeginDispatch, BeginTimeout, BeginReject, BeginTransition
<1>3. ASSUME NEW a \in accepts, AcceptWins(a)
      PROVE  \E r \in Rides, new \in RideType : /\ ride' = [ride EXCEPT ![r] = new]
                                                /\ RideMove(ride[r], new)
  <2> DEFINE new == [Cleared(ride[a.ride]) EXCEPT
                       !.status = "ACCEPTED", !.driver = a.driver,
                       !.version = ride[a.ride].version + 1]
  <2>0. /\ a.ride \in Rides
        /\ a.driver \in Drivers
        /\ ride[a.ride] \in RideType
        /\ ride[a.ride].version \in Nat
    BY DEF IInv, TypeOK, AcceptType, RideType
  <2>1. /\ new.status = "ACCEPTED"
        /\ new.driver = a.driver
        /\ new.version = ride[a.ride].version + 1
    BY <2>0 DEF Cleared, RideType
  <2>2. new \in RideType
    <3>1. ride[a.ride].version + 1 \in Nat
      BY <2>0
    <3> QED
      BY <2>0, <3>1, ClearedType DEF RideType, RideStatuses
  <2>3. ride' = [ride EXCEPT ![a.ride] = new]
    BY <1>3 DEF AcceptWins, SetRide
  <2> HIDE DEF new
  <2>4. RideMove(ride[a.ride], new)
    BY <1>3, <2>0, <2>1 DEF AcceptWins, AcceptGuard, RideMove
  <2> QED
    BY <2>0, <2>2, <2>3, <2>4
<1>4. ASSUME NEW a \in accepts, AcceptStep(a), ~AcceptWins(a)
      PROVE  UNCHANGED ride
  BY <1>4 DEF AcceptStep, AcceptRefused, AcceptRelease, AcceptClear
<1>5. ASSUME NEW r \in Rides, NEW d \in Drivers, AcceptRead(r, d)
      PROVE  UNCHANGED ride
  BY <1>5 DEF AcceptRead
<1>6. ASSUME Environment
      PROVE  UNCHANGED ride
  BY <1>6 DEF Environment, BatchLapses, HandlerDies, ReservationLapses, CooldownLapses,
              DriverAppears, DriverLeaves, AcceptDies
<1>7. ASSUME NEW r \in Rides, HandlerStep(r)
      PROVE  \/ UNCHANGED ride
             \/ \E new \in RideType : /\ ride' = [ride EXCEPT ![r] = new]
                                      /\ RideMove(ride[r], new)
  BY <1>7, HandlerMovesRide
<1> QED
  BY <1>1, <1>2, <1>3, <1>4, <1>5, <1>6, <1>7 DEF Next

\* The version of a ride never goes back.
THEOREM VersionMonotonic == Spec => VersionNeverDecreases
<1>1. IInv /\ [Next]_vars => [\A r \in Rides : ride'[r].version >= ride[r].version]_vars
  <2> SUFFICES ASSUME IInv, [Next]_vars, NEW q \in Rides
               PROVE  ride'[q].version >= ride[q].version
    OBVIOUS
  <2>1. ride[q].version \in Nat /\ ride \in [Rides -> RideType]
    BY DEF IInv, TypeOK, RideType
  <2>2. CASE UNCHANGED ride
    BY <2>1, <2>2
  <2>3. ASSUME NEW r \in Rides, NEW new \in RideType,
               ride' = [ride EXCEPT ![r] = new], RideMove(ride[r], new)
        PROVE  ride'[q].version >= ride[q].version
    BY <2>1, <2>3 DEF RideMove
  <2> QED
    BY <2>2, <2>3, NextMovesRide
<1> QED
  BY <1>1, Invariance, PTL DEF Spec, VersionNeverDecreases

\* RideDispatch implements RideLifecycle: under every interleaving of the
\* handlers, the accepts and the failures, a ride follows the table and is
\* assigned once.
THEOREM ImplementsLifecycle == Spec => Lifecycle
<1> DEFINE status == [r \in Rides |-> ride[r].status]
           driver == [r \in Rides |-> ride[r].driver]
<1>1. Init => Life!Init
  BY DEF Init, Life!Init, NewRide
<1>2. IInv /\ [Next]_vars => [Life!Next]_(Life!vars)
  <2> SUFFICES ASSUME IInv, [Next]_vars
               PROVE  [Life!Next]_(Life!vars)
    OBVIOUS
  <2>0. ride \in [Rides -> RideType]
    BY DEF IInv, TypeOK
  <2>1. CASE UNCHANGED ride
    BY <2>1 DEF Life!vars
  <2>2. ASSUME NEW r \in Rides, NEW new \in RideType,
               ride' = [ride EXCEPT ![r] = new], RideMove(ride[r], new)
        PROVE  [Life!Next]_(Life!vars)
    <3>1. /\ status' = [status EXCEPT ![r] = new.status]
          /\ driver' = [driver EXCEPT ![r] = new.driver]
          /\ status[r] = ride[r].status
          /\ driver[r] = ride[r].driver
      BY <2>0, <2>2
    <3>2. new.status \in RideStatuses /\ new.driver \in Drivers \union {NoDriver}
      BY DEF RideType
    <3>3. CASE new.status = ride[r].status /\ new.driver = ride[r].driver
      <4>1. status' = status /\ driver' = driver
        BY <2>0, <3>1, <3>3
      <4> QED
        BY <4>1 DEF Life!vars
    <3>4. CASE /\ ride[r].status = "DISPATCHING"
               /\ ride[r].driver = NoDriver
               /\ new.status = "ACCEPTED"
               /\ new.driver \in Drivers
      <4>1. Life!Assign(r, new.driver)
        BY <3>1, <3>4 DEF Life!Assign
      <4> QED
        BY <3>4, <4>1 DEF Life!Next
    <3>5. CASE /\ <<ride[r].status, new.status>> \in RideTransitions
               /\ new.status # "ACCEPTED"
               /\ new.status = "DISPATCHING" => ride[r].status = "REQUESTED"
               /\ new.driver = ride[r].driver
      <4>1. driver' = driver
        BY <2>0, <3>1, <3>5
      <4>2. Life!Advance(r, new.status)
        BY <3>1, <3>5, <4>1 DEF Life!Advance, Life!RideTransitions, RideTransitions
      <4> QED
        BY <3>2, <4>2 DEF Life!Next, Life!RideStatuses, RideStatuses
    <3> QED
      BY <2>2, <3>3, <3>4, <3>5 DEF RideMove
  <2> QED
    BY <2>1, <2>2, NextMovesRide
<1> QED
  BY <1>1, <1>2, Invariance, PTL DEF Spec, Lifecycle, Life!Spec

-----------------------------------------------------------------------------
\* One accepted answer.

\* The handlers' writes to the responses turn no answer into ACCEPTED.
LEMMA HandlersAcceptNothing ==
  ASSUME IInv, NEW r \in Rides, HandlerStep(r), NEW q \in Rides, NEW d \in Drivers,
         responses'[q][d].kind = "ACCEPTED"
  PROVE  responses[q][d].kind = "ACCEPTED"
<1> USE DEF rideVars, Answer, Pending
<1>0. responses \in [Rides -> [Drivers -> ResponseType]]
  BY DEF IInv, TypeOK
<1>1. CASE CloseBatch(r)
  BY <1>0, <1>1 DEF CloseBatch
<1>2. CASE SendBatch(r)
  BY <1>0, <1>2 DEF SendBatch
<1>3. CASE WriteReject(r)
  BY <1>0, <1>3 DEF WriteReject
<1>4. CASE UNCHANGED responses
  BY <1>4
<1> QED
  BY <1>1, <1>2, <1>3, <1>4
     DEF HandlerStep, StartDispatching, ReadResponses, ReleaseBatch, ClearBatchPending,
         Search, CheckCandidate, ReserveCandidate, ExpandSearch, GiveUp, CleanupPending,
         CleanupReservations, ReleaseDriver, ReadReject, ApplyCooldown, ReleaseRejected,
         WriteStatus

LEMMA OthersKeepResponses ==
  ASSUME [Next]_vars,
         \A r \in Rides : ~HandlerStep(r),
         \A a \in accepts : ~AcceptWins(a)
  PROVE  UNCHANGED responses
<1> USE DEF rideVars
<1>1. ASSUME NEW r \in Rides, Begin(r)
      PROVE  UNCHANGED responses
  BY <1>1 DEF Begin, BeginDispatch, BeginTimeout, BeginReject, BeginTransition
<1>2. ASSUME NEW r \in Rides, NEW d \in Drivers, AcceptRead(r, d)
      PROVE  UNCHANGED responses
  BY <1>2 DEF AcceptRead
<1>3. ASSUME NEW a \in accepts, AcceptStep(a)
      PROVE  UNCHANGED responses
  BY <1>3 DEF AcceptStep, AcceptRefused, AcceptRelease, AcceptClear
<1>4. ASSUME Environment
      PROVE  UNCHANGED responses
  BY <1>4 DEF Environment, BatchLapses, HandlerDies, ReservationLapses, CooldownLapses,
              DriverAppears, DriverLeaves, AcceptDies
<1>5. CASE UNCHANGED vars
  BY <1>5 DEF vars
<1> QED
  BY <1>1, <1>2, <1>3, <1>4, <1>5 DEF Next

\* At most one driver of a ride is recorded as having accepted it: the one
\* assigned to it.
THEOREM OneAccepted == Spec => []OneAnswerAccepted
<1>1. Init => OneAnswerAccepted
  BY DEF Init, OneAnswerAccepted, NoResponse
<1>2. IInv /\ OneAnswerAccepted /\ [Next]_vars => OneAnswerAccepted'
  <2> SUFFICES ASSUME IInv, OneAnswerAccepted, [Next]_vars,
                      NEW q \in Rides, NEW d \in Drivers,
                      responses'[q][d].kind = "ACCEPTED"
               PROVE  ride'[q].driver = d
    BY DEF OneAnswerAccepted
  <2>0. /\ ride \in [Rides -> RideType]
        /\ responses \in [Rides -> [Drivers -> ResponseType]]
        /\ d # NoDriver
    BY NoDriverAssumption DEF IInv, TypeOK
  <2>1. ASSUME responses[q][d].kind = "ACCEPTED"
        PROVE  ride'[q].driver = d
    <3>1. ride[q].driver = d
      BY <2>1 DEF OneAnswerAccepted
    <3>2. CASE UNCHANGED ride
      BY <3>1, <3>2
    <3>3. ASSUME NEW r \in Rides, NEW new \in RideType,
                 ride' = [ride EXCEPT ![r] = new], RideMove(ride[r], new)
          PROVE  ride'[q].driver = d
      BY <2>0, <3>1, <3>3 DEF RideMove
    <3> QED
      BY <3>2, <3>3, NextMovesRide
  <2>2. ASSUME NEW r \in Rides, HandlerStep(r)
        PROVE  ride'[q].driver = d
    BY <2>1, <2>2, HandlersAcceptNothing
  <2>3. ASSUME NEW a \in accepts, AcceptWins(a)
        PROVE  ride'[q].driver = d
    <3>0. /\ a.ride \in Rides
          /\ a.driver \in Drivers
          /\ ride[a.ride] \in RideType
      BY DEF IInv, TypeOK, AcceptType
    <3>1. /\ responses' = [responses EXCEPT ![a.ride][a.driver] = Answer("ACCEPTED")]
          /\ ride'[a.ride].driver = a.driver
      BY <2>0, <2>3, <3>0 DEF AcceptWins, SetRide, Cleared, RideType
    <3>2. CASE q = a.ride /\ d = a.driver
      BY <3>1, <3>2
    <3>3. CASE ~(q = a.ride /\ d = a.driver)
      BY <2>0, <2>1, <3>0, <3>1, <3>3
    <3> QED
      BY <3>2, <3>3
  <2>4. CASE UNCHANGED responses
    BY <2>1, <2>4
  <2> QED
    BY <2>2, <2>3, <2>4, OthersKeepResponses
<1> QED
  BY <1>1, <1>2, Invariance, PTL DEF Spec

-----------------------------------------------------------------------------
\* Who writes the status and the version, and from what.

\* What RideWrites sees of handler h.
SnapOf(h) == IF MayWrite(h) THEN StatusAndVersion(h.snap)
             ELSE [status |-> "NONE", version |-> 0]

WritersStep == [Writers!Next]_(Writers!vars)

\* The variables of RideWrites after a step of one ride and its handler.
LEMMA SeenByWriters ==
  ASSUME IInv, NEW r \in Rides, NEW h, NEW new,
         hold' = [hold EXCEPT ![r] = h],
         \/ ride' = [ride EXCEPT ![r] = new]
         \/ UNCHANGED ride /\ new = ride[r]
  PROVE  LET rides == [q \in Rides |-> StatusAndVersion(ride[q])]
             snaps == [q \in Rides |-> SnapOf(hold[q])]
         IN  /\ rides' = [rides EXCEPT ![r] = StatusAndVersion(new)]
             /\ snaps' = [snaps EXCEPT ![r] = SnapOf(h)]
             /\ rides[r] = StatusAndVersion(ride[r])
             /\ snaps[r] = SnapOf(hold[r])
<1> DEFINE rides == [q \in Rides |-> StatusAndVersion(ride[q])]
           snaps == [q \in Rides |-> SnapOf(hold[q])]
<1>1. /\ ride'[r] = new
      /\ hold'[r] = h
      /\ \A q \in Rides \ {r} : ride'[q] = ride[q] /\ hold'[q] = hold[q]
  BY DEF IInv, TypeOK
<1>2. /\ rides' = [q \in Rides |-> StatusAndVersion(ride'[q])]
      /\ snaps' = [q \in Rides |-> SnapOf(hold'[q])]
  BY DEF SnapOf, MayWrite, StatusAndVersion
<1>3. /\ rides = [q \in Rides |-> StatusAndVersion(ride[q])]
      /\ snaps = [q \in Rides |-> SnapOf(hold[q])]
  OBVIOUS
<1> HIDE DEF rides, snaps
<1>4. rides[r] = StatusAndVersion(ride[r]) /\ snaps[r] = SnapOf(hold[r])
  BY <1>3
<1>5. rides' = [rides EXCEPT ![r] = StatusAndVersion(new)]
  BY <1>1, <1>2, <1>3
<1>6. snaps' = [snaps EXCEPT ![r] = SnapOf(h)]
  BY <1>1, <1>2, <1>3
<1> QED
  BY <1>4, <1>5, <1>6 DEF rides, snaps

\* A handler that gets hold of its ride, keeps or renews what it read, or lets
\* go of it.
LEMMA HolderReads ==
  ASSUME IInv, NEW r \in Rides, NEW h,
         hold' = [hold EXCEPT ![r] = h],
         UNCHANGED ride,
         SnapOf(h) \in {Writers!Nothing, SnapOf(hold[r]), StatusAndVersion(ride[r])}
  PROVE  WritersStep
<1> DEFINE rides == [q \in Rides |-> StatusAndVersion(ride[q])]
           snaps == [q \in Rides |-> SnapOf(hold[q])]
<1>1. /\ rides' = [rides EXCEPT ![r] = rides[r]]
      /\ snaps' = [snaps EXCEPT ![r] = SnapOf(h)]
      /\ rides[r] = StatusAndVersion(ride[r])
      /\ snaps[r] = SnapOf(hold[r])
  BY SeenByWriters
<1>2. rides' = rides
  BY <1>1
<1>3. CASE SnapOf(h) = snaps[r]
  <2>1. snaps' = snaps
    BY <1>1, <1>3
  <2> QED
    BY <1>2, <2>1 DEF WritersStep, Writers!vars, SnapOf
<1>4. CASE SnapOf(h) \in {Writers!Nothing, rides[r]}
  <2>1. Writers!Read(r)
    BY <1>1, <1>2, <1>4 DEF Writers!Read, SnapOf
  <2> QED
    BY <2>1 DEF WritersStep, Writers!Next
<1> QED
  BY <1>1, <1>3, <1>4

\* A handler that writes its ride: an operation its snapshot allows, at the
\* version of the snapshot plus one.
LEMMA HolderWrites ==
  ASSUME IInv, NEW r \in Rides, NEW h, NEW new,
         hold' = [hold EXCEPT ![r] = h],
         ride' = [ride EXCEPT ![r] = new],
         MayWrite(hold[r]),
         NEW op \in Operations(hold[r].snap.status),
         new.status = IF op = "BATCH" THEN ride[r].status ELSE op,
         new.version = NextVersion(r),
         SnapOf(h) \in {Writers!Nothing, StatusAndVersion(new)}
  PROVE  WritersStep
<1> DEFINE rides == [q \in Rides |-> StatusAndVersion(ride[q])]
           snaps == [q \in Rides |-> SnapOf(hold[q])]
<1>1. /\ rides' = [rides EXCEPT ![r] = StatusAndVersion(new)]
      /\ snaps' = [snaps EXCEPT ![r] = SnapOf(h)]
      /\ rides[r] = StatusAndVersion(ride[r])
      /\ snaps[r] = SnapOf(hold[r])
  BY SeenByWriters
<1>2. snaps[r] = StatusAndVersion(hold[r].snap)
  BY <1>1 DEF SnapOf
<1>3. StatusAndVersion(new) =
        [status |-> IF op = "BATCH" THEN rides[r].status ELSE op,
         version |-> snaps[r].version + 1]
  BY <1>1, <1>2 DEF StatusAndVersion, NextVersion
<1>4. op \in Writers!Operations(snaps[r].status)
  BY <1>2 DEF StatusAndVersion, Operations, Writers!Operations, RideStatuses,
              Writers!RideStatuses, RideTransitions, Writers!RideTransitions
<1>5. op \in Writers!RideStatuses \union {"BATCH"}
  BY DEF Operations, RideStatuses, Writers!RideStatuses
<1>6. Writers!Write(r, op)
  <2> HIDE DEF rides, snaps
  <2>1. Writers!Becomes(r, StatusAndVersion(new), {Writers!Nothing, StatusAndVersion(new)})
    BY <1>1 DEF Writers!Becomes, rides, snaps, SnapOf
  <2> QED
    BY <1>3, <1>4, <2>1 DEF Writers!Write, rides, snaps, SnapOf
<1> QED
  BY <1>5, <1>6 DEF WritersStep, Writers!Next

\* Entering dispatchUnderLock is a reading of the ride, or nothing.
LEMMA EntryReads ==
  ASSUME NEW r \in Rides
  PROVE  SnapOf(DispatchEntry(r)) \in {Writers!Nothing, StatusAndVersion(ride[r])}
<1>1. SnapOf(Idle) = Writers!Nothing
  BY DEF SnapOf, MayWrite, Idle, Writers!Nothing
<1>2. DispatchEntry(r) = Idle \/ DispatchEntry(r).snap = ride[r]
  BY DEF DispatchEntry, Idle
<1> QED
  BY <1>1, <1>2 DEF SnapOf, Writers!Nothing

\* A handler past its write, or not yet started, goes by nothing.
LEMMA Letting ==
  ASSUME NEW h, ~MayWrite(h)
  PROVE  SnapOf(h) = Writers!Nothing
  BY DEF SnapOf, Writers!Nothing

\* One that keeps its snapshot goes by what it went by.
LEMMA Going ==
  ASSUME NEW h, NEW g, MayWrite(h), MayWrite(g), h.snap = g.snap
  PROVE  SnapOf(h) = SnapOf(g)
  BY DEF SnapOf

\* Every handler begins with a reading of its ride.
LEMMA BeginReads ==
  ASSUME IInv, NEW r \in Rides, Begin(r)
  PROVE  WritersStep
<1> USE DEF rideVars, SetHold
<1>1. CASE BeginDispatch(r)
  BY <1>1, EntryReads, HolderReads DEF BeginDispatch
<1>2. CASE BeginTimeout(r)
  <2> DEFINE h == [Idle EXCEPT !.op = "timeout", !.snap = ride[r], !.pc = "readResponses"]
  <2>1. SnapOf(h) = StatusAndVersion(ride[r])
    BY DEF SnapOf, MayWrite, Idle
  <2>2. hold' = [hold EXCEPT ![r] = h] /\ UNCHANGED ride
    BY <1>2 DEF BeginTimeout
  <2> QED
    BY <2>1, <2>2, HolderReads
<1>3. ASSUME NEW d \in Drivers, BeginReject(r, d)
      PROVE  WritersStep
  <2> DEFINE h == [Idle EXCEPT !.op = "reject", !.snap = ride[r], !.who = d,
                               !.pc = "readReject"]
  <2>1. SnapOf(h) = StatusAndVersion(ride[r])
    BY DEF SnapOf, MayWrite, Idle
  <2>2. hold' = [hold EXCEPT ![r] = h] /\ UNCHANGED ride
    BY <1>3 DEF BeginReject
  <2> QED
    BY <2>1, <2>2, HolderReads
<1>4. ASSUME NEW s \in DriverTransitions \union {"CANCELLED"}, BeginTransition(r, s)
      PROVE  WritersStep
  <2> DEFINE h == [Idle EXCEPT !.op = "transition", !.snap = ride[r], !.target = s,
                               !.pc = "writeStatus"]
  <2>1. SnapOf(h) = StatusAndVersion(ride[r])
    BY DEF SnapOf, MayWrite, Idle
  <2>2. hold' = [hold EXCEPT ![r] = h] /\ UNCHANGED ride
    BY <1>4 DEF BeginTransition
  <2> QED
    BY <2>1, <2>2, HolderReads
<1> QED
  BY <1>1, <1>2, <1>3, <1>4 DEF Begin

\* The calls that write the ride.
LEMMA WritesFollow ==
  ASSUME IInv, NEW r \in Rides,
         \/ StartDispatching(r) \/ CloseBatch(r) \/ SendBatch(r) \/ ExpandSearch(r)
         \/ GiveUp(r) \/ WriteReject(r) \/ WriteStatus(r)
  PROVE  WritersStep
<1> USE DEF SetHold, SetRide
<1>0. /\ ride[r] \in RideType
      /\ hold[r] \in HandlerType
      /\ Consistent(hold[r], ride[r])
  BY DEF IInv, TypeOK, SnapshotsCurrent
<1>i. SnapOf(Idle) = Writers!Nothing
  BY Letting DEF MayWrite, Idle
<1>b. \A s \in {"DISPATCHING", "ACCEPTED"} : {"BATCH", "CANCELLED"} \subseteq Operations(s)
  BY DEF Operations, RideStatuses, RideTransitions
<1>1. CASE StartDispatching(r)
  <2> DEFINE new == [ride[r] EXCEPT !.status = "DISPATCHING", !.round = 1,
                                   !.radius = InitialRadius, !.version = NextVersion(r)]
             h == [hold[r] EXCEPT !.snap = new, !.pc = "search"]
  <2>1. new.status = "DISPATCHING" /\ new.version = NextVersion(r)
    BY <1>0 DEF RideType
  <2>2. h.pc = "search" /\ h.snap = new
    BY <1>0 DEF HandlerType
  <2>3. /\ hold[r].pc = "start"
        /\ ride' = [ride EXCEPT ![r] = new]
        /\ hold' = [hold EXCEPT ![r] = h]
    BY <1>1 DEF StartDispatching, At
  <2> HIDE DEF new, h
  <2>4. SnapOf(h) = StatusAndVersion(new)
    BY <2>2 DEF SnapOf, MayWrite
  <2>5. MayWrite(hold[r]) /\ "DISPATCHING" \in Operations(hold[r].snap.status)
    BY <1>0, <2>3 DEF Consistent, MayWrite, Operations, RideStatuses, RideTransitions
  <2> QED
    BY <2>1, <2>3, <2>4, <2>5, HolderWrites
<1>2. CASE CloseBatch(r)
  <2> DEFINE new == [Cleared(ride[r]) EXCEPT !.version = NextVersion(r)]
             h == [hold[r] EXCEPT !.pc = "releaseBatch"]
  <2>1. new.status = ride[r].status /\ new.version = NextVersion(r)
    BY <1>0 DEF Cleared, RideType
  <2>2. h.pc = "releaseBatch"
    BY <1>0 DEF HandlerType
  <2>3. /\ hold[r].pc = "closeBatch"
        /\ ride' = [ride EXCEPT ![r] = new]
        /\ hold' = [hold EXCEPT ![r] = h]
    BY <1>2 DEF CloseBatch, At, Goto
  <2> HIDE DEF new, h
  <2>4. SnapOf(h) = Writers!Nothing
    BY <2>2, Letting DEF MayWrite
  <2>5. MayWrite(hold[r]) /\ "BATCH" \in Operations(hold[r].snap.status)
    BY <1>0, <1>b, <2>3 DEF Consistent, MayWrite
  <2> QED
    BY <2>1, <2>3, <2>4, <2>5, HolderWrites
<1>3. CASE SendBatch(r)
  <2> DEFINE new == [ride[r] EXCEPT !.batch = hold[r].batch,
                                    !.batchDrivers = hold[r].chosen,
                                    !.version = NextVersion(r)]
  <2>1. new.status = ride[r].status /\ new.version = NextVersion(r)
    BY <1>0 DEF RideType
  <2>2. /\ hold[r].pc = "check"
        /\ ride' = [ride EXCEPT ![r] = new]
        /\ hold' = [hold EXCEPT ![r] = Idle]
    BY <1>3 DEF SendBatch, LoopDone, At
  <2> HIDE DEF new
  <2>3. MayWrite(hold[r]) /\ "BATCH" \in Operations(hold[r].snap.status)
    BY <1>0, <1>b, <2>2 DEF Consistent, MayWrite
  <2> QED
    BY <1>i, <2>1, <2>2, <2>3, HolderWrites
<1>4. CASE ExpandSearch(r)
  <2> DEFINE new == [Cleared(ride[r]) EXCEPT !.round = hold[r].round + 1,
                                             !.radius = NextRadius(hold[r].radius),
                                             !.version = NextVersion(r)]
  <2>1. new.status = ride[r].status /\ new.version = NextVersion(r)
    BY <1>0 DEF Cleared, RideType
  <2>2. /\ hold[r].pc = "check"
        /\ ride' = [ride EXCEPT ![r] = new]
        /\ hold' = [hold EXCEPT ![r] = Idle]
    BY <1>4 DEF ExpandSearch, LoopDone, At
  <2> HIDE DEF new
  <2>3. MayWrite(hold[r]) /\ "BATCH" \in Operations(hold[r].snap.status)
    BY <1>0, <1>b, <2>2 DEF Consistent, MayWrite
  <2> QED
    BY <1>i, <2>1, <2>2, <2>3, HolderWrites
<1>5. CASE GiveUp(r)
  <2> DEFINE new == [Cleared(ride[r]) EXCEPT !.status = "CANCELLED", !.noDrivers = TRUE,
                                             !.version = NextVersion(r)]
             h == [Idle EXCEPT !.snap = new, !.pc = "cleanup"]
  <2>1. new.status = "CANCELLED" /\ new.version = NextVersion(r)
    BY <1>0 DEF Cleared, RideType
  <2>2. h.pc = "cleanup"
    BY DEF Idle
  <2>3. /\ hold[r].pc = "check"
        /\ ride' = [ride EXCEPT ![r] = new]
        /\ hold' = [hold EXCEPT ![r] = h]
    BY <1>5 DEF GiveUp, LoopDone, At
  <2> HIDE DEF new, h
  <2>4. SnapOf(h) = Writers!Nothing
    BY <2>2, Letting DEF MayWrite
  <2>5. MayWrite(hold[r]) /\ "CANCELLED" \in Operations(hold[r].snap.status)
    BY <1>0, <1>b, <2>3 DEF Consistent, MayWrite
  <2> QED
    BY <2>1, <2>3, <2>4, <2>5, HolderWrites
<1>6. CASE WriteReject(r)
  <2> DEFINE new == [ride[r] EXCEPT
                       !.batch = IF BatchExhausted(hold[r]) THEN 0 ELSE hold[r].snap.batch,
                       !.batchDrivers = IF BatchExhausted(hold[r]) THEN {}
                                        ELSE hold[r].snap.batchDrivers,
                       !.version = NextVersion(r)]
             h == [hold[r] EXCEPT !.pc = "applyCooldown"]
  <2>1. new.status = ride[r].status /\ new.version = NextVersion(r)
    BY <1>0 DEF RideType
  <2>2. h.pc = "applyCooldown"
    BY <1>0 DEF HandlerType
  <2>3. /\ hold[r].pc = "writeReject"
        /\ ride' = [ride EXCEPT ![r] = new]
        /\ hold' = [hold EXCEPT ![r] = h]
    BY <1>6 DEF WriteReject, At, Goto
  <2> HIDE DEF new, h
  <2>4. SnapOf(h) = Writers!Nothing
    BY <2>2, Letting DEF MayWrite
  <2>5. MayWrite(hold[r]) /\ "BATCH" \in Operations(hold[r].snap.status)
    BY <1>0, <1>b, <2>3 DEF Consistent, MayWrite
  <2> QED
    BY <2>1, <2>3, <2>4, <2>5, HolderWrites
<1>7. CASE WriteStatus(r)
  <2> DEFINE new == Transitioned(ride[r], hold[r])
             g == [Idle EXCEPT !.snap = new, !.pc = "cleanup"]
             h == IF hold[r].target \in TerminalRideStatuses THEN g ELSE Idle
  <2>1. new.status = hold[r].target /\ new.version = NextVersion(r)
    BY <1>0 DEF Transitioned, RideType, NextVersion
  <2>2. g.pc = "cleanup"
    BY DEF Idle
  <2>3. /\ hold[r].pc = "writeStatus"
        /\ ride' = [ride EXCEPT ![r] = new]
        /\ hold' = [hold EXCEPT ![r] = h]
    BY <1>7 DEF WriteStatus, At
  <2> HIDE DEF new, g
  <2>4. SnapOf(h) = Writers!Nothing
    BY <1>i, <2>2, Letting DEF MayWrite
  <2> HIDE DEF h
  <2>5. /\ MayWrite(hold[r])
        /\ hold[r].target \in Operations(hold[r].snap.status)
        /\ hold[r].target # "BATCH"
    BY <1>0, <2>3 DEF Consistent, MayWrite, Operations, RideStatuses, RideTransitions,
                      DriverTransitions
  <2> QED
    BY <2>1, <2>3, <2>4, <2>5, HolderWrites
<1> QED
  BY <1>1, <1>2, <1>3, <1>4, <1>5, <1>6, <1>7

\* The calls that do not.
LEMMA ReadsFollow ==
  ASSUME IInv, NEW r \in Rides,
         \/ ReadResponses(r) \/ ReleaseBatch(r) \/ ClearBatchPending(r)
         \/ Search(r) \/ CheckCandidate(r) \/ ReserveCandidate(r)
         \/ CleanupPending(r) \/ CleanupReservations(r) \/ ReleaseDriver(r)
         \/ ReadReject(r) \/ ApplyCooldown(r) \/ ReleaseRejected(r)
  PROVE  WritersStep
<1> USE DEF rideVars, SetHold, SetRide
<1>0. /\ hold[r] \in HandlerType
      /\ UNCHANGED ride
  BY DEF IInv, TypeOK, ReadResponses, ReleaseBatch, ClearBatchPending, Search,
         CheckCandidate, ReserveCandidate, CleanupPending, CleanupReservations,
         ReleaseDriver, ReadReject, ApplyCooldown, ReleaseRejected
<1>i. SnapOf(Idle) = Writers!Nothing
  BY Letting DEF MayWrite, Idle
<1>1. CASE ReadResponses(r)
  <2> DEFINE h == [hold[r] EXCEPT !.seen = StillPending(r, hold[r].snap),
                                  !.pc = "closeBatch"]
  <2>1. h.pc = "closeBatch" /\ h.snap = hold[r].snap
    BY <1>0 DEF HandlerType
  <2>2. hold[r].pc = "readResponses" /\ hold' = [hold EXCEPT ![r] = h]
    BY <1>1 DEF ReadResponses, At
  <2> HIDE DEF h
  <2>3. SnapOf(h) = SnapOf(hold[r])
    BY <2>1, <2>2, Going DEF MayWrite
  <2> QED
    BY <1>0, <2>2, <2>3, HolderReads
<1>2. ASSUME NEW p \in {"clearPending", "cleanupReservations", "releaseRejected"}, Goto(r, p)
      PROVE  WritersStep
  <2> DEFINE h == [hold[r] EXCEPT !.pc = p]
  <2>1. h.pc = p
    BY <1>0 DEF HandlerType
  <2>2. hold' = [hold EXCEPT ![r] = h]
    BY <1>2 DEF Goto
  <2> HIDE DEF h
  <2>3. SnapOf(h) = Writers!Nothing
    BY <2>1, Letting DEF MayWrite
  <2> QED
    BY <1>0, <2>2, <2>3, HolderReads
<1>3. CASE ReleaseBatch(r) \/ CleanupPending(r) \/ ApplyCooldown(r)
  BY <1>2, <1>3 DEF ReleaseBatch, CleanupPending, ApplyCooldown
<1>4. CASE ClearBatchPending(r)
  <2> DEFINE g == [hold[r] EXCEPT !.snap = ride[r], !.seen = {}, !.pc = "search"]
             h == IF hold[r].op = "timeout" THEN DispatchEntry(r) ELSE g
  <2>1. g.pc = "search" /\ g.snap = ride[r]
    BY <1>0 DEF HandlerType
  <2>2. hold' = [hold EXCEPT ![r] = h]
    BY <1>4 DEF ClearBatchPending
  <2> HIDE DEF g
  <2>3. SnapOf(g) = StatusAndVersion(ride[r])
    BY <2>1 DEF SnapOf, MayWrite
  <2> QED
    BY <1>0, <2>2, <2>3, EntryReads, HolderReads
<1>5. CASE Search(r)
  <2>1. PICK near \in SUBSET Drivers :
          SetHold(r, [hold[r] EXCEPT
                       !.batch = issued[r] + 1,
                       !.todo = {d \in near : d \notin notified[r] \/ hold[r].round > 1},
                       !.chosen = {},
                       !.pc = "check"])
    BY <1>5 DEF Search
  <2> DEFINE h == [hold[r] EXCEPT
                     !.batch = issued[r] + 1,
                     !.todo = {d \in near : d \notin notified[r] \/ hold[r].round > 1},
                     !.chosen = {},
                     !.pc = "check"]
  <2>2. h.pc = "check" /\ h.snap = hold[r].snap
    BY <1>0 DEF HandlerType
  <2>3. hold[r].pc = "search" /\ hold' = [hold EXCEPT ![r] = h]
    BY <1>5, <2>1 DEF Search, At
  <2> HIDE DEF h
  <2>4. SnapOf(h) = SnapOf(hold[r])
    BY <2>2, <2>3, Going DEF MayWrite
  <2> QED
    BY <1>0, <2>3, <2>4, HolderReads
<1>6. CASE CheckCandidate(r)
  <2>1. PICK d \in hold[r].todo :
          SetHold(r, IF Reservable(d)
                     THEN [hold[r] EXCEPT !.who = d, !.pc = "reserve"]
                     ELSE [hold[r] EXCEPT !.todo = @ \ {d}])
    BY <1>6 DEF CheckCandidate
  <2> DEFINE h == IF Reservable(d)
                  THEN [hold[r] EXCEPT !.who = d, !.pc = "reserve"]
                  ELSE [hold[r] EXCEPT !.todo = @ \ {d}]
  <2>2. hold[r].pc = "check" /\ hold' = [hold EXCEPT ![r] = h]
    BY <1>6, <2>1 DEF CheckCandidate, At
  <2>3. h.snap = hold[r].snap /\ h.pc \in {"reserve", "check"}
    BY <1>0, <2>2 DEF HandlerType
  <2> HIDE DEF h
  <2>4. SnapOf(h) = SnapOf(hold[r])
    BY <2>2, <2>3, Going DEF MayWrite
  <2> QED
    BY <1>0, <2>2, <2>4, HolderReads
<1>7. CASE ReserveCandidate(r)
  <2>1. PICK got : hold' = [hold EXCEPT ![r] = [hold[r] EXCEPT
                                !.chosen = got, !.who = NoDriver, !.pc = "check",
                                !.todo = IF Cardinality(got) >= BatchSize
                                         THEN {} ELSE @ \ {hold[r].who}]]
    BY <1>7 DEF ReserveCandidate
  <2> DEFINE h == [hold[r] EXCEPT !.chosen = got, !.who = NoDriver, !.pc = "check",
                                  !.todo = IF Cardinality(got) >= BatchSize
                                           THEN {} ELSE @ \ {hold[r].who}]
  <2>2. h.pc = "check" /\ h.snap = hold[r].snap
    BY <1>0 DEF HandlerType
  <2>3. hold[r].pc = "reserve" /\ hold' = [hold EXCEPT ![r] = h]
    BY <1>7, <2>1 DEF ReserveCandidate, At
  <2> HIDE DEF h
  <2>4. SnapOf(h) = SnapOf(hold[r])
    BY <2>2, <2>3, Going DEF MayWrite
  <2> QED
    BY <1>0, <2>3, <2>4, HolderReads
<1>8. CASE CleanupReservations(r)
  <2> DEFINE g == [hold[r] EXCEPT !.pc = "releaseDriver"]
             h == IF hold[r].snap.driver = NoDriver THEN Idle ELSE g
  <2>1. g.pc = "releaseDriver"
    BY <1>0 DEF HandlerType
  <2>2. hold' = [hold EXCEPT ![r] = h]
    BY <1>8 DEF CleanupReservations
  <2> HIDE DEF g
  <2>3. SnapOf(g) = Writers!Nothing
    BY <2>1, Letting DEF MayWrite
  <2> QED
    BY <1>0, <1>i, <2>2, <2>3, HolderReads
<1>9. CASE ReleaseDriver(r)
  BY <1>0, <1>i, <1>9, HolderReads DEF ReleaseDriver
<1>10. CASE ReadReject(r)
  <2> DEFINE g == [hold[r] EXCEPT !.seen = StillPending(r, hold[r].snap),
                                  !.pc = "writeReject"]
             h == IF responses[r][hold[r].who].kind \in {"NONE", "ACCEPTED"} THEN Idle ELSE g
  <2>1. g.pc = "writeReject" /\ g.snap = hold[r].snap
    BY <1>0 DEF HandlerType
  <2>2. hold[r].pc = "readReject" /\ hold' = [hold EXCEPT ![r] = h]
    BY <1>10 DEF ReadReject, At
  <2> HIDE DEF g
  <2>3. SnapOf(g) = SnapOf(hold[r])
    BY <2>1, <2>2, Going DEF MayWrite
  <2> QED
    BY <1>0, <1>i, <2>2, <2>3, HolderReads
<1>11. CASE ReleaseRejected(r)
  <2> DEFINE h == IF BatchExhausted(hold[r]) THEN DispatchEntry(r) ELSE Idle
  <2>1. hold' = [hold EXCEPT ![r] = h]
    BY <1>11 DEF ReleaseRejected
  <2> QED
    BY <1>0, <1>i, <2>1, EntryReads, HolderReads
<1> QED
  BY <1>1, <1>3, <1>4, <1>5, <1>6, <1>7, <1>8, <1>9, <1>10, <1>11

\* The accept script increments the version where it is, whoever holds the ride.
LEMMA AcceptFollows ==
  ASSUME IInv, NEW a \in accepts, AcceptWins(a)
  PROVE  WritersStep
<1> DEFINE r == a.ride
           new == [Cleared(ride[r]) EXCEPT !.status = "ACCEPTED", !.driver = a.driver,
                                           !.version = ride[r].version + 1]
           rides == [q \in Rides |-> StatusAndVersion(ride[q])]
           snaps == [q \in Rides |-> SnapOf(hold[q])]
<1>0. /\ r \in Rides
      /\ ride[r] \in RideType
      /\ hold \in [Rides -> HandlerType]
  BY DEF IInv, TypeOK, AcceptType
<1>1. /\ ride[r].status = "DISPATCHING"
      /\ ride' = [ride EXCEPT ![r] = new]
      /\ UNCHANGED hold
  BY DEF AcceptWins, AcceptGuard, SetRide
<1>2. StatusAndVersion(new) = [status |-> "ACCEPTED", version |-> ride[r].version + 1]
  BY <1>0 DEF StatusAndVersion, Cleared, RideType
<1> HIDE DEF r, new
<1>3. PICK h : h = hold[r]
  OBVIOUS
<1>h. hold' = [hold EXCEPT ![r] = h] /\ ride' = [ride EXCEPT ![r] = new]
  BY <1>0, <1>1, <1>3
<1>4. /\ rides' = [rides EXCEPT ![r] = StatusAndVersion(new)]
      /\ snaps' = [snaps EXCEPT ![r] = SnapOf(hold[r])]
      /\ rides[r] = StatusAndVersion(ride[r])
      /\ snaps[r] = SnapOf(hold[r])
  <2>1. /\ rides' = [rides EXCEPT ![r] = StatusAndVersion(new)]
        /\ snaps' = [snaps EXCEPT ![r] = SnapOf(h)]
        /\ rides[r] = StatusAndVersion(ride[r])
        /\ snaps[r] = SnapOf(hold[r])
    BY <1>0, <1>h, SeenByWriters
  <2> QED
    BY <1>3, <2>1
<1> HIDE DEF rides, snaps
<1>5. /\ rides[r].status = "DISPATCHING"
      /\ StatusAndVersion(new) = [status |-> "ACCEPTED", version |-> rides[r].version + 1]
  BY <1>1, <1>2, <1>4 DEF StatusAndVersion
<1>6. Writers!Accept(r)
  <2>1. Writers!Becomes(r, StatusAndVersion(new), {snaps[r], StatusAndVersion(new)})
    BY <1>4 DEF Writers!Becomes, rides, snaps, SnapOf
  <2> QED
    BY <1>5, <2>1 DEF Writers!Accept, rides, snaps, SnapOf
<1> QED
  BY <1>0, <1>6 DEF WritersStep, Writers!Next

\* RideDispatch implements RideWrites: under every interleaving of handlers,
\* accepts and failures, the status and the version of a ride are written as
\* RideCopies and CustomerFeed assume they are.
THEOREM WritersKeepTheContract == Spec => WritesAsAgreed
<1>1. Init => Writers!Init
  <2> SUFFICES ASSUME Init
               PROVE  Writers!Init
    OBVIOUS
  <2>1. \A r \in Rides : ride[r] = NewRide /\ hold[r] = Idle
    BY DEF Init
  <2>2. /\ StatusAndVersion(NewRide) = [status |-> "REQUESTED", version |-> 1]
        /\ ~MayWrite(Idle)
    BY DEF StatusAndVersion, NewRide, MayWrite, Idle
  <2> QED
    BY <2>1, <2>2 DEF Writers!Init, Writers!Nothing
<1>2. IInv /\ [Next]_vars => [Writers!Next]_(Writers!vars)
  <2> SUFFICES ASSUME IInv, [Next]_vars
               PROVE  WritersStep
    BY DEF WritersStep
  <2>1. ASSUME UNCHANGED <<ride, hold>>
        PROVE  WritersStep
    BY <2>1 DEF WritersStep, Writers!vars, MayWrite, StatusAndVersion
  <2>2. CASE UNCHANGED vars
    BY <2>1, <2>2 DEF vars
  <2>3. ASSUME NEW r \in Rides, Begin(r)
        PROVE  WritersStep
    BY <2>3, BeginReads
  <2>4. ASSUME NEW r \in Rides, HandlerStep(r)
        PROVE  WritersStep
    BY <2>4, WritesFollow, ReadsFollow DEF HandlerStep
  <2>5. ASSUME NEW r \in Rides, NEW d \in Drivers, AcceptRead(r, d)
        PROVE  WritersStep
    BY <2>1, <2>5 DEF AcceptRead, rideVars
  <2>6. ASSUME NEW a \in accepts, AcceptStep(a)
        PROVE  WritersStep
    BY <2>1, <2>6, AcceptFollows
       DEF AcceptStep, AcceptRefused, AcceptRelease, AcceptClear, rideVars
  <2>7. ASSUME NEW r \in Rides, HandlerDies(r)
        PROVE  WritersStep
    BY <2>7, Letting, HolderReads DEF HandlerDies, SetHold, rideVars, MayWrite, Idle
  <2>8. ASSUME Environment, \A r \in Rides : ~HandlerDies(r)
        PROVE  WritersStep
    BY <2>1, <2>8 DEF Environment, BatchLapses, ReservationLapses, CooldownLapses,
                      DriverAppears, DriverLeaves, AcceptDies, rideVars
  <2> QED
    BY <2>2, <2>3, <2>4, <2>5, <2>6, <2>7, <2>8 DEF Next
<1> QED
  BY <1>1, <1>2, Invariance, PTL DEF Spec, WritesAsAgreed, Writers!Spec
=============================================================================
