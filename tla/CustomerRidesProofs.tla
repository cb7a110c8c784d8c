------------------------- MODULE CustomerRidesProofs -------------------------
(***************************************************************************)
(* Proofs about CustomerRides, for any number of requests and keys.        *)
(***************************************************************************)
EXTENDS CustomerRides, TLAPS

\* A key some request came with is set, or was and ran out.
KeysUsed ==
    \A q \in Requests :
        /\ key[q] # NoKey => key[q] \in seen \union expired
        /\ pc[q] = "new" => key[q] = NoKey

\* Two requests that came with one key: it ran out between them.
KeysApart ==
    \A q, r \in Requests :
        q # r /\ key[q] = key[r] /\ key[q] # NoKey => key[q] \in expired

\* A request has a ride only when its handler is through with it, and a ride
\* is cleaned up only after its end.
RidesInOrder ==
    \A q \in Requests :
        /\ pc[q] \notin {"unlock", "done"} => ride[q] = "none"
        /\ cleaning[q] # "no" => ride[q] \in {"over", "gone"}

\* What a handler inside the lock has read of the customer's ride holds.
ReadsHold ==
    \A q \in Requests :
        /\ pc[q] = "ride" => found[q] \in Requests
        /\ lapsed = {} /\ ~overlapped =>
             /\ pc[q] = "ride" => Live \subseteq {found[q]}
             /\ pc[q] = "create" => Live = {}

IInv ==
    /\ TypeOK
    /\ InsideHoldsLock
    /\ CounterHasEnd
    /\ KeysUsed
    /\ KeysApart
    /\ RidesInOrder
    /\ ActiveRideNamed
    /\ ReadsHold

LEMMA Invariant0 == Init => IInv
<1> SUFFICES ASSUME Init PROVE IInv
  OBVIOUS
<1>1. TypeOK
  <2>1. window \in BOOLEAN /\ leaked \in BOOLEAN /\ overlapped \in BOOLEAN
    BY Zenon DEF Init
  <2>2. count \in Nat /\ deaths \in 0..Deaths
    BY BoundsAssumption DEF Init
  <2> QED
    BY <2>1, <2>2 DEF Init, TypeOK, Steps
<1>2. InsideHoldsLock /\ CounterHasEnd /\ RidesInOrder
  BY DEF Init, InsideHoldsLock, CounterHasEnd, RidesInOrder, Inside
<1>3. KeysUsed /\ KeysApart
  BY DEF Init, KeysUsed, KeysApart
<1>4. ActiveRideNamed /\ ReadsHold
  BY DEF Init, ActiveRideNamed, ReadsHold, Live
<1> QED
  BY <1>1, <1>2, <1>3, <1>4 DEF IInv

\* A key expires only after it was set, and a handler's next step is a step.
LEMMA TypeStep == TypeOK /\ ReadsHold /\ [Next]_vars => TypeOK'
<1> SUFFICES ASSUME TypeOK, ReadsHold, [Next]_vars PROVE TypeOK'
  OBVIOUS
<1> USE DEF TypeOK, Goto, handlerVars, gateVars, limitVars, rideVars
<1>1. ASSUME NEW q \in Requests, NEW k \in Keys, ArriveBySocket(q, k)
      PROVE  TypeOK'
  BY <1>1 DEF ArriveBySocket, Steps
<1>2. ASSUME NEW q \in Requests, ArriveByHttp(q) PROVE TypeOK'
  BY <1>2 DEF ArriveByHttp, Steps
<1>3. ASSUME NEW q \in Requests, Incr(q) PROVE TypeOK'
  BY <1>3 DEF Incr, AfterIncr, Steps
<1>4. ASSUME NEW q \in Requests, Expire(q) PROVE TypeOK'
  BY <1>4 DEF Expire, Steps
<1>5. ASSUME NEW q \in Requests, Lock(q) PROVE TypeOK'
  BY <1>5 DEF Lock, LockFree, Steps, Inside
<1>6. ASSUME NEW q \in Requests, ReadPointer(q) PROVE TypeOK'
  BY <1>6 DEF ReadPointer, Steps, Inside
<1>7. ASSUME NEW q \in Requests, ReadRide(q) PROVE TypeOK'
  BY <1>7 DEF ReadRide, Steps, Inside
<1>8. ASSUME NEW q \in Requests, Create(q) PROVE TypeOK'
  BY <1>8 DEF Create, Steps
<1>9. ASSUME NEW q \in Requests, Unlock(q) PROVE TypeOK'
  BY <1>9 DEF Unlock, Released, Steps
<1>10. ASSUME NEW q \in Requests, Die(q) PROVE TypeOK'
  BY <1>10, BoundsAssumption DEF Die, Steps
<1>11. ASSUME NEW q \in Requests,
              EndRide(q) \/ Cleanup(q) \/ HashExpires(q) \/ RemoveGhost(q)
       PROVE  TypeOK'
  BY <1>11 DEF EndRide, Cleanup, CleanupRead, CleanupWrite, HashExpires, RemoveGhost
<1>12. ASSUME NEW q \in Requests, CleanupDies(q) PROVE TypeOK'
  BY <1>12, BoundsAssumption DEF CleanupDies
<1>13. ASSUME NEW k \in Keys, KeyExpires(k) PROVE TypeOK'
  BY <1>13 DEF KeyExpires
<1>14. CASE WindowEnds
  BY <1>14 DEF WindowEnds
<1>15. CASE LockLapses
  BY <1>15 DEF LockLapses
<1>16. CASE UNCHANGED vars
  BY <1>16 DEF vars
<1> QED
  BY <1>1, <1>2, <1>3, <1>4, <1>5, <1>6, <1>7, <1>8, <1>9, <1>10, <1>11, <1>12,
     <1>13, <1>14, <1>15, <1>16 DEF Next, Handle

-----------------------------------------------------------------------------
\* The lock.

LEMMA LockStep ==
  TypeOK /\ InsideHoldsLock /\ [Next]_vars => InsideHoldsLock'
<1> SUFFICES ASSUME TypeOK, InsideHoldsLock, [Next]_vars PROVE InsideHoldsLock'
  OBVIOUS
<1> USE DEF TypeOK, InsideHoldsLock, Goto, Inside
<1>1. ASSUME NEW q \in Requests, Lock(q) PROVE InsideHoldsLock'
  BY <1>1, RequestsAssumption DEF Lock, LockFree
<1>2. ASSUME NEW q \in Requests, Unlock(q) PROVE InsideHoldsLock'
  BY <1>2 DEF Unlock, Released
<1>3. CASE LockLapses
  BY <1>3 DEF LockLapses, handlerVars
<1>4. ASSUME NEW q \in Requests, ReadPointer(q) \/ ReadRide(q) \/ Create(q)
      PROVE  InsideHoldsLock'
  BY <1>4 DEF ReadPointer, ReadRide, Create
<1>5. ASSUME NEW q \in Requests,
             Incr(q) \/ Expire(q) \/ Die(q) \/ ArriveByHttp(q)
             \/ \E k \in Keys : ArriveBySocket(q, k)
      PROVE  InsideHoldsLock'
  BY <1>5 DEF Incr, AfterIncr, Expire, Die, ArriveByHttp, ArriveBySocket
<1>6. ASSUME NEW q \in Requests,
             EndRide(q) \/ Cleanup(q) \/ CleanupDies(q) \/ HashExpires(q)
             \/ RemoveGhost(q)
      PROVE  InsideHoldsLock'
  BY <1>6 DEF EndRide, Cleanup, CleanupRead, CleanupWrite, CleanupDies,
     HashExpires, RemoveGhost, handlerVars
<1>7. CASE (\E k \in Keys : KeyExpires(k)) \/ WindowEnds \/ UNCHANGED vars
  BY <1>7 DEF KeyExpires, WindowEnds, vars, handlerVars
<1> QED
  BY <1>1, <1>2, <1>3, <1>4, <1>5, <1>6, <1>7 DEF Next, Handle

-----------------------------------------------------------------------------
\* The rate limit.

LEMMA CounterStep ==
  TypeOK /\ CounterHasEnd /\ [Next]_vars => CounterHasEnd'
<1> SUFFICES ASSUME TypeOK, CounterHasEnd, [Next]_vars PROVE CounterHasEnd'
  OBVIOUS
<1> USE DEF TypeOK, CounterHasEnd, Goto
<1>1. ASSUME NEW q \in Requests, Incr(q) PROVE CounterHasEnd'
  <2>1. CASE count = 0
    BY <1>1, <2>1 DEF Incr, AfterIncr
  <2>2. CASE count > 0
    BY <1>1, <2>2 DEF Incr
  <2> QED
    BY <2>1, <2>2
<1>2. ASSUME NEW q \in Requests, Expire(q) PROVE CounterHasEnd'
  BY <1>2 DEF Expire
<1>3. ASSUME NEW q \in Requests, Die(q) PROVE CounterHasEnd'
  BY <1>3 DEF Die
<1>4. CASE WindowEnds
  BY <1>4 DEF WindowEnds
<1>5. ASSUME NEW q \in Requests,
             Lock(q) \/ ReadPointer(q) \/ ReadRide(q) \/ Create(q) \/ Unlock(q)
             \/ ArriveByHttp(q) \/ \E k \in Keys : ArriveBySocket(q, k)
      PROVE  CounterHasEnd'
  BY <1>5 DEF Lock, ReadPointer, ReadRide, Create, Unlock, ArriveByHttp,
     ArriveBySocket, limitVars
<1>6. ASSUME NEW q \in Requests,
             EndRide(q) \/ Cleanup(q) \/ CleanupDies(q) \/ HashExpires(q)
             \/ RemoveGhost(q)
      PROVE  CounterHasEnd'
  BY <1>6 DEF EndRide, Cleanup, CleanupRead, CleanupWrite, CleanupDies,
     HashExpires, RemoveGhost, handlerVars, limitVars
<1>7. CASE (\E k \in Keys : KeyExpires(k)) \/ LockLapses \/ UNCHANGED vars
  BY <1>7 DEF KeyExpires, LockLapses, vars, handlerVars, limitVars
<1> QED
  BY <1>1, <1>2, <1>3, <1>4, <1>5, <1>6, <1>7 DEF Next, Handle

-----------------------------------------------------------------------------
\* The idempotency keys.

LEMMA KeysStep ==
  TypeOK /\ KeysUsed /\ KeysApart /\ [Next]_vars => KeysUsed' /\ KeysApart'
<1> SUFFICES ASSUME TypeOK, KeysUsed, KeysApart, [Next]_vars
             PROVE  KeysUsed' /\ KeysApart'
  OBVIOUS
<1> USE DEF TypeOK, KeysUsed, KeysApart, Goto
<1>1. ASSUME NEW q \in Requests, NEW k \in Keys, ArriveBySocket(q, k)
      PROVE  KeysUsed' /\ KeysApart'
  BY <1>1, KeysAssumption DEF ArriveBySocket, Accepted
<1>2. ASSUME NEW k \in Keys, KeyExpires(k) PROVE KeysUsed' /\ KeysApart'
  BY <1>2 DEF KeyExpires, handlerVars
<1>3. ASSUME NEW q \in Requests, ArriveByHttp(q) \/ Handle(q) \/ Die(q)
      PROVE  KeysUsed' /\ KeysApart'
  <2>1. UNCHANGED <<key, gateVars>>
    BY <1>3 DEF ArriveByHttp, Handle, Incr, Expire, Lock, ReadPointer, ReadRide,
       Create, Unlock, Die
  <2>2. \A r \in Requests : pc'[r] = "new" => pc[r] = "new"
    BY <1>3 DEF ArriveByHttp, Handle, Incr, AfterIncr, Expire, Lock, ReadPointer,
       ReadRide, Create, Unlock, Die
  <2> QED
    BY <2>1, <2>2 DEF gateVars
<1>4. ASSUME NEW q \in Requests,
             EndRide(q) \/ Cleanup(q) \/ CleanupDies(q) \/ HashExpires(q)
             \/ RemoveGhost(q)
      PROVE  KeysUsed' /\ KeysApart'
  BY <1>4 DEF EndRide, Cleanup, CleanupRead, CleanupWrite, CleanupDies,
     HashExpires, RemoveGhost, handlerVars, gateVars
<1>5. CASE WindowEnds \/ LockLapses \/ UNCHANGED vars
  BY <1>5 DEF WindowEnds, LockLapses, vars, handlerVars, gateVars
<1> QED
  BY <1>1, <1>2, <1>3, <1>4, <1>5 DEF Next

-----------------------------------------------------------------------------
\* The customer's rides.

LEMMA OrderStep == TypeOK /\ RidesInOrder /\ [Next]_vars => RidesInOrder'
<1> SUFFICES ASSUME TypeOK, RidesInOrder, [Next]_vars PROVE RidesInOrder'
  OBVIOUS
<1> USE DEF TypeOK, RidesInOrder, Goto
<1>1. ASSUME NEW q \in Requests, Create(q) PROVE RidesInOrder'
  BY <1>1 DEF Create
<1>2. ASSUME NEW q \in Requests, Lock(q) \/ ReadPointer(q) \/ ReadRide(q)
      PROVE  RidesInOrder'
  BY <1>2 DEF Lock, ReadPointer, ReadRide, rideVars
<1>3. ASSUME NEW q \in Requests,
             Incr(q) \/ Expire(q) \/ Unlock(q) \/ Die(q) \/ ArriveByHttp(q)
             \/ \E k \in Keys : ArriveBySocket(q, k)
      PROVE  RidesInOrder'
  BY <1>3 DEF Incr, Expire, Unlock, Die, ArriveByHttp, ArriveBySocket, rideVars
<1>4. ASSUME NEW q \in Requests,
             EndRide(q) \/ Cleanup(q) \/ CleanupDies(q) \/ HashExpires(q)
             \/ RemoveGhost(q)
      PROVE  RidesInOrder'
  BY <1>4 DEF EndRide, Cleanup, CleanupRead, CleanupWrite, CleanupDies,
     HashExpires, RemoveGhost, handlerVars
<1>5. CASE (\E k \in Keys : KeyExpires(k)) \/ WindowEnds \/ LockLapses
           \/ UNCHANGED vars
  BY <1>5 DEF KeyExpires, WindowEnds, LockLapses, vars, handlerVars, rideVars
<1> QED
  BY <1>1, <1>2, <1>3, <1>4, <1>5 DEF Next, Handle

\* A step that neither creates a ride nor moves a handler inside the lock nor
\* moves the pointer leaves what is named and what was read as it was.
LEMMA QuietStep ==
  ASSUME TypeOK, ActiveRideNamed, ReadsHold, UNCHANGED <<pointer, found>>,
         lapsed \subseteq lapsed', overlapped => overlapped',
         Live' \subseteq Live, Live' \intersect active \subseteq active',
         \A q \in Requests : pc'[q] \in {"ride", "create"} => pc'[q] = pc[q]
  PROVE  ActiveRideNamed' /\ ReadsHold'
<1>1. lapsed' = {} /\ ~overlapped' => lapsed = {} /\ ~overlapped
  OBVIOUS
<1>2. ActiveRideNamed'
  BY <1>1 DEF ActiveRideNamed
<1>3. ASSUME NEW q \in Requests, pc'[q] = "ride" PROVE found'[q] \in Requests
  BY <1>3 DEF ReadsHold
<1>4. ASSUME NEW q \in Requests, lapsed' = {}, ~overlapped', pc'[q] = "ride"
      PROVE  Live' \subseteq {found'[q]}
  BY <1>1, <1>4 DEF ReadsHold
<1>5. ASSUME NEW q \in Requests, lapsed' = {}, ~overlapped', pc'[q] = "create"
      PROVE  Live' = {}
  BY <1>1, <1>5 DEF ReadsHold
<1> QED
  BY <1>2, <1>3, <1>4, <1>5 DEF ReadsHold

LEMMA CustomerStep ==
  IInv /\ [Next]_vars => ActiveRideNamed' /\ ReadsHold'
<1> SUFFICES ASSUME IInv, [Next]_vars PROVE ActiveRideNamed' /\ ReadsHold'
  OBVIOUS
<1> USE DEF IInv, Goto
<1>1. ASSUME NEW q \in Requests, ReadPointer(q)
      PROVE  ActiveRideNamed' /\ ReadsHold'
  <2>1. ActiveRideNamed' /\ Live' = Live
    BY <1>1 DEF ReadPointer, rideVars, ActiveRideNamed, Live
  <2>2. lapsed = {} /\ ~overlapped => Live \subseteq {pointer}
    BY DEF ActiveRideNamed, Live
  <2>3. pointer = NoRequest /\ lapsed = {} /\ ~overlapped => Live = {}
    BY <2>2, RequestsAssumption DEF Live
  <2>4. \A r \in Requests : r # q => pc'[r] = pc[r] /\ found'[r] = found[r]
    BY <1>1 DEF ReadPointer, TypeOK
  <2>5. /\ found'[q] = pointer
        /\ pc'[q] = IF pointer = NoRequest THEN "create" ELSE "ride"
    BY <1>1 DEF ReadPointer, TypeOK
  <2>6. pc'[q] = "ride" => found'[q] \in Requests
    BY <2>5 DEF TypeOK
  <2>7. UNCHANGED <<lapsed, overlapped>>
    BY <1>1 DEF ReadPointer, rideVars
  <2> QED
    BY <2>1, <2>2, <2>3, <2>4, <2>5, <2>6, <2>7 DEF ReadsHold
<1>2. ASSUME NEW q \in Requests, ReadRide(q)
      PROVE  ActiveRideNamed' /\ ReadsHold'
  <2>1. ActiveRideNamed' /\ Live' = Live /\ UNCHANGED <<lapsed, overlapped>>
    BY <1>2 DEF ReadRide, rideVars, ActiveRideNamed, Live
  <2>2. lapsed = {} /\ ~overlapped /\ pc'[q] = "create" => Live = {}
    BY <1>2 DEF ReadRide, ReadsHold, Live, TypeOK
  <2>3. pc'[q] # "ride"
    BY <1>2 DEF ReadRide, TypeOK
  <2>4. \A r \in Requests : r # q => pc'[r] = pc[r] /\ found'[r] = found[r]
    BY <1>2 DEF ReadRide, TypeOK
  <2> QED
    BY <2>1, <2>2, <2>3, <2>4 DEF ReadsHold
<1>3. ASSUME NEW q \in Requests, Create(q)
      PROVE  ActiveRideNamed' /\ ReadsHold'
  <2>1. Live' = Live \union {q} /\ UNCHANGED <<lapsed, overlapped, found>>
    BY <1>3 DEF Create, Live, TypeOK
  <2>2. lapsed = {} => \A r \in Requests : r # q => pc[r] \notin Inside
    BY <1>3 DEF Create, InsideHoldsLock, Inside
  <2>3. \A r \in Requests : pc'[r] = IF r = q THEN "unlock" ELSE pc[r]
    BY <1>3 DEF Create, TypeOK
  <2>4. lapsed' = {} /\ ~overlapped' => Live' = {q}
    BY <1>3, <2>1 DEF Create, ReadsHold
  <2>5. ActiveRideNamed'
    BY <1>3, <2>4 DEF Create, ActiveRideNamed
  <2> QED
    BY <2>1, <2>2, <2>3, <2>5 DEF ReadsHold, Inside
<1>4. ASSUME NEW r \in Requests, CleanupWrite(r)
      PROVE  ActiveRideNamed' /\ ReadsHold'
  <2>1. r \notin Live
    BY <1>4 DEF CleanupWrite, RidesInOrder, Live
  <2>2. Live' = Live /\ UNCHANGED <<lapsed, pc, found>>
    BY <1>4 DEF CleanupWrite, Live, handlerVars
  <2>3. ~overlapped' => ~overlapped
    BY <1>4 DEF CleanupWrite
  <2>4. ASSUME lapsed' = {}, ~overlapped', NEW l \in Live
        PROVE  pointer' = l /\ l \in active'
    <3>1. pointer = l /\ l \in active
      BY <2>2, <2>3, <2>4 DEF ActiveRideNamed
    <3>2. l \in Requests /\ l # r /\ l # NoRequest
      BY <2>1, RequestsAssumption DEF Live
    <3>3. cleaning[r] # "delete"
      BY <1>4, <2>4, <3>1, <3>2 DEF CleanupWrite
    <3> QED
      BY <1>4, <3>1, <3>2, <3>3 DEF CleanupWrite
  <2>5. ActiveRideNamed'
    BY <2>2, <2>4 DEF ActiveRideNamed
  <2>6. ReadsHold'
    BY <2>2, <2>3 DEF ReadsHold
  <2> QED
    BY <2>5, <2>6
<1>5. ASSUME NEW q \in Requests,
             EndRide(q) \/ CleanupRead(q) \/ CleanupDies(q) \/ HashExpires(q)
             \/ RemoveGhost(q)
      PROVE  ActiveRideNamed' /\ ReadsHold'
  <2>1. Live' \subseteq Live
    BY <1>5 DEF EndRide, CleanupRead, CleanupDies, HashExpires, RemoveGhost, Live,
       TypeOK
  <2>2. Live \intersect active \subseteq active'
    BY <1>5 DEF EndRide, CleanupRead, CleanupDies, HashExpires, RemoveGhost, Live,
       Ghosts
  <2>3. UNCHANGED <<pointer, found, lapsed, overlapped, pc>>
    BY <1>5 DEF EndRide, CleanupRead, CleanupDies, HashExpires, RemoveGhost,
       handlerVars
  <2> QED
    BY <2>1, <2>2, <2>3, QuietStep
<1>6. ASSUME NEW q \in Requests,
             Incr(q) \/ Expire(q) \/ Lock(q) \/ Unlock(q) \/ Die(q)
             \/ ArriveByHttp(q) \/ \E k \in Keys : ArriveBySocket(q, k)
      PROVE  ActiveRideNamed' /\ ReadsHold'
  <2>1. UNCHANGED <<found, lapsed, rideVars>>
    BY <1>6 DEF Incr, Expire, Lock, Unlock, Die, ArriveByHttp, ArriveBySocket
  <2>2. \A r \in Requests : pc'[r] \in {"ride", "create"} => pc'[r] = pc[r]
    BY <1>6 DEF Incr, AfterIncr, Expire, Lock, Unlock, Die, ArriveByHttp,
       ArriveBySocket, TypeOK
  <2> QED
    BY <2>1, <2>2, QuietStep DEF rideVars, Live
<1>7. CASE LockLapses
  BY <1>7, QuietStep DEF LockLapses, handlerVars, rideVars, Live
<1>8. CASE (\E k \in Keys : KeyExpires(k)) \/ WindowEnds \/ UNCHANGED vars
  BY <1>8, QuietStep DEF KeyExpires, WindowEnds, vars, handlerVars, rideVars, Live
<1> QED
  BY <1>1, <1>2, <1>3, <1>4, <1>5, <1>6, <1>7, <1>8 DEF Next, Handle, Cleanup

-----------------------------------------------------------------------------

LEMMA InvariantStep == IInv /\ [Next]_vars => IInv'
  BY TypeStep, LockStep, CounterStep, KeysStep, OrderStep, CustomerStep DEF IInv

LEMMA Invariance == Spec => []IInv
  BY Invariant0, InvariantStep, PTL DEF Spec

\* Every variable keeps its type.
THEOREM CustomerTypeOK == Spec => []TypeOK
<1>1. IInv => TypeOK
  BY DEF IInv
<1> QED
  BY <1>1, Invariance, PTL

\* The lock protects the handler that took it until its TTL runs out: no other
\* handler's release, however late, deletes its token.
THEOREM LockProtects == Spec => []InsideHoldsLock
<1>1. IInv => InsideHoldsLock
  BY DEF IInv
<1> QED
  BY <1>1, Invariance, PTL

\* While handlers are faster than the lock's TTL and no cleanup overtakes a
\* request, a live ride is the one the customer's key names.
THEOREM ActiveRideIsNamed == Spec => []ActiveRideNamed
<1>1. IInv => ActiveRideNamed
  BY DEF IInv
<1> QED
  BY <1>1, Invariance, PTL

\* Then a customer has one live ride at most.
THEOREM OneLiveRide ==
  Spec => [](lapsed = {} /\ ~overlapped => \A q, r \in Live : q = r)
<1>1. ActiveRideNamed => (lapsed = {} /\ ~overlapped => \A q, r \in Live : q = r)
  BY DEF ActiveRideNamed
<1> QED
  BY <1>1, ActiveRideIsNamed, PTL

\* The socket's gate lets one delivery of an event create a ride.
THEOREM EventsAreOnce == Spec => []OneRidePerEvent
<1>1. IInv => OneRidePerEvent
  BY DEF IInv, KeysApart, OneRidePerEvent
<1> QED
  BY <1>1, Invariance, PTL

\* The rate limit's counter always has an end, unless a process died between
\* its two commands.
THEOREM CounterEnds == Spec => []CounterHasEnd
<1>1. IInv => CounterHasEnd
  BY DEF IInv
<1> QED
  BY <1>1, Invariance, PTL
=============================================================================
