-------------------------- MODULE DriverStateProofs --------------------------
(***************************************************************************)
(* Proofs about DriverState, for any rides and drivers.                    *)
(***************************************************************************)
EXTENDS DriverState, TLAPS

\* A status and an active ride that go together.
Agree(st, ride) ==
    /\ st = "BUSY" => ride # NoRide
    /\ st = "ONLINE" => ride = NoRide

\* What a locked handler has read of its driver goes together, and a heartbeat
\* that goes on to write has found the driver online.
WriterKnows(w) ==
    w.pc \in {"readKey", "write"} =>
        /\ Agree(w.seen.status, w.seen.active)
        /\ w.op = "heartbeat" => w.pc = "write" /\ w.seen.status \in {"ONLINE", "BUSY"}

\* A ride has a driver from the accept on, and releases it after its end; a
\* candidate is a driver, looked at only while the ride is not over.
RideKnows(r) ==
    /\ trip[r].phase = "open" => trip[r].driver = NoDriver
    /\ trip[r].phase = "assigned" => trip[r].driver \in Drivers
    /\ release[r].pc # "idle" => trip[r].phase = "over" /\ trip[r].driver \in Drivers
    /\ seeker[r].pc # "idle" => trip[r].phase # "over" /\ seeker[r].driver \in Drivers

\* The inductive invariant of the pools.
IInv ==
    /\ TypeOK
    /\ \A d \in Drivers : WriterKnows(writer[d])
    /\ \A r \in Rides : RideKnows(r)
    /\ PoolsDisjoint
    /\ AvailableIsScanned
    /\ StatusMatchesRide

\* Its part about the keys of drivers.
KeysOK ==
    /\ hash \in [Drivers -> HashType]
    /\ activeKey \in [Drivers -> SomeRide]
    /\ online \in SUBSET Drivers
    /\ available \in SUBSET Drivers
    /\ busy \in SUBSET Drivers
    /\ heartbeat \in SUBSET Drivers
    /\ reservation \in [Drivers -> SomeRide]
    /\ \A d \in online \union busy : hash[d].status # "NONE"
    /\ PoolsDisjoint
    /\ AvailableIsScanned
    /\ StatusMatchesRide

\* Its part about the handlers.
HandlersOK ==
    /\ trip \in [Rides -> TripType]
    /\ writer \in [Drivers -> WriterType]
    /\ release \in [Rides -> ReleaseType]
    /\ seeker \in [Rides -> SeekerType]
    /\ scan \in SUBSET Drivers
    /\ stale \in Drivers \union {NoDriver}
    /\ deaths \in 0..Failures
    /\ undone \in SUBSET Drivers
    /\ \A d \in Drivers : WriterKnows(writer[d])
    /\ \A r \in Rides : RideKnows(r)

LEMMA Parts == IInv <=> KeysOK /\ HandlersOK
  BY DEF IInv, KeysOK, HandlersOK, TypeOK

LEMMA PartsNext == KeysOK' /\ HandlersOK' => IInv'
  BY DEF IInv, KeysOK, HandlersOK, TypeOK

LEMMA KeysUnchanged == KeysOK /\ UNCHANGED driverVars => KeysOK'
  BY DEF KeysOK, driverVars, PoolsDisjoint, AvailableIsScanned, StatusMatchesRide

-----------------------------------------------------------------------------
\* The keys of drivers.

\* What a locked handler persists leaves the driver in one pool at most, and in
\* the one its status calls for.
LEMMA PersistKeys ==
  ASSUME KeysOK, NEW d \in Drivers, NEW st \in {"ONLINE", "BUSY"}, NEW ride \in SomeRide,
         Agree(st, ride), Persist(d, st, ride)
  PROVE  KeysOK'
<1> DEFINE h == [status |-> st, active |-> ride]
<1>1. hash' = [hash EXCEPT ![d] = h] /\ h \in HashType
  BY DEF Persist, HashType, DriverStatuses
<1>2. hash' \in [Drivers -> HashType] /\ activeKey' \in [Drivers -> SomeRide]
  BY <1>1 DEF KeysOK, Persist
<1>3. \A e \in Drivers : hash'[e] = IF e = d THEN h ELSE hash[e]
  BY <1>1 DEF KeysOK
<1>4. h.status = st /\ h.active = ride
  OBVIOUS
<1> HIDE DEF h
<1>5. /\ online' \in SUBSET Drivers /\ available' \in SUBSET Drivers
      /\ busy' \in SUBSET Drivers /\ heartbeat' \in SUBSET Drivers
      /\ reservation' \in [Drivers -> SomeRide]
  BY DEF KeysOK, Persist, Put
<1>6. \A e \in online' \union busy' : hash'[e].status # "NONE"
  BY <1>3, <1>4, <1>5 DEF KeysOK, Persist, Put
<1>7. PoolsDisjoint' /\ AvailableIsScanned'
  BY DEF KeysOK, Persist, Put, PoolsDisjoint, AvailableIsScanned
<1>8. StatusMatchesRide'
  BY <1>3, <1>4 DEF KeysOK, StatusMatchesRide, Agree
<1> QED
  BY <1>2, <1>5, <1>6, <1>7, <1>8 DEF KeysOK

\* So do the actions that write the keys.
LEMMA WritersKeys ==
  ASSUME IInv, NEW d \in Drivers, WriteOnline(d) \/ WriteHeartbeat(d) \/ WriteOffline(d)
  PROVE  KeysOK'
<1>1. KeysOK /\ writer[d] \in WriterType /\ WriterKnows(writer[d])
  BY Parts DEF HandlersOK
<1>2. /\ writer[d].seen.status \in DriverStatuses \union {"NONE"}
      /\ writer[d].seen.active \in SomeRide
      /\ writer[d].key \in SomeRide
  BY <1>1 DEF WriterType, HashType
<1>3. ActiveRide(writer[d]) \in SomeRide
  BY <1>2 DEF ActiveRide
<1>4. CASE WriteOnline(d)
  <2> DEFINE ride == ActiveRide(writer[d])
             st == IF ride = NoRide THEN "ONLINE" ELSE "BUSY"
  <2>1. Persist(d, st, ride)
    BY <1>4 DEF WriteOnline
  <2>2. st \in {"ONLINE", "BUSY"} /\ Agree(st, ride)
    BY DEF Agree
  <2> QED
    BY <1>1, <1>3, <2>1, <2>2, PersistKeys
<1>5. CASE WriteHeartbeat(d)
  <2>1. writer[d].seen.status \in {"ONLINE", "BUSY"}
        /\ Agree(writer[d].seen.status, writer[d].seen.active)
    BY <1>1, <1>5 DEF WriteHeartbeat, Writes, WriterKnows
  <2> QED
    BY <1>1, <1>2, <1>5, <2>1, PersistKeys DEF WriteHeartbeat
<1>6. CASE WriteOffline(d)
  <2> DEFINE h == [status |-> "OFFLINE", active |-> ActiveRide(writer[d])]
  <2>1. hash' = [hash EXCEPT ![d] = h] /\ h \in HashType
    BY <1>3, <1>6 DEF WriteOffline, HashType, DriverStatuses
  <2>2. hash' \in [Drivers -> HashType] /\ reservation' \in [Drivers -> SomeRide]
    BY <1>1, <1>6, <2>1 DEF KeysOK, WriteOffline, SomeRide
  <2>3. \A e \in Drivers : hash'[e] = IF e = d THEN h ELSE hash[e]
    BY <1>1, <2>1 DEF KeysOK
  <2>4. h.status = "OFFLINE"
    OBVIOUS
  <2> HIDE DEF h
  <2>5. /\ online' \in SUBSET Drivers /\ available' \in SUBSET Drivers
        /\ busy' \in SUBSET Drivers /\ heartbeat' \in SUBSET Drivers
        /\ activeKey' \in [Drivers -> SomeRide]
    BY <1>1, <1>6 DEF KeysOK, WriteOffline
  <2>6. \A e \in online' \union busy' : hash'[e].status # "NONE"
    BY <1>1, <1>6, <2>3, <2>4, <2>5 DEF KeysOK, WriteOffline
  <2>7. PoolsDisjoint' /\ AvailableIsScanned'
    BY <1>1, <1>6 DEF KeysOK, WriteOffline, PoolsDisjoint, AvailableIsScanned
  <2>8. StatusMatchesRide'
    BY <1>1, <2>3, <2>4 DEF KeysOK, StatusMatchesRide
  <2> QED
    BY <2>2, <2>5, <2>6, <2>7, <2>8 DEF KeysOK
<1> QED
  BY <1>4, <1>5, <1>6

LEMMA AcceptKeys ==
  ASSUME IInv, NEW r \in Rides, NEW d \in Drivers, Accept(r, d)
  PROVE  KeysOK'
<1> DEFINE h == [status |-> "BUSY", active |-> r]
<1>1. KeysOK
  BY Parts
<1>2. hash' = [hash EXCEPT ![d] = h] /\ h \in HashType
  BY DEF Accept, HashType, DriverStatuses, SomeRide
<1>3. /\ hash' \in [Drivers -> HashType] /\ reservation' \in [Drivers -> SomeRide]
      /\ activeKey' \in [Drivers -> SomeRide]
  BY <1>1, <1>2 DEF KeysOK, Accept, SomeRide
<1>4. \A e \in Drivers : hash'[e] = IF e = d THEN h ELSE hash[e]
  BY <1>1, <1>2 DEF KeysOK
<1>5. h.status = "BUSY" /\ h.active # NoRide
  BY DriverStateAssumption
<1> HIDE DEF h
<1>6. /\ online' \in SUBSET Drivers /\ available' \in SUBSET Drivers
      /\ busy' \in SUBSET Drivers /\ heartbeat' \in SUBSET Drivers
  BY <1>1 DEF KeysOK, Accept
<1>7. \A e \in online' \union busy' : hash'[e].status # "NONE"
  BY <1>1, <1>4, <1>5, <1>6 DEF KeysOK, Accept
<1>8. PoolsDisjoint' /\ AvailableIsScanned'
  BY <1>1 DEF KeysOK, Accept, PoolsDisjoint, AvailableIsScanned
<1>9. StatusMatchesRide'
  BY <1>1, <1>4, <1>5 DEF KeysOK, StatusMatchesRide
<1> QED
  BY <1>3, <1>6, <1>7, <1>8, <1>9 DEF KeysOK

LEMMA ReleaseKeys ==
  ASSUME IInv, NEW r \in Rides, ReleaseWrites(r)
  PROVE  KeysOK'
<1> DEFINE d == trip[r].driver
           back == release[r].beat /\ release[r].status \notin {"NONE", "OFFLINE"}
           h == [status |-> IF back THEN "ONLINE" ELSE "OFFLINE", active |-> NoRide]
<1>1. KeysOK /\ d \in Drivers
  BY Parts DEF HandlersOK, RideKnows, ReleaseWrites, Releasing
<1>2. hash' = [hash EXCEPT ![d] = h] /\ h \in HashType
  BY DEF ReleaseWrites, HashType, DriverStatuses, SomeRide
<1>3. h.status \in {"ONLINE", "OFFLINE"} /\ h.active = NoRide
  OBVIOUS
<1> HIDE DEF h
<1>4. /\ activeKey' \in {activeKey, [activeKey EXCEPT ![d] = NoRide]}
      /\ busy' = busy \ {d}
      /\ \/ online' = online \union {d} /\ available' = available \union {d}
         \/ online' = online /\ available' = available
      /\ UNCHANGED <<heartbeat, reservation>>
  BY DEF ReleaseWrites
<1> HIDE DEF d
<1>5. hash' \in [Drivers -> HashType] /\ activeKey' \in [Drivers -> SomeRide]
  BY <1>1, <1>2, <1>4 DEF KeysOK, SomeRide
<1>6. \A e \in Drivers : hash'[e] = IF e = d THEN h ELSE hash[e]
  BY <1>1, <1>2 DEF KeysOK
<1>7. /\ online' \in SUBSET Drivers /\ available' \in SUBSET Drivers
      /\ busy' \in SUBSET Drivers /\ heartbeat' \in SUBSET Drivers
      /\ reservation' \in [Drivers -> SomeRide]
  BY <1>1, <1>4 DEF KeysOK
<1>8. \A e \in online' \union busy' : hash'[e].status # "NONE"
  BY <1>1, <1>3, <1>4, <1>6, <1>7 DEF KeysOK
<1>9. PoolsDisjoint' /\ AvailableIsScanned'
  BY <1>1, <1>4 DEF KeysOK, PoolsDisjoint, AvailableIsScanned
<1>10. StatusMatchesRide'
  BY <1>1, <1>3, <1>6 DEF KeysOK, StatusMatchesRide
<1> QED
  BY <1>5, <1>7, <1>8, <1>9, <1>10 DEF KeysOK

\* Cleaning, reserving, withdrawing and expiry write no hash.
LEMMA OtherKeys ==
  ASSUME IInv,
         \/ \E r \in Rides : CleanGhost(r) \/ Reserve(r)
         \/ \E d \in Drivers : Withdraw(d) \/ HeartbeatLapses(d)
  PROVE  KeysOK'
<1>1. KeysOK
  BY Parts
<1>2. ASSUME NEW r \in Rides, CleanGhost(r)
      PROVE  KeysOK'
  BY <1>1, <1>2 DEF KeysOK, CleanGhost, PoolsDisjoint, AvailableIsScanned,
                    StatusMatchesRide, SomeRide
<1>3. ASSUME NEW r \in Rides, Reserve(r)
      PROVE  KeysOK'
  BY <1>1, <1>3 DEF KeysOK, Reserve, PoolsDisjoint, AvailableIsScanned,
                    StatusMatchesRide, SomeRide
<1>4. ASSUME NEW d \in Drivers, Withdraw(d) \/ HeartbeatLapses(d)
      PROVE  KeysOK'
  BY <1>1, <1>4 DEF KeysOK, Withdraw, HeartbeatLapses, PoolsDisjoint,
                    AvailableIsScanned, StatusMatchesRide, SomeRide
<1> QED
  BY <1>2, <1>3, <1>4

-----------------------------------------------------------------------------
\* The handlers.

\* A driver's handler takes the lock, reads, writes or dies.
LEMMA WriterHandlers ==
  ASSUME IInv, NEW d \in Drivers, NEW w, writer' = [writer EXCEPT ![d] = w],
         w \in WriterType, WriterKnows(w), UNCHANGED <<trip, release, seeker>>,
         scan' \in SUBSET Drivers, stale' \in Drivers \union {NoDriver},
         deaths' \in 0..Failures, undone' \in SUBSET Drivers
  PROVE  HandlersOK'
<1>1. HandlersOK
  BY Parts
<1>2. writer' \in [Drivers -> WriterType]
  BY <1>1 DEF HandlersOK
<1>3. \A e \in Drivers : WriterKnows(writer'[e])
  BY <1>1, <1>2 DEF HandlersOK
<1>4. \A r \in Rides : RideKnows(r)'
  BY <1>1 DEF HandlersOK, RideKnows
<1> QED
  BY <1>1, <1>2, <1>3, <1>4 DEF HandlersOK

LEMMA UnlockedOK == Unlocked \in WriterType /\ WriterKnows(Unlocked)
  BY DEF Unlocked, NoOne, WriterType, WriterKnows, HashType, SomeRide

LEMMA LockHandlers ==
  ASSUME IInv, NEW d \in Drivers, NEW op \in {"goOnline", "heartbeat", "goOffline"},
         Lock(d, op), stale' \in Drivers \union {NoDriver}
  PROVE  HandlersOK'
<1> DEFINE w == [Unlocked EXCEPT !.op = op, !.pc = "readHash"]
<1>1. w \in WriterType /\ WriterKnows(w)
  BY UnlockedOK DEF Unlocked, WriterType, WriterKnows
<1>2. writer' = [writer EXCEPT ![d] = w] /\ UNCHANGED <<trip, release, seeker, scan, deaths, undone>>
  BY DEF Lock
<1>3. HandlersOK
  BY Parts
<1> HIDE DEF w
<1> QED
  BY <1>1, <1>2, <1>3, WriterHandlers DEF HandlersOK

LEMMA WriterStepHandlers ==
  ASSUME IInv, NEW d \in Drivers, WriterStep(d) \/ WriterDies(d)
  PROVE  HandlersOK'
<1>1. HandlersOK /\ KeysOK
  BY Parts
<1>2. /\ writer[d] \in WriterType
      /\ WriterKnows(writer[d])
      /\ hash[d] \in HashType
      /\ activeKey[d] \in SomeRide
      /\ Agree(hash[d].status, hash[d].active)
  BY <1>1 DEF HandlersOK, KeysOK, StatusMatchesRide, Agree
<1>3. CASE ReadHash(d)
  <2> DEFINE w == IF writer[d].op = "heartbeat"
                  THEN IF hash[d].status \in {"NONE", "OFFLINE"} THEN Unlocked
                       ELSE [writer[d] EXCEPT !.seen = hash[d], !.pc = "write"]
                  ELSE [writer[d] EXCEPT !.seen = hash[d], !.pc = "readKey"]
  <2>1. /\ writer' = [writer EXCEPT ![d] = w]
        /\ UNCHANGED <<trip, release, seeker, scan, stale, deaths, undone>>
    BY <1>3 DEF ReadHash
  <2>2. w \in WriterType
    BY <1>2, UnlockedOK DEF WriterType
  <2>3. CASE writer[d].op = "heartbeat" /\ hash[d].status \notin {"NONE", "OFFLINE"}
    <3>1. w = [writer[d] EXCEPT !.seen = hash[d], !.pc = "write"]
      BY <2>3
    <3>2. w.seen = hash[d] /\ w.pc = "write" /\ hash[d].status \in {"ONLINE", "BUSY"}
      BY <1>2, <2>3, <3>1 DEF WriterType, HashType, DriverStatuses
    <3> QED
      BY <1>1, <1>2, <2>1, <2>2, <3>2, WriterHandlers DEF HandlersOK, WriterKnows
  <2>4. CASE writer[d].op # "heartbeat"
    <3>1. w = [writer[d] EXCEPT !.seen = hash[d], !.pc = "readKey"]
      BY <2>4
    <3>2. w.seen = hash[d] /\ w.op # "heartbeat"
      BY <1>2, <2>4, <3>1 DEF WriterType
    <3> QED
      BY <1>1, <1>2, <2>1, <2>2, <3>2, WriterHandlers DEF HandlersOK, WriterKnows
  <2>5. CASE writer[d].op = "heartbeat" /\ hash[d].status \in {"NONE", "OFFLINE"}
    <3>1. w = Unlocked
      BY <2>5
    <3> QED
      BY <1>1, <2>1, <3>1, UnlockedOK, WriterHandlers DEF HandlersOK
  <2> QED
    BY <2>3, <2>4, <2>5
<1>4. CASE ReadKey(d)
  <2> DEFINE w == [writer[d] EXCEPT !.key = activeKey[d], !.pc = "write"]
  <2>1. /\ writer[d].pc = "readKey"
        /\ UNCHANGED <<trip, release, seeker, scan, stale, deaths, undone>>
    BY <1>4 DEF ReadKey
  <2>2. writer' = [writer EXCEPT ![d] = w]
    BY <1>1, <1>4 DEF ReadKey, HandlersOK
  <2>3. w \in WriterType /\ w.seen = writer[d].seen /\ w.op = writer[d].op /\ w.pc = "write"
    BY <1>2 DEF WriterType
  <2>4. WriterKnows(w)
    BY <1>2, <2>1, <2>3 DEF WriterKnows
  <2> HIDE DEF w
  <2> QED
    BY <1>1, <2>1, <2>2, <2>3, <2>4, WriterHandlers DEF HandlersOK
<1>5. CASE WriteOnline(d) \/ WriteHeartbeat(d) \/ WriteOffline(d)
  <2>1. /\ writer' = [writer EXCEPT ![d] = Unlocked]
        /\ UNCHANGED <<trip, release, seeker, scan, stale, deaths>>
        /\ undone' \in {undone, undone \union {d}}
    BY <1>5 DEF WriteOnline, WriteHeartbeat, WriteOffline, Writes
  <2> QED
    BY <1>1, <2>1, UnlockedOK, WriterHandlers DEF HandlersOK
<1>6. CASE WriterDies(d)
  <2>1. /\ writer' = [writer EXCEPT ![d] = Unlocked]
        /\ UNCHANGED <<trip, release, seeker, scan, stale, undone>>
        /\ deaths' \in 0..Failures
    BY <1>1, <1>6, DriverStateAssumption DEF WriterDies, HandlersOK
  <2> QED
    BY <1>1, <2>1, UnlockedOK, WriterHandlers DEF HandlersOK
<1> QED
  BY <1>3, <1>4, <1>5, <1>6 DEF WriterStep

\* The scan moves on by itself, or by goOffline.
LEMMA ScanHandlers ==
  ASSUME IInv, ScanStep
  PROVE  HandlersOK'
<1>1. HandlersOK /\ online \in SUBSET Drivers
  BY Parts DEF KeysOK
<1>2. CASE ScanStarts \/ ScanFails \/ \E d \in Drivers : ScanLooks(d)
  <2>1. scan' \in SUBSET Drivers /\ stale' \in Drivers \union {NoDriver}
        /\ UNCHANGED <<trip, writer, release, seeker, deaths, undone>>
    BY <1>1, <1>2 DEF ScanStarts, ScanFails, ScanLooks, HandlersOK
  <2> QED
    BY <1>1, <2>1 DEF HandlersOK, RideKnows
<1>3. CASE ScanDrops
  <2>1. stale \in Drivers /\ stale' = NoDriver /\ Lock(stale, "goOffline")
    BY <1>1, <1>3 DEF ScanDrops, HandlersOK
  <2> QED
    BY <2>1, LockHandlers
<1> QED
  BY <1>2, <1>3 DEF ScanStep

\* What happens to a ride, its candidate and its release.
LEMMA RideHandlers ==
  ASSUME IInv, NEW r \in Rides,
         writer' \in [Drivers -> WriterType], \A d \in Drivers : WriterKnows(writer'[d]),
         UNCHANGED <<scan, stale, undone>>, deaths' \in 0..Failures,
         NEW t \in TripType, trip' = [trip EXCEPT ![r] = t],
         NEW rel \in ReleaseType, release' = [release EXCEPT ![r] = rel],
         NEW c \in SeekerType, seeker' = [seeker EXCEPT ![r] = c],
         t.phase = "open" => t.driver = NoDriver,
         t.phase = "assigned" => t.driver \in Drivers,
         rel.pc # "idle" => t.phase = "over" /\ t.driver \in Drivers,
         c.pc # "idle" => t.phase # "over" /\ c.driver \in Drivers
  PROVE  HandlersOK'
<1>1. HandlersOK
  BY Parts
<1>2. /\ trip' \in [Rides -> TripType]
      /\ release' \in [Rides -> ReleaseType]
      /\ seeker' \in [Rides -> SeekerType]
  BY <1>1 DEF HandlersOK
<1>3. \A q \in Rides : q # r => trip'[q] = trip[q] /\ release'[q] = release[q]
                                /\ seeker'[q] = seeker[q]
  BY <1>1 DEF HandlersOK
<1>4. trip'[r] = t /\ release'[r] = rel /\ seeker'[r] = c
  BY <1>1 DEF HandlersOK
<1>5. \A q \in Rides : RideKnows(q)'
  BY <1>1, <1>3, <1>4 DEF HandlersOK, RideKnows
<1> QED
  BY <1>1, <1>2, <1>5 DEF HandlersOK

LEMMA SeekHandlers ==
  ASSUME IInv, NEW r \in Rides, SeekStep(r) \/ SeekerDies(r)
  PROVE  HandlersOK'
<1>1. HandlersOK /\ available \subseteq Drivers
  BY Parts DEF KeysOK
<1>2. /\ trip[r] \in TripType /\ release[r] \in ReleaseType /\ seeker[r] \in SeekerType
      /\ RideKnows(r)
      /\ trip = [trip EXCEPT ![r] = trip[r]] /\ release = [release EXCEPT ![r] = release[r]]
  BY <1>1 DEF HandlersOK
<1>3. NoCandidate \in SeekerType /\ NoCandidate.pc = "idle"
  BY DEF NoCandidate, SeekerType
<1> DEFINE Seeks(c) ==
             /\ Seek(r, c)
             /\ c.pc # "idle" => trip[r].phase # "over" /\ c.driver \in Drivers
<1>4. SeekStep(r) => \E c \in SeekerType : Seeks(c)
  <2> SUFFICES ASSUME SeekStep(r)
               PROVE  \E c \in SeekerType : Seeks(c)
    OBVIOUS
  <2>1. ASSUME NEW d \in Drivers, FindDriver(r, d)
        PROVE  \E c \in SeekerType : Seeks(c)
    <3> DEFINE c == [pc |-> "check", driver |-> d]
    <3>1. c \in SeekerType /\ c.driver = d
      BY DEF SeekerType
    <3>2. Seek(r, c) /\ trip[r].phase # "over"
      BY <2>1 DEF FindDriver
    <3> QED
      BY <3>1, <3>2
  <2>2. CASE CheckDriver(r)
    <3> DEFINE ghost == [seeker[r] EXCEPT !.pc = "ghost"]
               reserve == [seeker[r] EXCEPT !.pc = "reserve"]
    <3>1. /\ ghost \in SeekerType /\ ghost.driver \in Drivers
          /\ reserve \in SeekerType /\ reserve.driver \in Drivers
          /\ trip[r].phase # "over"
      BY <1>2, <2>2 DEF SeekerType, CheckDriver, RideKnows
    <3>2. Seek(r, ghost) \/ Seek(r, reserve) \/ Seek(r, NoCandidate)
      BY <2>2 DEF CheckDriver
    <3> QED
      BY <1>3, <3>1, <3>2
  <2>3. CASE CleanGhost(r) \/ Reserve(r)
    BY <1>3, <2>3 DEF CleanGhost, Reserve
  <2> QED
    BY <2>1, <2>2, <2>3 DEF SeekStep
<1>5. CASE SeekStep(r)
  BY <1>1, <1>2, <1>4, <1>5, RideHandlers DEF Seek, RideKnows, HandlersOK
<1>6. CASE SeekerDies(r)
  <2>1. /\ seeker' = [seeker EXCEPT ![r] = NoCandidate]
        /\ deaths' \in 0..Failures
        /\ UNCHANGED <<trip, writer, release, scan, stale, undone>>
    BY <1>1, <1>6, DriverStateAssumption DEF SeekerDies, HandlersOK
  <2> QED
    BY <1>1, <1>2, <1>3, <2>1, RideHandlers DEF RideKnows, HandlersOK
<1> QED
  BY <1>5, <1>6

LEMMA AcceptHandlers ==
  ASSUME IInv, NEW r \in Rides, NEW d \in Drivers, Accept(r, d)
  PROVE  HandlersOK'
<1>1. HandlersOK
  BY Parts
<1>2. /\ release[r] \in ReleaseType /\ seeker[r] \in SeekerType /\ RideKnows(r)
      /\ release = [release EXCEPT ![r] = release[r]]
      /\ seeker = [seeker EXCEPT ![r] = seeker[r]]
  BY <1>1 DEF HandlersOK
<1> DEFINE t == [phase |-> "assigned", driver |-> d]
<1>3. t \in TripType /\ t.phase = "assigned" /\ t.driver = d
  BY DEF TripType
<1>4. release[r].pc = "idle"
  BY <1>2 DEF Accept, AcceptGuard, RideKnows
<1>5. /\ trip' = [trip EXCEPT ![r] = t]
      /\ UNCHANGED <<release, seeker, scan, stale, deaths, undone>>
  BY DEF Accept
<1>6. writer' \in [Drivers -> WriterType] /\ \A e \in Drivers : WriterKnows(writer'[e])
  <2> DEFINE b == writer[d].missed \/ writer[d].pc = "write"
  <2>1. b \in BOOLEAN
    OBVIOUS
  <2>2. writer' = [writer EXCEPT ![d].missed = b]
    BY DEF Accept
  <2> HIDE DEF b
  <2>3. writer' \in [Drivers -> WriterType]
    BY <1>1, <2>1, <2>2 DEF HandlersOK, WriterType
  <2>4. \A e \in Drivers : /\ writer'[e].pc = writer[e].pc /\ writer'[e].op = writer[e].op
                          /\ writer'[e].seen = writer[e].seen
    BY <1>1, <2>2 DEF HandlersOK, WriterType
  <2> QED
    BY <1>1, <2>3, <2>4 DEF HandlersOK, WriterKnows
<1> HIDE DEF t
<1> QED
  BY <1>1, <1>2, <1>3, <1>4, <1>5, <1>6, RideHandlers DEF HandlersOK, RideKnows

LEMMA EndHandlers ==
  ASSUME IInv, NEW r \in Rides, EndRide(r)
  PROVE  HandlersOK'
<1>1. HandlersOK
  BY Parts
<1>2. /\ trip[r] \in TripType /\ release[r] \in ReleaseType /\ seeker[r] \in SeekerType
      /\ RideKnows(r)
      /\ release = [release EXCEPT ![r] = release[r]]
      /\ seeker = [seeker EXCEPT ![r] = seeker[r]]
  BY <1>1 DEF HandlersOK
<1> DEFINE t == [trip[r] EXCEPT !.phase = "over"]
           rel == IF trip[r].driver = NoDriver THEN release[r]
                  ELSE [release[r] EXCEPT !.pc = "readHash"]
<1>3. /\ t \in TripType /\ t.phase = "over" /\ t.driver = trip[r].driver
      /\ seeker[r].pc = "idle"
  BY <1>2 DEF TripType, EndRide
<1>4. rel \in ReleaseType
  BY <1>2 DEF ReleaseType
<1>5. rel.pc # "idle" => t.driver \in Drivers
  BY <1>2, <1>3 DEF RideKnows, EndRide, TripType
<1>6. /\ trip' = [trip EXCEPT ![r] = t]
      /\ release' = [release EXCEPT ![r] = rel]
      /\ UNCHANGED <<writer, seeker, scan, stale, deaths, undone>>
  BY <1>1, <1>2 DEF EndRide, HandlersOK
<1> HIDE DEF t, rel
<1> QED
  BY <1>1, <1>2, <1>3, <1>4, <1>5, <1>6, RideHandlers DEF HandlersOK, RideKnows

LEMMA ReleaseHandlers ==
  ASSUME IInv, NEW r \in Rides, ReleaseStep(r) \/ ReleaseDies(r)
  PROVE  HandlersOK'
<1>1. HandlersOK /\ KeysOK
  BY Parts
<1>2. /\ trip[r] \in TripType /\ release[r] \in ReleaseType /\ seeker[r] \in SeekerType
      /\ RideKnows(r)
      /\ trip = [trip EXCEPT ![r] = trip[r]]
      /\ seeker = [seeker EXCEPT ![r] = seeker[r]]
  BY <1>1 DEF HandlersOK
<1>3. release[r].pc # "idle"
  BY DEF ReleaseStep, ReleaseDies, ReleaseReadsHash, ReleaseReadsKey, ReleaseReadsBeat,
         ReleaseWrites, Releasing
<1>4. hash[trip[r].driver].status \in DriverStatuses \union {"NONE"}
  BY <1>1, <1>2, <1>3 DEF KeysOK, RideKnows, HashType
<1>5. \E rel \in ReleaseType : release' = [release EXCEPT ![r] = rel]
  <2>1. CASE ReleaseReadsHash(r)
    <3>1. [release[r] EXCEPT !.status = hash[trip[r].driver].status, !.pc = "readKey"]
             \in ReleaseType
      BY <1>2, <1>4 DEF ReleaseType
    <3> QED
      BY <2>1, <3>1 DEF ReleaseReadsHash, Releasing
  <2>2. CASE ReleaseReadsKey(r)
    <3> DEFINE rel == [release[r] EXCEPT !.mine = (activeKey[trip[r].driver] = r),
                                         !.pc = "readBeat"]
    <3>1. rel \in ReleaseType
      <4>1. ASSUME NEW b \in BOOLEAN
            PROVE  [release[r] EXCEPT !.mine = b, !.pc = "readBeat"] \in ReleaseType
        BY <1>2, <4>1 DEF ReleaseType
      <4>2. (activeKey[trip[r].driver] = r) \in BOOLEAN
        OBVIOUS
      <4> QED
        BY <4>1, <4>2, Zenon
    <3>2. Releasing(r, "readKey", rel)
      BY <2>2 DEF ReleaseReadsKey
    <3> HIDE DEF rel
    <3> QED
      BY <3>1, <3>2 DEF Releasing
  <2>3. CASE ReleaseReadsBeat(r)
    <3> DEFINE rel == [release[r] EXCEPT !.beat = (trip[r].driver \in heartbeat),
                                         !.pc = "write"]
    <3>1. rel \in ReleaseType
      <4>1. ASSUME NEW b \in BOOLEAN
            PROVE  [release[r] EXCEPT !.beat = b, !.pc = "write"] \in ReleaseType
        BY <1>2, <4>1 DEF ReleaseType
      <4>2. (trip[r].driver \in heartbeat) \in BOOLEAN
        OBVIOUS
      <4> QED
        BY <4>1, <4>2, Zenon
    <3>2. Releasing(r, "readBeat", rel)
      BY <2>3 DEF ReleaseReadsBeat
    <3> HIDE DEF rel
    <3> QED
      BY <3>1, <3>2 DEF Releasing
  <2>4. CASE ReleaseWrites(r) \/ ReleaseDies(r)
    <3>1. Unreleased \in ReleaseType
      BY DEF Unreleased, ReleaseType
    <3> QED
      BY <2>4, <3>1 DEF ReleaseWrites, ReleaseDies, Releasing
  <2> QED
    BY <2>1, <2>2, <2>3, <2>4 DEF ReleaseStep
<1>6. /\ UNCHANGED <<trip, writer, seeker, scan, stale, undone>>
      /\ deaths' \in 0..Failures
  BY <1>1, DriverStateAssumption
     DEF HandlersOK, ReleaseStep, ReleaseDies, ReleaseReadsHash, ReleaseReadsKey, ReleaseReadsBeat,
         ReleaseWrites, Releasing
<1>7. trip[r].phase = "over" /\ trip[r].driver \in Drivers
  BY <1>2, <1>3 DEF RideKnows
<1> QED
  BY <1>1, <1>2, <1>5, <1>6, <1>7, RideHandlers DEF HandlersOK, RideKnows

-----------------------------------------------------------------------------
\* The invariant.

LEMMA InitInv == Init => IInv
<1> SUFFICES ASSUME Init PROVE IInv
  OBVIOUS
<1>1. Unlocked \in WriterType /\ WriterKnows(Unlocked) /\ NoOne \in HashType
  BY UnlockedOK DEF NoOne, HashType, SomeRide
<1>2. Unreleased \in ReleaseType /\ Unreleased.pc = "idle"
      /\ NoCandidate \in SeekerType /\ NoCandidate.pc = "idle"
  BY DEF Unreleased, ReleaseType, NoCandidate, SeekerType
<1>3. [phase |-> "open", driver |-> NoDriver] \in TripType
  BY DEF TripType
<1>4. TypeOK
  BY <1>1, <1>2, <1>3, DriverStateAssumption DEF Init, TypeOK, SomeRide
<1>5. \A r \in Rides : RideKnows(r)
  BY <1>2 DEF Init, RideKnows
<1>6. PoolsDisjoint /\ AvailableIsScanned /\ StatusMatchesRide
  BY DEF Init, PoolsDisjoint, AvailableIsScanned, StatusMatchesRide, NoOne
<1> QED
  BY <1>1, <1>4, <1>5, <1>6 DEF IInv, Init

LEMMA NextInv == IInv /\ [Next]_vars => IInv'
<1> SUFFICES ASSUME IInv, [Next]_vars PROVE IInv'
  OBVIOUS
<1>1. KeysOK /\ HandlersOK
  BY Parts
<1>2. ASSUME NEW d \in Drivers, Begin(d)
      PROVE  IInv'
  <2>1. PICK op \in {"goOnline", "heartbeat", "goOffline"} : Lock(d, op)
    BY <1>2 DEF Begin
  <2>2. stale' \in Drivers \union {NoDriver} /\ UNCHANGED driverVars
    BY <1>1, <1>2, <2>1 DEF Begin, HandlersOK, Lock
  <2> QED
    BY <1>1, <2>1, <2>2, LockHandlers, KeysUnchanged, PartsNext
<1>3. ASSUME NEW d \in Drivers, WriterStep(d) \/ WriterDies(d)
      PROVE  IInv'
  <2>1. KeysOK'
    <3>1. CASE ReadHash(d) \/ ReadKey(d) \/ WriterDies(d)
      BY <1>1, <3>1, KeysUnchanged DEF ReadHash, ReadKey, WriterDies
    <3> QED
      BY <1>3, <3>1, WritersKeys DEF WriterStep
  <2> QED
    BY <1>3, <2>1, WriterStepHandlers, PartsNext
<1>4. ASSUME NEW d \in Drivers, Withdraw(d) \/ HeartbeatLapses(d)
      PROVE  IInv'
  <2>1. HandlersOK'
    BY <1>1, <1>4 DEF Withdraw, HeartbeatLapses, HandlersOK, RideKnows
  <2> QED
    BY <1>4, <2>1, OtherKeys, PartsNext
<1>5. ASSUME NEW r \in Rides, SeekStep(r) \/ SeekerDies(r)
      PROVE  IInv'
  <2>1. KeysOK'
    <3>1. CASE CheckDriver(r) \/ SeekerDies(r) \/ \E d \in Drivers : FindDriver(r, d)
      BY <1>1, <3>1, KeysUnchanged DEF CheckDriver, SeekerDies, FindDriver
    <3> QED
      BY <1>5, <3>1, OtherKeys DEF SeekStep
  <2> QED
    BY <1>5, <2>1, SeekHandlers, PartsNext
<1>6. ASSUME NEW r \in Rides, EndRide(r)
      PROVE  IInv'
  <2>1. KeysOK'
    BY <1>1, <1>6, KeysUnchanged DEF EndRide
  <2> QED
    BY <1>6, <2>1, EndHandlers, PartsNext
<1>7. ASSUME NEW r \in Rides, ReleaseStep(r) \/ ReleaseDies(r)
      PROVE  IInv'
  <2>1. KeysOK'
    <3>1. CASE ReleaseReadsHash(r) \/ ReleaseReadsKey(r) \/ ReleaseReadsBeat(r)
               \/ ReleaseDies(r)
      BY <1>1, <3>1, KeysUnchanged
         DEF ReleaseReadsHash, ReleaseReadsKey, ReleaseReadsBeat, ReleaseDies
    <3> QED
      BY <1>7, <3>1, ReleaseKeys DEF ReleaseStep
  <2> QED
    BY <1>7, <2>1, ReleaseHandlers, PartsNext
<1>8. ASSUME NEW r \in Rides, NEW d \in Drivers, Accept(r, d)
      PROVE  IInv'
  BY <1>8, AcceptKeys, AcceptHandlers, PartsNext
<1>9. CASE ScanStep
  <2>1. KeysOK'
    BY <1>1, <1>9, KeysUnchanged DEF ScanStep, ScanStarts, ScanLooks, ScanDrops, ScanFails, Lock
  <2> QED
    BY <1>9, <2>1, ScanHandlers, PartsNext
<1>10. CASE UNCHANGED vars
  <2>1. KeysOK'
    BY <1>1, <1>10, KeysUnchanged DEF vars, driverVars
  <2>2. HandlersOK'
    BY <1>1, <1>10 DEF vars, HandlersOK, RideKnows
  <2> QED
    BY <2>1, <2>2, PartsNext
<1> QED
  BY <1>2, <1>3, <1>4, <1>5, <1>6, <1>7, <1>8, <1>9, <1>10 DEF Next

LEMMA Invariance == Spec => []IInv
  BY InitInv, NextInv, PTL DEF Spec

\* Every variable keeps its type, and no request creates half a driver.
THEOREM TypeCorrect == Spec => []TypeOK
<1>1. IInv => TypeOK
  BY DEF IInv
<1> QED
  BY <1>1, Invariance, PTL

\* No driver is on offer and busy at once.
THEOREM PoolsStayDisjoint == Spec => []PoolsDisjoint
<1>1. IInv => PoolsDisjoint
  BY DEF IInv
<1> QED
  BY <1>1, Invariance, PTL

\* Whoever is on offer is within the reach of the stale-driver scan.
THEOREM PoolIsScanned == Spec => []AvailableIsScanned
<1>1. IInv => AvailableIsScanned
  BY DEF IInv
<1> QED
  BY <1>1, Invariance, PTL

\* The status and the active ride of a driver agree.
THEOREM StatusAgrees == Spec => []StatusMatchesRide
<1>1. IInv => StatusMatchesRide
  BY DEF IInv
<1> QED
  BY <1>1, Invariance, PTL

-----------------------------------------------------------------------------
\* One trip at a time.

\* A driver is held by one ride at most: its key names only one.
LEMMA HeldOnce ==
  ASSUME HeldRideIsNamed, NEW d \in Drivers \ undone, NEW r1 \in Rides, NEW r2 \in Rides,
         Held(d, r1), Held(d, r2)
  PROVE  r1 = r2
  BY DEF HeldRideIsNamed, Named

\* Nothing that concerns driver d changes.
LEMMA NamedUnchanged ==
  ASSUME NEW d \in Drivers, NEW r \in Rides, Named(d, r),
         activeKey'[d] = activeKey[d], hash'[d] = hash[d], writer'[d] = writer[d]
  PROVE  Named(d, r)'
  BY DEF Named

\* A locked handler of a driver that a ride holds reads and writes back that ride,
\* unless it writes over an accept.
LEMMA WriterNames ==
  ASSUME IInv, NEW d \in Drivers, d \notin undone', NEW r \in Rides, Named(d, r),
         WriterStep(d) \/ WriterDies(d) \/ \E op \in {"goOnline", "heartbeat", "goOffline"} : Lock(d, op)
  PROVE  Named(d, r)'
<1>1. KeysOK /\ writer \in [Drivers -> WriterType] /\ writer[d] \in WriterType
  BY Parts DEF HandlersOK
<1>2. r # NoRide /\ Unlocked.pc = "idle"
  BY DriverStateAssumption DEF Unlocked
<1>3. CASE WriterDies(d) \/ \E op \in {"goOnline", "heartbeat", "goOffline"} : Lock(d, op)
  <2>1. writer'[d].pc \in {"idle", "readHash"}
    BY <1>1, <1>2, <1>3 DEF WriterDies, Lock, Unlocked
  <2>2. UNCHANGED <<hash, activeKey>>
    BY <1>3 DEF WriterDies, Lock, driverVars
  <2> QED
    BY <2>1, <2>2 DEF Named
<1>4. CASE ReadHash(d)
  <2>1. UNCHANGED <<hash, activeKey>>
    BY <1>4 DEF ReadHash, driverVars
  <2>2. \/ writer'[d] = Unlocked
        \/ writer'[d] = [writer[d] EXCEPT !.seen = hash[d], !.pc = "readKey"]
        \/ /\ writer[d].op = "heartbeat"
           /\ writer'[d] = [writer[d] EXCEPT !.seen = hash[d], !.pc = "write"]
    BY <1>1, <1>4 DEF ReadHash
  <2>3. \/ writer'[d].pc = "idle"
        \/ writer'[d].pc = "readKey"
        \/ writer'[d].op = "heartbeat" /\ writer'[d].seen = hash[d]
    BY <1>1, <1>2, <2>2 DEF WriterType
  <2> QED
    BY <2>1, <2>3 DEF Named
<1>5. CASE ReadKey(d)
  <2>1. UNCHANGED <<hash, activeKey>> /\ writer[d].pc = "readKey"
    BY <1>5 DEF ReadKey, driverVars
  <2>2. writer'[d] = [writer[d] EXCEPT !.key = activeKey[d], !.pc = "write"]
    BY <1>1, <1>5 DEF ReadKey
  <2>3. writer'[d].op # "heartbeat" /\ writer'[d].key = activeKey[d]
    BY <1>1, <2>1, <2>2, Parts DEF HandlersOK, WriterType, WriterKnows
  <2> QED
    BY <2>1, <2>3 DEF Named
<1>6. CASE WriteOnline(d) \/ WriteHeartbeat(d) \/ WriteOffline(d)
  <2>1. writer'[d].pc = "idle"
    BY <1>1, <1>2, <1>6 DEF WriteOnline, WriteHeartbeat, WriteOffline, Writes
  <2>0. ~writer[d].missed
    BY <1>6 DEF WriteOnline, WriteHeartbeat, WriteOffline, Writes
  <2>2. CASE WriteOnline(d) \/ WriteOffline(d)
    <3>1. writer[d].pc = "write" /\ writer[d].op # "heartbeat"
      BY <2>2 DEF WriteOnline, WriteOffline, Writes
    <3>2. ActiveRide(writer[d]) = r
      BY <1>2, <2>0, <3>1 DEF Named, ActiveRide
    <3>3. hash'[d].active = r /\ activeKey'[d] = r
      BY <1>1, <2>2, <3>2 DEF WriteOnline, WriteOffline, Persist, KeysOK, Named
    <3> QED
      BY <2>1, <3>3 DEF Named
  <2>3. CASE WriteHeartbeat(d)
    <3>1. writer[d].seen.active = r
      BY <2>0, <2>3 DEF WriteHeartbeat, Writes, Named
    <3>2. hash'[d].active = r /\ activeKey'[d] = r
      BY <1>1, <2>3, <3>1 DEF WriteHeartbeat, Persist, KeysOK
    <3> QED
      BY <2>1, <3>2 DEF Named
  <2> QED
    BY <1>6, <2>2, <2>3
<1> QED
  BY <1>3, <1>4, <1>5, <1>6 DEF WriterStep

\* The handler of one driver writes nothing of another.
LEMMA WriterLeavesOthers ==
  ASSUME IInv, NEW d \in Drivers, NEW e \in Drivers, d # e,
         WriterStep(e) \/ WriterDies(e) \/ \E op \in {"goOnline", "heartbeat", "goOffline"} : Lock(e, op)
  PROVE  activeKey'[d] = activeKey[d] /\ hash'[d] = hash[d] /\ writer'[d] = writer[d]
<1>1. KeysOK /\ writer \in [Drivers -> WriterType]
  BY Parts DEF HandlersOK
<1> QED
  BY <1>1 DEF KeysOK, WriterStep, WriterDies, Lock, ReadHash, ReadKey, WriteOnline,
              WriteHeartbeat, WriteOffline, Writes, Persist, driverVars

\* A step of a locked handler.
Handles(d) ==
    \/ WriterStep(d) \/ WriterDies(d)
    \/ \E op \in {"goOnline", "heartbeat", "goOffline"} : Lock(d, op)

LEMMA HandlesNamed ==
  ASSUME IInv, HeldRideIsNamed, NEW e \in Drivers, Handles(e)
  PROVE  HeldRideIsNamed'
<1>1. UNCHANGED <<trip, release>> /\ undone \subseteq undone'
  BY DEF Handles, WriterStep, WriterDies, Lock, ReadHash, ReadKey, WriteOnline,
         WriteHeartbeat, WriteOffline, Writes
<1>2. ASSUME NEW d \in Drivers \ undone', NEW r \in Rides, Held(d, r)'
      PROVE  Named(d, r)'
  <2>1. Named(d, r)
    BY <1>1, <1>2 DEF Held, HeldRideIsNamed
  <2>2. CASE d = e
    BY <2>1, <2>2, WriterNames DEF Handles
  <2>3. CASE d # e
    BY <2>1, <2>3, WriterLeavesOthers, NamedUnchanged DEF Handles
  <2> QED
    BY <2>2, <2>3
<1> QED
  BY <1>2 DEF HeldRideIsNamed

\* A step that writes neither assignments nor what a ride is named by.
LEMMA OthersNamed ==
  ASSUME HeldRideIsNamed, UNCHANGED <<trip, release, activeKey, hash, writer, undone>>
  PROVE  HeldRideIsNamed'
<1>1. ASSUME NEW d \in Drivers \ undone', NEW r \in Rides, Held(d, r)'
      PROVE  Named(d, r)'
  <2>1. Named(d, r)
    BY <1>1 DEF Held, HeldRideIsNamed
  <2> QED
    BY <2>1, NamedUnchanged
<1> QED
  BY <1>1 DEF HeldRideIsNamed

\* The accept script refuses a driver whom another ride holds, and a handler that
\* has read all it goes by misses the accept.
LEMMA AcceptNamed ==
  ASSUME IInv, HeldRideIsNamed, NEW q \in Rides, NEW e \in Drivers, Accept(q, e)
  PROVE  HeldRideIsNamed'
<1>1. KeysOK /\ HandlersOK
  BY Parts
<1>2. /\ trip' = [trip EXCEPT ![q] = [phase |-> "assigned", driver |-> e]]
      /\ hash' = [hash EXCEPT ![e] = [status |-> "BUSY", active |-> q]]
      /\ activeKey' = [activeKey EXCEPT ![e] = q]
      /\ UNCHANGED <<release, undone>>
      /\ activeKey[e] \in {NoRide, q}
      /\ \A d \in Drivers \ {e} : writer'[d] = writer[d]
      /\ writer'[e].pc = "write" => writer'[e].missed
  BY <1>1 DEF Accept, AcceptGuard, HandlersOK, WriterType
<1>3. ASSUME NEW d \in Drivers \ undone', NEW r \in Rides, Held(d, r)'
      PROVE  Named(d, r)'
  <2>1. CASE r = q
    <3>1. d = e
      BY <1>1, <1>2, <1>3, <2>1 DEF Held, HandlersOK
    <3>2. activeKey'[e] = q /\ hash'[e].active = q
      BY <1>1, <1>2 DEF KeysOK
    <3> QED
      BY <1>2, <2>1, <3>1, <3>2 DEF Named
  <2>2. CASE r # q
    <3>1. Named(d, r)
      BY <1>1, <1>2, <1>3, <2>2 DEF Held, HandlersOK, HeldRideIsNamed
    <3>2. d # e
      BY <1>2, <2>2, <3>1, DriverStateAssumption DEF Named
    <3> QED
      BY <1>1, <1>2, <3>1, <3>2, NamedUnchanged DEF KeysOK
  <2> QED
    BY <2>1, <2>2
<1> QED
  BY <1>3 DEF HeldRideIsNamed

\* The end of a ride leaves the driver held until the release of it is done.
LEMMA EndNamed ==
  ASSUME IInv, HeldRideIsNamed, NEW q \in Rides, EndRide(q)
  PROVE  HeldRideIsNamed'
<1>1. HandlersOK
  BY Parts
<1>2. /\ trip' = [trip EXCEPT ![q].phase = "over"]
      /\ release' = IF trip[q].driver = NoDriver THEN release
                    ELSE [release EXCEPT ![q].pc = "readHash"]
      /\ trip[q].phase # "over"
      /\ UNCHANGED <<activeKey, hash, writer, undone>>
  BY DEF EndRide, driverVars
<1>3. ASSUME NEW d \in Drivers \ undone', NEW r \in Rides, Held(d, r)'
      PROVE  Named(d, r)'
  <2>1. Held(d, r)
    <3>1. CASE r = q
      <4>1. trip'[q].driver = trip[q].driver
        BY <1>1, <1>2 DEF HandlersOK, TripType
      <4>2. trip[q].driver = d
        BY <1>3, <3>1, <4>1 DEF Held
      <4>3. trip[q].phase = "assigned"
        BY <1>1, <1>2, <4>2, NoDriverAssumption DEF HandlersOK, TripType, RideKnows
      <4> QED
        BY <3>1, <4>2, <4>3 DEF Held
    <3>2. CASE r # q
      BY <1>1, <1>2, <1>3, <3>2 DEF Held, HandlersOK
    <3> QED
      BY <3>1, <3>2
  <2>2. Named(d, r)
    BY <1>2, <2>1 DEF HeldRideIsNamed
  <2> QED
    BY <1>2, <2>2, NamedUnchanged
<1> QED
  BY <1>3 DEF HeldRideIsNamed

\* The release writes the keys of a driver whom no other ride holds.
LEMMA ReleaseNamed ==
  ASSUME IInv, HeldRideIsNamed, NEW q \in Rides, ReleaseStep(q) \/ ReleaseDies(q)
  PROVE  HeldRideIsNamed'
<1>1. KeysOK /\ HandlersOK
  BY Parts
<1>2. UNCHANGED <<trip, writer, undone>> /\ release[q].pc # "idle"
      /\ \A r \in Rides \ {q} : release'[r] = release[r]
  BY <1>1 DEF ReleaseStep, ReleaseDies, ReleaseReadsHash, ReleaseReadsKey, ReleaseReadsBeat,
         ReleaseWrites, Releasing, HandlersOK
<1>3. trip[q].phase = "over" /\ trip[q].driver \in Drivers
  BY <1>1, <1>2 DEF HandlersOK, RideKnows
<1>4. ASSUME NEW d \in Drivers \ undone', NEW r \in Rides, Held(d, r)'
      PROVE  Held(d, r) /\ Named(d, r)
  <2>1. Held(d, r)
    BY <1>2, <1>4 DEF Held
  <2> QED
    BY <1>2, <2>1 DEF HeldRideIsNamed
<1>5. CASE UNCHANGED <<activeKey, hash>>
  BY <1>2, <1>4, <1>5, NamedUnchanged DEF HeldRideIsNamed
<1>6. CASE ReleaseWrites(q)
  <2>1. /\ hash' \in [Drivers -> HashType] /\ activeKey' \in [Drivers -> SomeRide]
        /\ \A d \in Drivers \ {trip[q].driver} :
              activeKey'[d] = activeKey[d] /\ hash'[d] = hash[d]
    BY <1>1, <1>3, <1>6, ReleaseKeys DEF ReleaseWrites, KeysOK
  <2>2. release'[q].pc = "idle"
    BY <1>1, <1>6 DEF ReleaseWrites, Releasing, Unreleased, HandlersOK
  <2>3. ASSUME NEW d \in Drivers \ undone', NEW r \in Rides, Held(d, r)'
        PROVE  d # trip[q].driver
    <3>1. r # q
      BY <1>2, <1>3, <2>2, <2>3 DEF Held
    <3>2. SUFFICES ASSUME d = trip[q].driver PROVE FALSE
      OBVIOUS
    <3>3. Held(d, q)
      BY <1>2, <3>2 DEF Held
    <3> QED
      BY <1>2, <1>4, <2>3, <3>1, <3>3, HeldOnce
  <2> QED
    BY <1>2, <1>4, <2>1, <2>3, NamedUnchanged DEF HeldRideIsNamed
<1>7. (ReleaseStep(q) /\ ~ReleaseWrites(q)) \/ ReleaseDies(q) => UNCHANGED <<activeKey, hash>>
  BY DEF ReleaseStep, ReleaseDies, ReleaseReadsHash, ReleaseReadsKey, ReleaseReadsBeat, driverVars
<1> QED
  BY <1>5, <1>6, <1>7

LEMMA NextNamed == IInv /\ HeldRideIsNamed /\ [Next]_vars => HeldRideIsNamed'
<1> SUFFICES ASSUME IInv, HeldRideIsNamed, [Next]_vars PROVE HeldRideIsNamed'
  OBVIOUS
<1>1. HandlersOK
  BY Parts
<1>2. ASSUME NEW d \in Drivers, Begin(d) \/ WriterStep(d) \/ WriterDies(d)
      PROVE  HeldRideIsNamed'
  BY <1>2, HandlesNamed DEF Begin, Handles
<1>3. ASSUME NEW d \in Drivers, Withdraw(d) \/ HeartbeatLapses(d)
      PROVE  HeldRideIsNamed'
  BY <1>3, OthersNamed DEF Withdraw, HeartbeatLapses
<1>4. ASSUME NEW r \in Rides, SeekStep(r) \/ SeekerDies(r)
      PROVE  HeldRideIsNamed'
  BY <1>4, OthersNamed
     DEF SeekStep, SeekerDies, FindDriver, CheckDriver, CleanGhost, Reserve, Seek, driverVars
<1>5. ASSUME NEW r \in Rides, EndRide(r) \/ ReleaseStep(r) \/ ReleaseDies(r)
      PROVE  HeldRideIsNamed'
  BY <1>5, EndNamed, ReleaseNamed
<1>6. ASSUME NEW r \in Rides, NEW d \in Drivers, Accept(r, d)
      PROVE  HeldRideIsNamed'
  BY <1>6, AcceptNamed
<1>7. CASE ScanStep
  <2>1. CASE ScanDrops
    <3>1. stale \in Drivers /\ Lock(stale, "goOffline")
      BY <1>1, <2>1 DEF ScanDrops, HandlersOK
    <3> QED
      BY <3>1, HandlesNamed DEF Handles
  <2>2. CASE ScanStarts \/ ScanFails \/ \E d \in Drivers : ScanLooks(d)
    BY <2>2, OthersNamed DEF ScanStarts, ScanFails, ScanLooks, driverVars
  <2> QED
    BY <1>7, <2>1, <2>2 DEF ScanStep
<1>8. CASE UNCHANGED vars
  BY <1>8, OthersNamed DEF vars
<1> QED
  BY <1>2, <1>3, <1>4, <1>5, <1>6, <1>7, <1>8 DEF Next

LEMMA InitNamed == Init => HeldRideIsNamed
<1> SUFFICES ASSUME Init PROVE HeldRideIsNamed
  OBVIOUS
<1>1. \A r \in Rides : trip[r].phase = "open" /\ release[r].pc = "idle"
  BY DEF Init, Unreleased
<1> QED
  BY <1>1 DEF HeldRideIsNamed, Held

\* Whatever is kept or read of a driver names the ride that holds it, from the
\* accept to the end of the release, unless a locked handler wrote back what it
\* read of the driver before the accept.
THEOREM HeldNamed == Spec => []HeldRideIsNamed
<1>1. IInv /\ HeldRideIsNamed /\ [Next]_vars => HeldRideIsNamed'
  BY NextNamed
<1> QED
  BY <1>1, InitNamed, Invariance, PTL DEF Spec

\* Nothing but such a handler gives a driver two rides: no order of the accepts,
\* the releases, the handlers and their deaths does, since the accept script
\* refuses a driver whose active-ride key names another ride.
THEOREM OneTripEach == Spec => []OneTripUnlessUndone
<1>1. HeldRideIsNamed => OneTripUnlessUndone
  BY HeldOnce DEF OneTripUnlessUndone, Drives, Held
<1> QED
  BY <1>1, HeldNamed, PTL

-----------------------------------------------------------------------------
\* How rides get hold of drivers.

OffersStep == [Offers!Next]_(Offers!vars)

\* A reservation goes, whoever deletes it.
LEMMA ReservationGoes ==
  ASSUME IInv, NEW d \in Drivers, UNCHANGED trip,
         reservation' = [reservation EXCEPT ![d] = NoRide]
  PROVE  OffersStep
<1>1. reservation \in [Drivers -> SomeRide]
  BY Parts DEF KeysOK
<1>2. reservation' = [e \in Drivers |-> IF e \in {d} THEN NoRide ELSE reservation[e]]
  BY <1>1
<1>3. Offers!Withdraw({d})
  BY <1>2 DEF Offers!Withdraw
<1> QED
  BY <1>3 DEF OffersStep, Offers!Next

\* SET NX, for a ride whose lock the search still holds.
LEMMA ReserveAgrees ==
  ASSUME IInv, NEW r \in Rides, Reserve(r)
  PROVE  OffersStep
<1>1. trip[r].phase # "over" /\ seeker[r].driver \in Drivers
  BY Parts DEF HandlersOK, RideKnows, Reserve
<1>2. PICK d \in Drivers : d = seeker[r].driver
  BY <1>1
<1>3. UNCHANGED trip
  BY DEF Reserve, Seek
<1>4. CASE reservation[d] = NoRide
  <2>1. reservation' = [reservation EXCEPT ![d] = r]
    BY <1>2, <1>4 DEF Reserve
  <2>2. Offers!Reserve(r, d)
    BY <1>1, <1>3, <1>4, <2>1 DEF Offers!Reserve
  <2> QED
    BY <2>2 DEF OffersStep, Offers!Next
<1>5. CASE reservation[d] # NoRide
  BY <1>2, <1>3, <1>5 DEF Reserve, OffersStep, Offers!vars
<1> QED
  BY <1>4, <1>5

\* DriverState implements DriverOffers, which RideDispatch implements from the
\* side of the rides: the two modules agree on how a driver is reserved and
\* assigned, whatever the handlers of drivers do in between.
THEOREM DriversKeepOffers == Spec => OffersAsAgreed
<1>1. Init => Offers!Init
  BY DEF Init, Offers!Init
<1>2. IInv /\ [Next]_vars => [Offers!Next]_(Offers!vars)
  <2> SUFFICES ASSUME IInv, [Next]_vars
               PROVE  OffersStep
    BY DEF OffersStep
  <2>1. ASSUME UNCHANGED <<reservation, trip>>
        PROVE  OffersStep
    BY <2>1 DEF OffersStep, Offers!vars
  <2>2. ASSUME NEW d \in Drivers, Begin(d) \/ WriterDies(d) \/ HeartbeatLapses(d)
        PROVE  OffersStep
    BY <2>1, <2>2 DEF Begin, Lock, WriterDies, HeartbeatLapses, driverVars
  <2>3. ASSUME NEW d \in Drivers, WriterStep(d)
        PROVE  OffersStep
    <3>1. CASE WriteOffline(d)
      BY <3>1, ReservationGoes DEF WriteOffline, Writes
    <3>2. CASE ReadHash(d) \/ ReadKey(d) \/ WriteOnline(d) \/ WriteHeartbeat(d)
      BY <2>1, <3>2
         DEF ReadHash, ReadKey, WriteOnline, WriteHeartbeat, Writes, Persist, driverVars
    <3> QED
      BY <2>3, <3>1, <3>2 DEF WriterStep
  <2>4. ASSUME NEW d \in Drivers, Withdraw(d)
        PROVE  OffersStep
    BY <2>4, ReservationGoes DEF Withdraw
  <2>5. ASSUME NEW r \in Rides, SeekStep(r) \/ SeekerDies(r)
        PROVE  OffersStep
    <3>1. CASE CleanGhost(r)
      <4>1. seeker[r].driver \in Drivers
        BY <3>1, Parts DEF HandlersOK, RideKnows, CleanGhost
      <4>2. PICK d \in Drivers : d = seeker[r].driver
        BY <4>1
      <4> QED
        BY <3>1, <4>2, ReservationGoes DEF CleanGhost, Seek
    <3>2. CASE CheckDriver(r) \/ SeekerDies(r) \/ \E d \in Drivers : FindDriver(r, d)
      BY <2>1, <3>2 DEF CheckDriver, SeekerDies, FindDriver, Seek, driverVars
    <3> QED
      BY <2>5, <3>1, <3>2, ReserveAgrees DEF SeekStep
  <2>6. ASSUME NEW r \in Rides, EndRide(r)
        PROVE  OffersStep
    <3>1. Offers!End(r)
      BY <2>6 DEF EndRide, Offers!End, driverVars
    <3> QED
      BY <3>1 DEF OffersStep, Offers!Next
  <2>7. ASSUME NEW r \in Rides, ReleaseStep(r) \/ ReleaseDies(r)
        PROVE  OffersStep
    BY <2>1, <2>7 DEF ReleaseStep, ReleaseDies, ReleaseReadsHash, ReleaseReadsKey,
                      ReleaseReadsBeat, ReleaseWrites, Releasing, driverVars
  <2>8. ASSUME NEW r \in Rides, NEW d \in Drivers, Accept(r, d)
        PROVE  OffersStep
    <3>1. Offers!Assign(r, d)
      BY <2>8 DEF Accept, AcceptGuard, Offers!Assign
    <3> QED
      BY <3>1 DEF OffersStep, Offers!Next
  <2>9. CASE ScanStep
    BY <2>1, <2>9 DEF ScanStep, ScanStarts, ScanLooks, ScanDrops, ScanFails, Lock, driverVars
  <2>10. CASE UNCHANGED vars
    BY <2>1, <2>10 DEF vars
  <2> QED
    BY <2>2, <2>3, <2>4, <2>5, <2>6, <2>7, <2>8, <2>9, <2>10 DEF Next
<1> QED
  BY <1>1, <1>2, Invariance, PTL DEF Spec, OffersAsAgreed, Offers!Spec
=============================================================================
