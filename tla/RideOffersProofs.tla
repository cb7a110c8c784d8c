-------------------------- MODULE RideOffersProofs --------------------------
(***************************************************************************)
(* Proofs about the offers of RideDispatch: which handler or winner still  *)
(* has to give back each reservation and clear each pending entry, and     *)
(* what an accept may rely on.                                             *)
(***************************************************************************)
EXTENDS RideDispatchProofs

-----------------------------------------------------------------------------
\* The inductive invariant, part by part.

\* Where a handler of r puts a batch together, is about to close the batch it
\* read, and where its ride has none.
Building == {"check", "reserve"}
Closing == {"readResponses", "closeBatch", "readReject", "writeReject"}
Batchless == Building \union {"start", "releaseBatch", "clearPending", "search"}
CleaningUp == {"cleanup", "cleanupReservations", "releaseDriver"}
Rejected == {"applyCooldown", "releaseRejected"}

\* The batch of ride ri, as its handler h knows it; n batches were issued.
BatchKnown(h, ri, n) ==
    /\ ri.batch <= n
    /\ ri.batch = 0 => ri.batchDrivers = {}
    /\ ri.status = "REQUESTED" => ri.batch = 0
    /\ h.pc \in Batchless => ri.batch = 0
    /\ h.pc \in Building => h.batch = n /\ n # 0
    /\ h.pc \in Closing =>
          /\ h.snap.batch <= n
          /\ h.snap.batch = 0 => h.snap.batchDrivers = {}
          /\ \/ ri.batch = h.snap.batch /\ ri.batchDrivers = h.snap.batchDrivers
             \/ ri.batch = 0 /\ ri.status # "DISPATCHING"
    /\ h.pc \in Rejected /\ BatchExhausted(h) => ri.batch = 0
    /\ h.pc \in CleaningUp => ri.status \in TerminalRideStatuses

\* b was issued for r, and is not the batch that is being put together.
Earlier(r, b) == b <= issued[r] /\ (hold[r].pc \in Building => b < issued[r])

AnswersKnown(r) ==
    /\ \A d \in Drivers : responses[r][d].kind = "PENDING" => Earlier(r, responses[r][d].batch)
    /\ At(r, "writeReject") => StillPending(r, hold[r].snap) \subseteq hold[r].seen
    /\ hold[r].pc \in Rejected => responses[r][hold[r].who].kind = "REJECTED"

\* A request that may still win saw the drivers of the batch it saw; one that
\* has won ended the dispatching.
AcceptsKnown(r) ==
    \A a \in accepts : a.ride = r =>
        /\ a.batch # 0
        /\ Earlier(r, a.batch)
        /\ a.pc = "eval" /\ ride[r].status = "DISPATCHING" /\ ride[r].batch = a.batch =>
              a.others = ride[r].batchDrivers \ {a.driver}
        /\ a.pc # "eval" => ride[r].status \notin UnassignedStatuses

\* The reservation of a driver that was chosen, or who is asked, names the batch
\* if it names the ride; it is there unless the driver went offline.
TokensMatch(r) ==
    \A d \in Drivers :
        /\ reservation[d].ride = r => reservation[d].batch # 0
        /\ hold[r].pc \in Building /\ d \in hold[r].chosen =>
              /\ reservation[d].ride = r => reservation[d].batch = hold[r].batch
              /\ d \notin Droppable => reservation[d] = Token(r, hold[r].batch)
        /\ ride[r].status = "DISPATCHING" /\ ride[r].batch # 0
             /\ responses[r][d] = Pending(ride[r].batch) =>
              (reservation[d].ride = r => reservation[d].batch = ride[r].batch)
        /\ d \notin Droppable /\ Offered(d, r) => reservation[d] = Token(r, ride[r].batch)

\* The batch the handler read is still to be given back.
GivesBack(h) ==
    \/ h.pc \in {"releaseBatch", "cleanup", "cleanupReservations"}
    \/ h.pc \in Rejected /\ BatchExhausted(h)

\* Someone answers for the reservation of d for batch b of r: the open batch, the
\* handler that builds or gives back a batch, or the winner of an accept.
Covered(r, d, b) ==
    \/ /\ b = ride[r].batch /\ d \in ride[r].batchDrivers
       /\ ride[r].status \notin TerminalRideStatuses
    \/ hold[r].pc \in Building /\ b = hold[r].batch /\ d \in hold[r].chosen
    \/ GivesBack(hold[r]) /\ b = hold[r].snap.batch /\ d \in hold[r].snap.batchDrivers
    \/ \E a \in accepts : a.ride = r /\ a.pc = "release" /\ a.batch = b /\ d \in a.others

TokensCovered(r) ==
    r \notin torn =>
        \A d \in Drivers : reservation[d].ride = r => Covered(r, d, reservation[d].batch)

\* And for the entry of r on the list of d.
Listed(r, d) ==
    \/ /\ d \in ride[r].batchDrivers /\ responses[r][d] = Pending(ride[r].batch)
       /\ ride[r].status \notin TerminalRideStatuses
    \/ hold[r].pc \in {"releaseBatch", "clearPending"} /\ d \in hold[r].snap.batchDrivers
    \/ At(r, "cleanup")
    \/ \E a \in accepts : a.ride = r /\ a.pc # "eval" /\ d \in a.others

EntriesListed(r) ==
    \A d \in Drivers : r \in pending[d] =>
        /\ d \in notified[r]
        /\ r \notin torn => Listed(r, d)

OffersKnown(r) ==
    /\ BatchKnown(hold[r], ride[r], issued[r])
    /\ AnswersKnown(r)
    /\ AcceptsKnown(r)
    /\ TokensMatch(r)
    /\ TokensCovered(r)
    /\ EntriesListed(r)

OfferInv == IInv /\ \A r \in Rides : OffersKnown(r)

-----------------------------------------------------------------------------
\* Other rides are left alone.

\* Nothing OffersKnown(q) looks at has changed, but for reservations of other
\* rides, entries that went, a death or a deadline.
Untouched(q) ==
    /\ hold'[q] = hold[q] /\ ride'[q] = ride[q] /\ responses'[q] = responses[q]
    /\ notified'[q] = notified[q] /\ issued'[q] = issued[q]
    /\ lapsed'[q] >= lapsed[q]
    /\ q \in torn => q \in torn'
    /\ \A a : a.ride = q => (a \in accepts' <=> a \in accepts)
    /\ \A d \in Drivers : q \in pending'[d] => q \in pending[d]
    /\ \A d \in Drivers : \/ reservation'[d] = reservation[d]
                          \/ reservation[d].ride # q /\ reservation'[d].ride # q

LEMMA UntouchedKept ==
  ASSUME IInv, TypeOK', NEW q \in Rides, OffersKnown(q), Untouched(q)
  PROVE  OffersKnown(q)'
<1>1. BatchKnown(hold[q], ride[q], issued[q])'
  BY DEF Untouched, OffersKnown
<1>2. AnswersKnown(q)'
  BY DEF Untouched, OffersKnown, AnswersKnown, Earlier, At, StillPending
<1>3. AcceptsKnown(q)'
  BY DEF Untouched, OffersKnown, AcceptsKnown, Earlier
<1>4. TokensMatch(q)'
  <2>1. /\ lapsed[q] \in Nat /\ lapsed'[q] \in Nat /\ ride[q].batch \in Nat
        /\ hold'[q] = hold[q] /\ ride'[q] = ride[q] /\ responses'[q] = responses[q]
        /\ lapsed'[q] >= lapsed[q]
        /\ TokensMatch(q)
    BY DEF Untouched, OffersKnown, IInv, TypeOK, RideType
  <2>2. ASSUME NEW d \in Drivers, Offered(d, q)'
        PROVE  Offered(d, q)
    BY <2>1, <2>2 DEF Offered
  <2>3. ASSUME NEW d \in Drivers
        PROVE  \/ reservation'[d] = reservation[d]
               \/ reservation[d].ride # q /\ reservation'[d].ride # q
    BY DEF Untouched
  <2> QED
    BY <2>1, <2>2, <2>3 DEF TokensMatch, Token
<1>5. TokensCovered(q)'
  BY DEF Untouched, OffersKnown, TokensCovered, Covered
<1>6. EntriesListed(q)'
  BY DEF Untouched, OffersKnown, EntriesListed, Listed, At
<1> QED
  BY <1>1, <1>2, <1>3, <1>4, <1>5, <1>6 DEF OffersKnown

\* A handler of r moves on, and nothing else changes.
LEMMA HolderKeeps ==
  ASSUME OfferInv, NEW r \in Rides, NEW h, hold'[r] = h,
         UNCHANGED <<rideVars, driverVars, lapsed, issued, accepts, torn>>,
         hold[r].pc \in Closing \union {"idle", "check"},
         BatchKnown(h, ride[r], issued[r]),
         h.pc \notin Rejected,
         h.pc = "writeReject" => StillPending(r, h.snap) \subseteq h.seen,
         h.pc \in Building => hold[r].pc = "check",
         hold[r].pc = "check" => h.pc \in Building /\ h.batch = hold[r].batch
                                                   /\ h.chosen = hold[r].chosen
  PROVE  OffersKnown(r)'
<1> USE DEF rideVars, driverVars, Building, Closing, Rejected
<1>0. OffersKnown(r)
  BY DEF OfferInv
<1>1. BatchKnown(hold[r], ride[r], issued[r])'
  OBVIOUS
<1>2. AnswersKnown(r)'
  BY <1>0 DEF OffersKnown, AnswersKnown, Earlier, At, StillPending
<1>3. AcceptsKnown(r)'
  BY <1>0 DEF OffersKnown, AcceptsKnown, Earlier
<1>4. TokensMatch(r)'
  BY <1>0 DEF OffersKnown, TokensMatch, Offered
<1>5. TokensCovered(r)'
  BY <1>0 DEF OffersKnown, TokensCovered, Covered, GivesBack
<1>6. EntriesListed(r)'
  BY <1>0 DEF OffersKnown, EntriesListed, Listed, At
<1> QED
  BY <1>1, <1>2, <1>3, <1>4, <1>5, <1>6 DEF OffersKnown

\* dispatchUnderLock starts with the batch of the ride as it is.
LEMMA EntryKnown ==
  ASSUME TypeOK, NEW r \in Rides, NEW n, ride[r].batch <= n,
         ride[r].batch = 0 => ride[r].batchDrivers = {},
         ride[r].status = "REQUESTED" => ride[r].batch = 0
  PROVE  /\ BatchKnown(DispatchEntry(r), ride[r], n)
         /\ DispatchEntry(r).pc \in {"idle", "start", "readResponses", "search"}
<1> USE DEF Building, Closing, Rejected, Batchless, CleaningUp
<1>1. CASE DispatchEntry(r) = Idle
  BY <1>1 DEF BatchKnown, Idle
<1>2. CASE DispatchEntry(r) # Idle
  <2> DEFINE p == CASE ride[r].status = "REQUESTED" -> "start"
                    [] ride[r].status # "REQUESTED" /\ ride[r].batch # 0 -> "readResponses"
                    [] OTHER -> "search"
             e == [Idle EXCEPT !.op = "dispatch", !.snap = ride[r],
                               !.round = ride[r].round, !.radius = ride[r].radius,
                               !.pc = p]
  <2>0. DispatchEntry(r) = e
    BY <1>2, Zenon DEF DispatchEntry
  <2>1. e.snap = ride[r] /\ e.pc = p
    BY DEF Idle
  <2>2. \/ p = "start" /\ ride[r].status = "REQUESTED"
        \/ p = "readResponses"
        \/ p = "search" /\ ride[r].batch = 0
    OBVIOUS
  <2> HIDE DEF p, e
  <2>3. BatchKnown(e, ride[r], n)
    BY <2>1, <2>2 DEF BatchKnown
  <2> QED
    BY <2>0, <2>1, <2>2, <2>3
<1> QED
  BY <1>1, <1>2

LEMMA BeginKeeps ==
  ASSUME OfferInv, NEW r \in Rides, Begin(r)
  PROVE  OffersKnown(r)'
<1> USE DEF Building, Closing, Rejected
<1>0. /\ TypeOK /\ hold \in [Rides -> HandlerType]
      /\ BatchKnown(hold[r], ride[r], issued[r])
  BY DEF OfferInv, OffersKnown, IInv, TypeOK
<1>a. /\ ride[r].batch <= issued[r]
      /\ ride[r].batch = 0 => ride[r].batchDrivers = {}
      /\ ride[r].status = "REQUESTED" => ride[r].batch = 0
  BY <1>0 DEF BatchKnown
<1>1. CASE BeginDispatch(r)
  <2>1. /\ hold[r].pc = "idle" /\ hold'[r] = DispatchEntry(r)
        /\ UNCHANGED <<rideVars, driverVars, lapsed, issued, accepts, torn>>
    BY <1>0, <1>1 DEF BeginDispatch, At, SetHold
  <2> QED
    BY <1>0, <1>a, <2>1, EntryKnown, HolderKeeps
<1>2. CASE BeginTimeout(r)
  <2> DEFINE h == [Idle EXCEPT !.op = "timeout", !.snap = ride[r], !.pc = "readResponses"]
  <2>1. /\ hold[r].pc = "idle" /\ hold'[r] = h
        /\ UNCHANGED <<rideVars, driverVars, lapsed, issued, accepts, torn>>
    BY <1>0, <1>2 DEF BeginTimeout, At, SetHold
  <2>2. h.pc = "readResponses" /\ h.snap = ride[r]
    BY DEF Idle
  <2> HIDE DEF h
  <2>3. BatchKnown(h, ride[r], issued[r])
    BY <1>a, <2>2 DEF BatchKnown, Batchless, CleaningUp
  <2> QED
    BY <2>1, <2>2, <2>3, HolderKeeps
<1>3. ASSUME NEW d \in Drivers, BeginReject(r, d)
      PROVE  OffersKnown(r)'
  <2> DEFINE h == [Idle EXCEPT !.op = "reject", !.snap = ride[r], !.who = d,
                               !.pc = "readReject"]
  <2>1. /\ hold[r].pc = "idle" /\ hold'[r] = h
        /\ UNCHANGED <<rideVars, driverVars, lapsed, issued, accepts, torn>>
    BY <1>0, <1>3 DEF BeginReject, At, SetHold
  <2>2. h.pc = "readReject" /\ h.snap = ride[r]
    BY DEF Idle
  <2> HIDE DEF h
  <2>3. BatchKnown(h, ride[r], issued[r])
    BY <1>a, <2>2 DEF BatchKnown, Batchless, CleaningUp
  <2> QED
    BY <2>1, <2>2, <2>3, HolderKeeps
<1>4. ASSUME NEW s \in DriverTransitions \union {"CANCELLED"}, BeginTransition(r, s)
      PROVE  OffersKnown(r)'
  <2> DEFINE h == [Idle EXCEPT !.op = "transition", !.snap = ride[r], !.target = s,
                               !.pc = "writeStatus"]
  <2>1. /\ hold[r].pc = "idle" /\ hold'[r] = h
        /\ UNCHANGED <<rideVars, driverVars, lapsed, issued, accepts, torn>>
    BY <1>0, <1>4 DEF BeginTransition, At, SetHold
  <2>2. h.pc = "writeStatus" /\ h.snap = ride[r]
    BY DEF Idle
  <2> HIDE DEF h
  <2>3. BatchKnown(h, ride[r], issued[r])
    BY <1>a, <2>2 DEF BatchKnown, Batchless, CleaningUp
  <2> QED
    BY <2>1, <2>2, <2>3, HolderKeeps
<1> QED
  BY <1>1, <1>2, <1>3, <1>4 DEF Begin

-----------------------------------------------------------------------------
\* The calls of a handler keep it for their own ride.

\* The calls that only read.
LEMMA ReadsKeep ==
  ASSUME OfferInv, NEW r \in Rides,
         ReadResponses(r) \/ CheckCandidate(r) \/ ReadReject(r)
  PROVE  OffersKnown(r)'
<1> USE DEF Building, Closing, Rejected, Batchless, CleaningUp
<1>0. /\ hold \in [Rides -> HandlerType] /\ hold[r] \in HandlerType
      /\ BatchKnown(hold[r], ride[r], issued[r])
  BY DEF OfferInv, OffersKnown, IInv, TypeOK
<1>1. CASE ReadResponses(r)
  <2> DEFINE h == [hold[r] EXCEPT !.seen = StillPending(r, hold[r].snap), !.pc = "closeBatch"]
  <2>1. /\ hold[r].pc = "readResponses" /\ hold'[r] = h
        /\ UNCHANGED <<rideVars, driverVars, lapsed, issued, accepts, torn>>
    BY <1>0, <1>1 DEF ReadResponses, At, SetHold
  <2>2. h.pc = "closeBatch" /\ h.snap = hold[r].snap
    BY <1>0 DEF HandlerType
  <2> HIDE DEF h
  <2>3. BatchKnown(h, ride[r], issued[r])
    BY <1>0, <2>1, <2>2 DEF BatchKnown
  <2> QED
    BY <2>1, <2>2, <2>3, HolderKeeps
<1>2. CASE CheckCandidate(r)
  <2>1. PICK d \in hold[r].todo :
          SetHold(r, IF Reservable(d)
                     THEN [hold[r] EXCEPT !.who = d, !.pc = "reserve"]
                     ELSE [hold[r] EXCEPT !.todo = @ \ {d}])
    BY <1>2 DEF CheckCandidate
  <2> DEFINE h == IF Reservable(d)
                  THEN [hold[r] EXCEPT !.who = d, !.pc = "reserve"]
                  ELSE [hold[r] EXCEPT !.todo = @ \ {d}]
  <2>2. /\ hold[r].pc = "check" /\ hold'[r] = h
        /\ UNCHANGED <<rideVars, driverVars, lapsed, issued, accepts, torn>>
    BY <1>0, <1>2, <2>1 DEF CheckCandidate, At, SetHold
  <2>3. /\ h.pc \in {"check", "reserve"} /\ h.batch = hold[r].batch
        /\ h.chosen = hold[r].chosen
    BY <1>0, <2>2 DEF HandlerType
  <2> HIDE DEF h
  <2>4. BatchKnown(h, ride[r], issued[r])
    BY <1>0, <2>2, <2>3 DEF BatchKnown
  <2> QED
    BY <2>2, <2>3, <2>4, HolderKeeps
<1>3. CASE ReadReject(r)
  <2> DEFINE g == [hold[r] EXCEPT !.seen = StillPending(r, hold[r].snap),
                                  !.pc = "writeReject"]
             h == IF responses[r][hold[r].who].kind \in {"NONE", "ACCEPTED"} THEN Idle ELSE g
  <2>1. /\ hold[r].pc = "readReject" /\ hold'[r] = h
        /\ UNCHANGED <<rideVars, driverVars, lapsed, issued, accepts, torn>>
    BY <1>0, <1>3 DEF ReadReject, At, SetHold
  <2>2. /\ g.pc = "writeReject" /\ g.snap = hold[r].snap
        /\ g.seen = StillPending(r, hold[r].snap)
    BY <1>0 DEF HandlerType
  <2> HIDE DEF g
  <2>3. BatchKnown(g, ride[r], issued[r])
    BY <1>0, <2>1, <2>2 DEF BatchKnown
  <2>4. BatchKnown(Idle, ride[r], issued[r]) /\ Idle.pc = "idle"
    BY <1>0 DEF BatchKnown, Idle
  <2> QED
    BY <2>1, <2>2, <2>3, <2>4, HolderKeeps
<1> QED
  BY <1>1, <1>2, <1>3

\* The search issues a batch, with no driver yet.
LEMMA SearchKeeps ==
  ASSUME OfferInv, NEW r \in Rides, Search(r)
  PROVE  OffersKnown(r)'
<1> USE DEF rideVars, driverVars, Building, Closing, Rejected, Batchless, CleaningUp
<1>0. /\ hold[r] \in HandlerType /\ issued[r] \in Nat /\ OffersKnown(r)
      /\ ride[r].batch \in Nat
      /\ \A d \in Drivers : responses[r][d].batch \in Nat
      /\ \A a \in accepts : a.batch \in Nat
  BY DEF OfferInv, IInv, TypeOK, RideType, ResponseType, AcceptType
<1>1. PICK near \in SUBSET Drivers :
        hold' = [hold EXCEPT ![r] = [hold[r] EXCEPT
                   !.batch = issued[r] + 1,
                   !.todo = {d \in near : d \notin notified[r] \/ hold[r].round > 1},
                   !.chosen = {},
                   !.pc = "check"]]
  BY DEF Search, SetHold
<1>2. /\ hold[r].pc = "search"
      /\ hold'[r].pc = "check" /\ hold'[r].batch = issued[r] + 1 /\ hold'[r].chosen = {}
      /\ issued'[r] = issued[r] + 1
      /\ UNCHANGED <<rideVars, driverVars, lapsed, accepts, torn>>
  BY <1>0, <1>1 DEF Search, At, HandlerType, OfferInv, IInv, TypeOK
<1>3. BatchKnown(hold[r], ride[r], issued[r])'
  BY <1>0, <1>2 DEF OffersKnown, BatchKnown
<1>4. AnswersKnown(r)'
  BY <1>0, <1>2 DEF OffersKnown, AnswersKnown, Earlier, At
<1>5. AcceptsKnown(r)'
  BY <1>0, <1>2 DEF OffersKnown, AcceptsKnown, Earlier
<1>6. TokensMatch(r)'
  BY <1>0, <1>2 DEF OffersKnown, TokensMatch, Offered
<1>7. TokensCovered(r)'
  BY <1>0, <1>2 DEF OffersKnown, TokensCovered, Covered, GivesBack
<1>8. EntriesListed(r)'
  BY <1>0, <1>2 DEF OffersKnown, EntriesListed, Listed, At
<1> QED
  BY <1>3, <1>4, <1>5, <1>6, <1>7, <1>8 DEF OffersKnown

LEMMA StartKeeps ==
  ASSUME OfferInv, NEW r \in Rides, StartDispatching(r)
  PROVE  OffersKnown(r)'
<1> DEFINE new == [ride[r] EXCEPT !.status = "DISPATCHING", !.round = 1,
                                 !.radius = InitialRadius, !.version = NextVersion(r)]
           h == [hold[r] EXCEPT !.snap = new, !.pc = "search"]
<1> USE DEF driverVars, Building, Closing, Rejected, Batchless, CleaningUp
<1>0. /\ hold[r] \in HandlerType /\ ride[r] \in RideType /\ OffersKnown(r)
      /\ Consistent(hold[r], ride[r])
  BY DEF OfferInv, IInv, TypeOK, SnapshotsCurrent
<1>1. /\ hold[r].pc = "start" /\ hold'[r] = h /\ ride'[r] = new
      /\ UNCHANGED <<responses, notified, driverVars, lapsed, issued, accepts, torn>>
  BY DEF StartDispatching, At, SetHold, SetRide, OfferInv, IInv, TypeOK
<1>2. /\ new.status = "DISPATCHING" /\ new.batch = ride[r].batch
      /\ new.batchDrivers = ride[r].batchDrivers /\ h.pc = "search"
  BY <1>0 DEF RideType, HandlerType
<1> HIDE DEF new, h
<1>a. ride[r].batch = 0 /\ ride[r].batchDrivers = {}
  BY <1>0, <1>1 DEF OffersKnown, BatchKnown
<1>3. BatchKnown(hold[r], ride[r], issued[r])'
  BY <1>0, <1>1, <1>2, <1>a DEF OffersKnown, BatchKnown
<1>4. AnswersKnown(r)'
  BY <1>0, <1>1, <1>2 DEF OffersKnown, AnswersKnown, Earlier, At
<1>5. AcceptsKnown(r)'
  <2>1. ride[r].status = "REQUESTED"
    BY <1>0, <1>1 DEF Consistent, MayWrite, SeesRide
  <2> QED
    BY <1>0, <1>1, <1>2, <1>a, <2>1 DEF OffersKnown, AcceptsKnown, Earlier, UnassignedStatuses
<1>6. TokensMatch(r)'
  <2>1. \A d \in Drivers : ~Offered(d, r)'
    BY <1>1, <1>2, <1>a DEF Offered, OfferInv, IInv, TypeOK
  <2> QED
    BY <1>0, <1>1, <1>2, <1>a, <2>1 DEF OffersKnown, TokensMatch
<1>7. TokensCovered(r)'
  BY <1>0, <1>1, <1>2, <1>a DEF OffersKnown, TokensCovered, Covered, GivesBack
<1>8. EntriesListed(r)'
  BY <1>0, <1>1, <1>2, <1>a DEF OffersKnown, EntriesListed, Listed, At
<1> QED
  BY <1>3, <1>4, <1>5, <1>6, <1>7, <1>8 DEF OffersKnown

\* Closing a batch leaves its reservations and entries to the handler.
LEMMA CloseKeeps ==
  ASSUME OfferInv, NEW r \in Rides, CloseBatch(r)
  PROVE  OffersKnown(r)'
<1> DEFINE new == [Cleared(ride[r]) EXCEPT !.version = NextVersion(r)]
           h == [hold[r] EXCEPT !.pc = "releaseBatch"]
<1> USE DEF driverVars, Building, Closing, Rejected, Batchless, CleaningUp
<1>0. /\ hold[r] \in HandlerType /\ ride[r] \in RideType /\ OffersKnown(r)
      /\ issued[r] \in Nat
      /\ responses \in [Rides -> [Drivers -> ResponseType]]
  BY DEF OfferInv, IInv, TypeOK
<1>1. /\ hold[r].pc = "closeBatch" /\ hold'[r] = h /\ ride'[r] = new
      /\ \A d \in Drivers : responses'[r][d].kind = "PENDING" => responses'[r][d] = responses[r][d]
      /\ UNCHANGED <<notified, driverVars, lapsed, issued, accepts, torn>>
  BY <1>0 DEF CloseBatch, At, Goto, SetHold, SetRide, Answer, OfferInv, IInv, TypeOK
<1>2. /\ new.status = ride[r].status /\ new.batch = 0 /\ new.batchDrivers = {}
      /\ h.pc = "releaseBatch" /\ h.snap = hold[r].snap
  BY <1>0 DEF Cleared, RideType, HandlerType
<1> HIDE DEF new, h
<1>3. BatchKnown(hold[r], ride[r], issued[r])'
  BY <1>0, <1>1, <1>2 DEF OffersKnown, BatchKnown
<1>4. AnswersKnown(r)'
  BY <1>0, <1>1, <1>2 DEF OffersKnown, AnswersKnown, Earlier, At
<1>5. AcceptsKnown(r)'
  BY <1>0, <1>1, <1>2 DEF OffersKnown, AcceptsKnown, Earlier
<1>6. TokensMatch(r)'
  <2>1. \A d \in Drivers : ~Offered(d, r)'
    BY <1>1, <1>2 DEF Offered, OfferInv, IInv, TypeOK
  <2> QED
    BY <1>0, <1>1, <1>2, <2>1 DEF OffersKnown, TokensMatch
<1>7. TokensCovered(r)'
  BY <1>0, <1>1, <1>2 DEF OffersKnown, TokensCovered, TokensMatch, Covered, GivesBack, BatchKnown
<1>8. EntriesListed(r)'
  BY <1>0, <1>1, <1>2 DEF OffersKnown, EntriesListed, Listed, At, BatchKnown
<1> QED
  BY <1>3, <1>4, <1>5, <1>6, <1>7, <1>8 DEF OffersKnown

\* What releaseLock takes away: reservations with this token, and no others.
LEMMA ReleasedTokens ==
  ASSUME NEW ds, NEW t, reservation' = Released(ds, t), NEW d \in Drivers
  PROVE  /\ \/ reservation'[d] = reservation[d]
            \/ reservation'[d] = NoToken /\ reservation[d] = t
         /\ (d \in ds /\ reservation[d] = t) => reservation'[d] = NoToken
  BY DEF Released

LEMMA ReleaseBatchKeeps ==
  ASSUME OfferInv, NEW r \in Rides, ReleaseBatch(r)
  PROVE  OffersKnown(r)'
<1> DEFINE h == [hold[r] EXCEPT !.pc = "clearPending"]
<1> USE DEF rideVars, Building, Closing, Rejected, Batchless, CleaningUp
<1>0. /\ hold[r] \in HandlerType /\ OffersKnown(r)
      /\ ride[r] \in RideType /\ lapsed[r] \in Nat
      /\ NoRide # r
  BY RideDispatchAssumption DEF OfferInv, IInv, TypeOK
<1>1. /\ hold[r].pc = "releaseBatch" /\ hold'[r] = h
      /\ reservation' = Released(hold[r].snap.batchDrivers, Token(r, hold[r].snap.batch))
      /\ UNCHANGED <<rideVars, pending, cooldown, free, lapsed, issued, accepts, torn>>
  BY DEF ReleaseBatch, At, Goto, SetHold, OfferInv, IInv, TypeOK
<1>2. h.pc = "clearPending" /\ h.snap = hold[r].snap
  BY <1>0 DEF HandlerType
<1> HIDE DEF h
<1>a. ride[r].batch = 0 /\ ride[r].batchDrivers = {}
  BY <1>0, <1>1 DEF OffersKnown, BatchKnown
<1>b. ASSUME NEW d \in Drivers, reservation'[d].ride = r
      PROVE  /\ reservation'[d] = reservation[d]
             /\ d \in hold[r].snap.batchDrivers => reservation[d] # Token(r, hold[r].snap.batch)
  BY <1>0, <1>1, <1>b, ReleasedTokens DEF NoToken
<1>3. BatchKnown(hold[r], ride[r], issued[r])'
  BY <1>0, <1>1, <1>2 DEF OffersKnown, BatchKnown
<1>4. AnswersKnown(r)'
  BY <1>0, <1>1, <1>2 DEF OffersKnown, AnswersKnown, Earlier, At
<1>5. AcceptsKnown(r)'
  BY <1>0, <1>1, <1>2 DEF OffersKnown, AcceptsKnown, Earlier
<1>6. TokensMatch(r)'
  <2>1. \A d \in Drivers : ~Offered(d, r)'
    BY <1>0, <1>1, <1>a DEF Offered
  <2> QED
    BY <1>0, <1>1, <1>2, <1>a, <1>b, <2>1 DEF OffersKnown, TokensMatch
<1>7. TokensCovered(r)'
  <2>1. ASSUME NEW d \in Drivers, reservation'[d].ride = r, r \notin torn
        PROVE  Covered(r, d, reservation[d].batch)'
    <3>1. /\ reservation'[d] = reservation[d] /\ reservation[d].ride = r
          /\ ~(d \in hold[r].snap.batchDrivers /\ reservation[d].batch = hold[r].snap.batch)
          /\ Covered(r, d, reservation[d].batch)
      BY <1>0, <1>b, <2>1 DEF OffersKnown, TokensCovered, Token, OfferInv, IInv, TypeOK, TokenType
    <3> QED
      BY <1>1, <1>2, <3>1 DEF Covered, GivesBack
  <2> QED
    BY <1>1, <2>1 DEF TokensCovered
<1>8. EntriesListed(r)'
  BY <1>0, <1>1, <1>2 DEF OffersKnown, EntriesListed, Listed, At
<1> QED
  BY <1>3, <1>4, <1>5, <1>6, <1>7, <1>8 DEF OffersKnown

LEMMA ClearKeeps ==
  ASSUME OfferInv, NEW r \in Rides, ClearBatchPending(r)
  PROVE  OffersKnown(r)'
<1> DEFINE g == [hold[r] EXCEPT !.snap = ride[r], !.seen = {}, !.pc = "search"]
           h == IF hold[r].op = "timeout" THEN DispatchEntry(r) ELSE g
<1> USE DEF rideVars, Building, Closing, Rejected, Batchless, CleaningUp
<1>0. /\ hold[r] \in HandlerType /\ OffersKnown(r) /\ TypeOK
  BY DEF OfferInv, IInv, TypeOK
<1>1. /\ hold[r].pc = "clearPending" /\ hold'[r] = h
      /\ \A d \in Drivers : r \in pending'[d] =>
            r \in pending[d] /\ d \notin hold[r].snap.batchDrivers
      /\ UNCHANGED <<rideVars, reservation, cooldown, free, lapsed, issued, accepts, torn>>
  BY DEF ClearBatchPending, Without, At, SetHold, OfferInv, IInv, TypeOK
<1>2. g.pc = "search"
  BY <1>0 DEF HandlerType
<1> HIDE DEF g
<1>3. /\ BatchKnown(hold[r], ride[r], issued[r])'
      /\ h.pc \in {"idle", "start", "readResponses", "search"}
  <2>1. BatchKnown(g, ride[r], issued[r])
    BY <1>0, <1>1, <1>2 DEF OffersKnown, BatchKnown
  <2>2. /\ ride[r].batch <= issued[r]
        /\ ride[r].batch = 0 => ride[r].batchDrivers = {}
        /\ ride[r].status = "REQUESTED" => ride[r].batch = 0
    BY <1>0 DEF OffersKnown, BatchKnown
  <2>3. /\ BatchKnown(DispatchEntry(r), ride[r], issued[r])
        /\ DispatchEntry(r).pc \in {"idle", "start", "readResponses", "search"}
    BY <1>0, <2>2, EntryKnown
  <2> QED
    BY <1>1, <1>2, <2>1, <2>3
<1> HIDE DEF h
<1>4. AnswersKnown(r)'
  BY <1>0, <1>1, <1>3 DEF OffersKnown, AnswersKnown, Earlier, At
<1>5. AcceptsKnown(r)'
  BY <1>0, <1>1, <1>3 DEF OffersKnown, AcceptsKnown, Earlier
<1>6. TokensMatch(r)'
  BY <1>0, <1>1, <1>3 DEF OffersKnown, TokensMatch, Offered
<1>7. TokensCovered(r)'
  BY <1>0, <1>1, <1>3 DEF OffersKnown, TokensCovered, Covered, GivesBack
<1>8. EntriesListed(r)'
  BY <1>0, <1>1, <1>3 DEF OffersKnown, EntriesListed, Listed, At
<1> QED
  BY <1>3, <1>4, <1>5, <1>6, <1>7, <1>8 DEF OffersKnown

\* A candidate joins the batch only with a reservation for it.
LEMMA ReserveKeeps ==
  ASSUME OfferInv, NEW r \in Rides, ReserveCandidate(r)
  PROVE  OffersKnown(r)'
<1> DEFINE d == hold[r].who
           taken == reservation[d] # NoToken
           got == IF taken THEN hold[r].chosen ELSE hold[r].chosen \union {d}
           h == [hold[r] EXCEPT !.chosen = got, !.who = NoDriver, !.pc = "check",
                                !.todo = IF Cardinality(got) >= BatchSize
                                         THEN {} ELSE @ \ {d}]
<1> USE DEF rideVars, Building, Closing, Rejected, Batchless, CleaningUp
<1>0. /\ hold[r] \in HandlerType /\ OffersKnown(r) /\ d \in Drivers
      /\ ride[r] \in RideType /\ lapsed[r] \in Nat
      /\ NoRide # r
  BY RideDispatchAssumption
     DEF OfferInv, IInv, TypeOK, ReserveCandidate, At, SnapshotsCurrent, Consistent, MayWrite
<1>1. /\ hold[r].pc = "reserve" /\ hold'[r] = h
      /\ reservation' = IF taken THEN reservation
                        ELSE [reservation EXCEPT ![d] = Token(r, hold[r].batch)]
      /\ UNCHANGED <<rideVars, pending, cooldown, free, lapsed, issued, accepts, torn>>
  BY DEF ReserveCandidate, At, SetHold, OfferInv, IInv, TypeOK
<1>2. h.pc = "check" /\ h.chosen = got /\ h.batch = hold[r].batch
  BY <1>0 DEF HandlerType
<1> HIDE DEF h, d
<1>a. ride[r].batch = 0 /\ ride[r].batchDrivers = {} /\ hold[r].batch # 0
  BY <1>0, <1>1 DEF OffersKnown, BatchKnown
<1>b. ASSUME NEW e \in Drivers
      PROVE  \/ /\ reservation'[e] = reservation[e]
                /\ e \in got => e \in hold[r].chosen
             \/ /\ e \in got
                /\ reservation'[e] = Token(r, hold[r].batch)
  BY <1>0, <1>1 DEF OfferInv, IInv, TypeOK
<1>c. hold[r].chosen \subseteq got
  OBVIOUS
<1>3. BatchKnown(hold[r], ride[r], issued[r])'
  BY <1>0, <1>1, <1>2 DEF OffersKnown, BatchKnown
<1>4. AnswersKnown(r)'
  BY <1>0, <1>1, <1>2 DEF OffersKnown, AnswersKnown, Earlier, At
<1>5. AcceptsKnown(r)'
  BY <1>0, <1>1, <1>2 DEF OffersKnown, AcceptsKnown, Earlier
<1> HIDE DEF got, taken
<1>6. TokensMatch(r)'
  <2>1. \A e \in Drivers : ~Offered(e, r)'
    BY <1>0, <1>1, <1>a DEF Offered
  <2> QED
    BY <1>0, <1>1, <1>2, <1>a, <1>b, <2>1 DEF OffersKnown, TokensMatch, Token
<1>7. TokensCovered(r)'
  BY <1>0, <1>1, <1>2, <1>b, <1>c DEF OffersKnown, TokensCovered, Covered, GivesBack, Token
<1>8. EntriesListed(r)'
  BY <1>0, <1>1, <1>2 DEF OffersKnown, EntriesListed, Listed, At
<1> QED
  BY <1>3, <1>4, <1>5, <1>6, <1>7, <1>8 DEF OffersKnown

\* Sending the batch makes offers of what was reserved.
LEMMA SendKeeps ==
  ASSUME OfferInv, NEW r \in Rides, SendBatch(r)
  PROVE  OffersKnown(r)'
<1> DEFINE ds == hold[r].chosen
           b == hold[r].batch
           new == [ride[r] EXCEPT !.batch = b, !.batchDrivers = ds, !.version = NextVersion(r)]
<1> USE DEF Building, Closing, Rejected, Batchless, CleaningUp
<1>0. /\ hold[r] \in HandlerType /\ ride[r] \in RideType /\ OffersKnown(r)
      /\ issued[r] \in Nat /\ b \in Nat
      /\ Consistent(hold[r], ride[r])
      /\ \A d \in Drivers : responses[r][d] \in ResponseType
      /\ \A a \in accepts : a.batch \in Nat
  BY DEF OfferInv, IInv, TypeOK, HandlerType, AcceptType, SnapshotsCurrent
<1>1. /\ hold[r].pc = "check" /\ hold'[r] = Idle /\ ride'[r] = new
      /\ notified'[r] = notified[r] \union ds
      /\ \A d \in Drivers : responses'[r][d] = IF d \in ds THEN Pending(b) ELSE responses[r][d]
      /\ \A d \in Drivers : r \in pending'[d] => r \in pending[d] \/ d \in ds
      /\ UNCHANGED <<reservation, cooldown, free, lapsed, issued, accepts, torn>>
  BY DEF SendBatch, LoopDone, At, SetHold, SetRide, OfferInv, IInv, TypeOK
<1>2. /\ new.status = ride[r].status /\ new.batch = b /\ new.batchDrivers = ds
      /\ Idle.pc = "idle" /\ ds \subseteq Drivers
  BY <1>0 DEF RideType, HandlerType, Idle
<1> HIDE DEF new
<1>a. /\ ride[r].batch = 0 /\ ride[r].batchDrivers = {}
      /\ b = issued[r] /\ b # 0
      /\ ride[r].status \in {"DISPATCHING", "ACCEPTED"}
  BY <1>0, <1>1 DEF OffersKnown, BatchKnown, Consistent, MayWrite, SeesRide
<1>b. \A a \in accepts : a.ride = r => a.batch # b
  BY <1>0, <1>1, <1>a DEF OffersKnown, AcceptsKnown, Earlier
<1>c. \A d \in Drivers : responses'[r][d] = Pending(b) => d \in ds
  BY <1>0, <1>1, <1>a DEF OffersKnown, AnswersKnown, Earlier, Pending
<1>3. BatchKnown(hold[r], ride[r], issued[r])'
  BY <1>0, <1>1, <1>2, <1>a DEF OffersKnown, BatchKnown
<1>4. AnswersKnown(r)'
  BY <1>0, <1>1, <1>2, <1>a DEF OffersKnown, AnswersKnown, Earlier, At, Pending
<1> HIDE DEF b, ds
<1>5. AcceptsKnown(r)'
  BY <1>0, <1>1, <1>2, <1>b DEF OffersKnown, AcceptsKnown, Earlier
<1>6. TokensMatch(r)'
  <2>1. ASSUME NEW d \in Drivers, responses'[r][d] = Pending(ride'[r].batch)
        PROVE  /\ reservation[d].ride = r => reservation[d].batch = b
               /\ d \notin Droppable => reservation[d] = Token(r, b)
    BY <1>0, <1>1, <1>2, <1>c, <2>1 DEF OffersKnown, TokensMatch, b, ds
  <2>2. ASSUME NEW d \in Drivers, Offered(d, r)'
        PROVE  responses'[r][d] = Pending(ride'[r].batch)
    BY <2>2 DEF Offered
  <2> QED
    BY <1>0, <1>1, <1>2, <2>1, <2>2 DEF OffersKnown, TokensMatch
<1>7. TokensCovered(r)'
  BY <1>0, <1>1, <1>2, <1>a
     DEF OffersKnown, TokensCovered, TokensMatch, Covered, GivesBack, TerminalRideStatuses, b, ds
<1>8. EntriesListed(r)'
  BY <1>0, <1>1, <1>2, <1>a DEF OffersKnown, EntriesListed, Listed, At, TerminalRideStatuses
<1> QED
  BY <1>3, <1>4, <1>5, <1>6, <1>7, <1>8 DEF OffersKnown

\* With no driver found the ride keeps no batch.
LEMMA ExpandKeeps ==
  ASSUME OfferInv, NEW r \in Rides, ExpandSearch(r)
  PROVE  OffersKnown(r)'
<1> DEFINE new == [Cleared(ride[r]) EXCEPT !.round = hold[r].round + 1,
                                           !.radius = NextRadius(hold[r].radius),
                                           !.version = NextVersion(r)]
<1> USE DEF driverVars, Building, Closing, Rejected, Batchless, CleaningUp
<1>0. ride[r] \in RideType /\ OffersKnown(r) /\ issued[r] \in Nat
  BY DEF OfferInv, IInv, TypeOK
<1>1. /\ hold[r].pc = "check" /\ hold[r].chosen = {} /\ hold'[r] = Idle /\ ride'[r] = new
      /\ UNCHANGED <<responses, notified, driverVars, lapsed, issued, accepts, torn>>
  BY DEF ExpandSearch, LoopDone, At, SetHold, SetRide, OfferInv, IInv, TypeOK
<1>2. /\ new.status = ride[r].status /\ new.batch = 0 /\ new.batchDrivers = {}
      /\ Idle.pc = "idle"
  BY <1>0 DEF RideType, Cleared, Idle
<1> HIDE DEF new
<1>a. ride[r].batch = 0 /\ ride[r].batchDrivers = {}
  BY <1>0, <1>1 DEF OffersKnown, BatchKnown
<1>3. BatchKnown(hold[r], ride[r], issued[r])'
  BY <1>0, <1>1, <1>2 DEF OffersKnown, BatchKnown
<1>4. AnswersKnown(r)'
  BY <1>0, <1>1, <1>2 DEF OffersKnown, AnswersKnown, Earlier, At
<1>5. AcceptsKnown(r)'
  BY <1>0, <1>1, <1>2 DEF OffersKnown, AcceptsKnown, Earlier
<1>6. TokensMatch(r)'
  <2>1. \A d \in Drivers : ~Offered(d, r)'
    BY <1>1, <1>2 DEF Offered, OfferInv, IInv, TypeOK
  <2> QED
    BY <1>0, <1>1, <1>2, <2>1 DEF OffersKnown, TokensMatch
<1>7. TokensCovered(r)'
  BY <1>0, <1>1, <1>2, <1>a DEF OffersKnown, TokensCovered, Covered, GivesBack
<1>8. EntriesListed(r)'
  BY <1>0, <1>1, <1>2, <1>a DEF OffersKnown, EntriesListed, Listed, At
<1> QED
  BY <1>3, <1>4, <1>5, <1>6, <1>7, <1>8 DEF OffersKnown

LEMMA GiveUpKeeps ==
  ASSUME OfferInv, NEW r \in Rides, GiveUp(r)
  PROVE  OffersKnown(r)'
<1> DEFINE new == [Cleared(ride[r]) EXCEPT !.status = "CANCELLED", !.noDrivers = TRUE,
                                           !.version = NextVersion(r)]
           h == [Idle EXCEPT !.snap = new, !.pc = "cleanup"]
<1> USE DEF driverVars, Building, Closing, Rejected, Batchless, CleaningUp
<1>0. ride[r] \in RideType /\ OffersKnown(r) /\ issued[r] \in Nat
  BY DEF OfferInv, IInv, TypeOK
<1>1. /\ hold[r].pc = "check" /\ hold[r].chosen = {} /\ hold'[r] = h /\ ride'[r] = new
      /\ UNCHANGED <<responses, notified, driverVars, lapsed, issued, accepts, torn>>
  BY DEF GiveUp, LoopDone, At, SetHold, SetRide, OfferInv, IInv, TypeOK
<1>2. /\ new.status = "CANCELLED" /\ new.batch = 0 /\ new.batchDrivers = {}
      /\ h.pc = "cleanup"
  BY <1>0 DEF RideType, Cleared, Idle
<1> HIDE DEF new, h
<1>a. ride[r].batch = 0 /\ ride[r].batchDrivers = {}
  BY <1>0, <1>1 DEF OffersKnown, BatchKnown
<1>3. BatchKnown(hold[r], ride[r], issued[r])'
  BY <1>0, <1>1, <1>2 DEF OffersKnown, BatchKnown, TerminalRideStatuses
<1>4. AnswersKnown(r)'
  BY <1>0, <1>1, <1>2 DEF OffersKnown, AnswersKnown, Earlier, At
<1>5. AcceptsKnown(r)'
  BY <1>0, <1>1, <1>2 DEF OffersKnown, AcceptsKnown, Earlier, UnassignedStatuses
<1>6. TokensMatch(r)'
  <2>1. \A d \in Drivers : ~Offered(d, r)'
    BY <1>1, <1>2 DEF Offered
  <2> QED
    BY <1>0, <1>1, <1>2, <2>1 DEF OffersKnown, TokensMatch
<1>7. TokensCovered(r)'
  BY <1>0, <1>1, <1>2, <1>a DEF OffersKnown, TokensCovered, Covered, GivesBack
<1>8. EntriesListed(r)'
  BY <1>0, <1>1, <1>2 DEF OffersKnown, EntriesListed, Listed, At
<1> QED
  BY <1>3, <1>4, <1>5, <1>6, <1>7, <1>8 DEF OffersKnown

\* The cleanup of a ride that is over.
LEMMA CleanupPendingKeeps ==
  ASSUME OfferInv, NEW r \in Rides, CleanupPending(r)
  PROVE  OffersKnown(r)'
<1> DEFINE h == [hold[r] EXCEPT !.pc = "cleanupReservations"]
<1> USE DEF rideVars, Building, Closing, Rejected, Batchless, CleaningUp
<1>0. hold[r] \in HandlerType /\ OffersKnown(r)
  BY DEF OfferInv, IInv, TypeOK
<1>1. /\ hold[r].pc = "cleanup" /\ hold'[r] = h
      /\ \A d \in Drivers : r \in pending'[d] => r \in pending[d] /\ d \notin notified[r]
      /\ UNCHANGED <<rideVars, reservation, cooldown, free, lapsed, issued, accepts, torn>>
  BY DEF CleanupPending, Without, At, Goto, SetHold, OfferInv, IInv, TypeOK
<1>2. h.pc = "cleanupReservations" /\ h.snap = hold[r].snap
  BY <1>0 DEF HandlerType
<1> HIDE DEF h
<1>3. BatchKnown(hold[r], ride[r], issued[r])'
  BY <1>0, <1>1, <1>2 DEF OffersKnown, BatchKnown
<1>4. AnswersKnown(r)'
  BY <1>0, <1>1, <1>2 DEF OffersKnown, AnswersKnown, Earlier, At
<1>5. AcceptsKnown(r)'
  BY <1>0, <1>1, <1>2 DEF OffersKnown, AcceptsKnown, Earlier
<1>6. TokensMatch(r)'
  BY <1>0, <1>1, <1>2 DEF OffersKnown, TokensMatch, Offered
<1>7. TokensCovered(r)'
  BY <1>0, <1>1, <1>2 DEF OffersKnown, TokensCovered, Covered, GivesBack
<1>8. EntriesListed(r)'
  BY <1>0, <1>1 DEF OffersKnown, EntriesListed
<1> QED
  BY <1>3, <1>4, <1>5, <1>6, <1>7, <1>8 DEF OffersKnown

LEMMA CleanupReservationsKeeps ==
  ASSUME OfferInv, NEW r \in Rides, CleanupReservations(r)
  PROVE  OffersKnown(r)'
<1> DEFINE g == [hold[r] EXCEPT !.pc = "releaseDriver"]
           h == IF hold[r].snap.driver = NoDriver THEN Idle ELSE g
<1> USE DEF rideVars, Building, Closing, Rejected, Batchless, CleaningUp
<1>0. hold[r] \in HandlerType /\ OffersKnown(r) /\ NoRide # r
  BY RideDispatchAssumption DEF OfferInv, IInv, TypeOK
<1>1. /\ hold[r].pc = "cleanupReservations" /\ hold'[r] = h
      /\ reservation' = IF hold[r].snap.batch = 0 THEN reservation
                        ELSE Released(hold[r].snap.batchDrivers, Token(r, hold[r].snap.batch))
      /\ UNCHANGED <<rideVars, pending, cooldown, free, lapsed, issued, accepts, torn>>
  BY DEF CleanupReservations, At, SetHold, OfferInv, IInv, TypeOK
<1>2. h.pc \in {"idle", "releaseDriver"}
  BY <1>0 DEF HandlerType, Idle
<1> HIDE DEF h
<1>a. ride[r].status \in TerminalRideStatuses
  BY <1>0, <1>1 DEF OffersKnown, BatchKnown
<1>b. ASSUME NEW d \in Drivers, reservation'[d].ride = r
      PROVE  /\ reservation'[d] = reservation[d]
             /\ d \in hold[r].snap.batchDrivers =>
                   reservation[d].batch # hold[r].snap.batch
  <2>1. CASE hold[r].snap.batch = 0
    BY <1>0, <1>1, <1>b, <2>1 DEF OffersKnown, TokensMatch
  <2>2. CASE hold[r].snap.batch # 0
    <3>1. /\ reservation'[d] = reservation[d]
          /\ d \in hold[r].snap.batchDrivers => reservation[d] # Token(r, hold[r].snap.batch)
      BY <1>0, <1>1, <1>b, <2>2, ReleasedTokens DEF NoToken
    <3> QED
      BY <1>b, <3>1 DEF Token, OfferInv, IInv, TypeOK, TokenType
  <2> QED
    BY <2>1, <2>2
<1>3. BatchKnown(hold[r], ride[r], issued[r])'
  BY <1>0, <1>1, <1>2, <1>a DEF OffersKnown, BatchKnown
<1>4. AnswersKnown(r)'
  BY <1>0, <1>1, <1>2 DEF OffersKnown, AnswersKnown, Earlier, At
<1>5. AcceptsKnown(r)'
  BY <1>0, <1>1, <1>2 DEF OffersKnown, AcceptsKnown, Earlier
<1>6. TokensMatch(r)'
  <2>1. ride[r].status # "DISPATCHING"
    BY <1>a DEF TerminalRideStatuses
  <2>2. \A d \in Drivers : ~Offered(d, r)'
    BY <1>1, <2>1 DEF Offered
  <2> QED
    BY <1>0, <1>1, <1>2, <1>b, <2>1, <2>2 DEF OffersKnown, TokensMatch
<1>7. TokensCovered(r)'
  BY <1>0, <1>1, <1>2, <1>b DEF OffersKnown, TokensCovered, Covered, GivesBack
<1>8. EntriesListed(r)'
  BY <1>0, <1>1, <1>2 DEF OffersKnown, EntriesListed, Listed, At
<1> QED
  BY <1>3, <1>4, <1>5, <1>6, <1>7, <1>8 DEF OffersKnown

LEMMA ReleaseDriverKeeps ==
  ASSUME OfferInv, NEW r \in Rides, ReleaseDriver(r)
  PROVE  OffersKnown(r)'
<1> USE DEF rideVars, Building, Closing, Rejected, Batchless, CleaningUp
<1>0. OffersKnown(r)
  BY DEF OfferInv
<1>1. /\ hold[r].pc = "releaseDriver" /\ hold'[r] = Idle
      /\ \A d \in Drivers : r \in pending'[d] => r \in pending[d]
      /\ UNCHANGED <<rideVars, reservation, cooldown, lapsed, issued, accepts, torn>>
  BY DEF ReleaseDriver, Without, At, SetHold, OfferInv, IInv, TypeOK
<1>2. Idle.pc = "idle"
  BY DEF Idle
<1>3. BatchKnown(hold[r], ride[r], issued[r])'
  BY <1>0, <1>1, <1>2 DEF OffersKnown, BatchKnown
<1>4. AnswersKnown(r)'
  BY <1>0, <1>1, <1>2 DEF OffersKnown, AnswersKnown, Earlier, At
<1>5. AcceptsKnown(r)'
  BY <1>0, <1>1, <1>2 DEF OffersKnown, AcceptsKnown, Earlier
<1>6. TokensMatch(r)'
  BY <1>0, <1>1, <1>2 DEF OffersKnown, TokensMatch, Offered
<1>7. TokensCovered(r)'
  BY <1>0, <1>1, <1>2 DEF OffersKnown, TokensCovered, Covered, GivesBack
<1>8. EntriesListed(r)'
  BY <1>0, <1>1, <1>2 DEF OffersKnown, EntriesListed, Listed, At
<1> QED
  BY <1>3, <1>4, <1>5, <1>6, <1>7, <1>8 DEF OffersKnown

\* A rejection writes the batch back, or closes it for its handler to give back.
LEMMA RejectKeeps ==
  ASSUME OfferInv, NEW r \in Rides, WriteReject(r)
  PROVE  OffersKnown(r)'
<1> DEFINE o == hold[r]
           new == [ride[r] EXCEPT
                     !.batch = IF BatchExhausted(o) THEN 0 ELSE o.snap.batch,
                     !.batchDrivers = IF BatchExhausted(o) THEN {} ELSE o.snap.batchDrivers,
                     !.version = NextVersion(r)]
           h == [o EXCEPT !.pc = "applyCooldown"]
<1> USE DEF driverVars, Building, Closing, Rejected, Batchless, CleaningUp
<1>0. /\ o \in HandlerType /\ ride[r] \in RideType /\ OffersKnown(r)
      /\ o.who \in Drivers
      /\ issued[r] \in Nat
      /\ responses \in [Rides -> [Drivers -> ResponseType]]
  BY DEF OfferInv, IInv, TypeOK, WriteReject, At, SnapshotsCurrent, Consistent, MayWrite
<1>1. /\ o.pc = "writeReject" /\ hold'[r] = h /\ ride'[r] = new
      /\ responses'[r] = [responses[r] EXCEPT ![o.who] = Answer("REJECTED")]
      /\ \A d \in Drivers : r \in pending'[d] => r \in pending[d] /\ d # o.who
      /\ UNCHANGED <<notified, reservation, cooldown, free, lapsed, issued, accepts, torn>>
  BY <1>0 DEF WriteReject, Without, At, Goto, SetHold, SetRide, OfferInv, IInv, TypeOK
<1>2. /\ new.status = ride[r].status
      /\ BatchExhausted(o) => new.batch = 0 /\ new.batchDrivers = {}
      /\ ~BatchExhausted(o) => /\ new.batch = o.snap.batch
                               /\ new.batchDrivers = o.snap.batchDrivers
      /\ h.pc = "applyCooldown" /\ h.snap = o.snap /\ h.who = o.who /\ h.seen = o.seen
  BY <1>0 DEF RideType, HandlerType
<1>3. BatchExhausted(h) <=> BatchExhausted(o)
  BY <1>2 DEF BatchExhausted
<1>4. /\ responses'[r][o.who].kind = "REJECTED"
      /\ \A d \in Drivers : responses'[r][d].kind = "PENDING" =>
            responses'[r][d] = responses[r][d] /\ d # o.who
  BY <1>0, <1>1 DEF Answer
<1>5. \A d \in Drivers : responses[r][d] = Pending(o.snap.batch) /\ d \in o.snap.batchDrivers
                            /\ BatchExhausted(o) => d = o.who
  BY <1>0, <1>1 DEF OffersKnown, AnswersKnown, At, StillPending, BatchExhausted
<1>6. \/ ride[r].batch = o.snap.batch /\ ride[r].batchDrivers = o.snap.batchDrivers
      \/ ride[r].batch = 0 /\ ride[r].batchDrivers = {} /\ ride[r].status # "DISPATCHING"
  BY <1>0, <1>1 DEF OffersKnown, BatchKnown
<1> HIDE DEF new, h, o
<1> USE DEF o
<1>7. BatchKnown(hold[r], ride[r], issued[r])'
  <2>1. /\ o.snap.batch <= issued[r]
        /\ o.snap.batch = 0 => o.snap.batchDrivers = {}
        /\ ride[r].status = "REQUESTED" => o.snap.batch = 0
    <3>1. ride[r].status # "REQUESTED"
      BY <1>0, <1>1 DEF OfferInv, IInv, SnapshotsCurrent, Consistent, MayWrite, SeesRide
    <3> QED
      BY <1>0, <1>1, <3>1 DEF OffersKnown, BatchKnown
  <2> QED
    BY <1>0, <1>1, <1>2, <1>3, <2>1 DEF BatchKnown
<1>8. AnswersKnown(r)'
  BY <1>0, <1>1, <1>2, <1>4 DEF OffersKnown, AnswersKnown, Earlier, At
<1>9. AcceptsKnown(r)'
  BY <1>0, <1>1, <1>2, <1>6 DEF OffersKnown, AcceptsKnown, Earlier
<1>10. TokensMatch(r)'
  <2>1. ASSUME NEW d \in Drivers, ride'[r].status = "DISPATCHING", ride'[r].batch # 0,
               responses'[r][d] = Pending(ride'[r].batch)
        PROVE  /\ ride[r].status = "DISPATCHING" /\ ride'[r].batch = ride[r].batch
               /\ responses[r][d] = Pending(ride[r].batch)
    BY <1>1, <1>2, <1>4, <1>6, <2>1 DEF Pending
  <2>2. ASSUME NEW d \in Drivers, Offered(d, r)'
        PROVE  /\ ride'[r].status = "DISPATCHING" /\ ride'[r].batch # 0
               /\ ride'[r].batch > lapsed[r]
               /\ responses'[r][d] = Pending(ride'[r].batch)
    BY <1>1, <2>2 DEF Offered, OfferInv, IInv, TypeOK
  <2>3. \A d \in Drivers : Offered(d, r)' => Offered(d, r) /\ ride'[r].batch = ride[r].batch
    BY <2>1, <2>2 DEF Offered
  <2> QED
    BY <1>0, <1>1, <1>2, <2>1, <2>3 DEF OffersKnown, TokensMatch
<1>11. TokensCovered(r)'
  BY <1>0, <1>1, <1>2, <1>3, <1>6 DEF OffersKnown, TokensCovered, TokensMatch, Covered, GivesBack
<1>12. EntriesListed(r)'
  <2>1. ASSUME NEW d \in Drivers, r \in pending'[d], r \notin torn,
               d \in ride[r].batchDrivers, responses[r][d] = Pending(ride[r].batch),
               ride[r].status \notin TerminalRideStatuses
        PROVE  Listed(r, d)'
    <3>1. /\ ride[r].batch = o.snap.batch /\ d \in o.snap.batchDrivers /\ d # o.who
          /\ ~BatchExhausted(o)
      BY <1>1, <1>5, <1>6, <2>1
    <3>2. responses'[r][d] = responses[r][d]
      BY <1>0, <1>1, <3>1
    <3> QED
      BY <1>1, <1>2, <2>1, <3>1, <3>2 DEF Listed
  <2>2. ASSUME NEW d \in Drivers, r \in pending'[d], r \notin torn
        PROVE  Listed(r, d)'
    BY <1>0, <1>1, <1>2, <2>1, <2>2 DEF OffersKnown, EntriesListed, Listed, At
  <2> QED
    BY <1>0, <1>1, <2>2 DEF OffersKnown, EntriesListed
<1> QED
  BY <1>7, <1>8, <1>9, <1>10, <1>11, <1>12 DEF OffersKnown

LEMMA CooldownKeeps ==
  ASSUME OfferInv, NEW r \in Rides, ApplyCooldown(r)
  PROVE  OffersKnown(r)'
<1> DEFINE h == [hold[r] EXCEPT !.pc = "releaseRejected"]
<1> USE DEF rideVars, Building, Closing, Rejected, Batchless, CleaningUp
<1>0. hold[r] \in HandlerType /\ OffersKnown(r)
  BY DEF OfferInv, IInv, TypeOK
<1>1. /\ hold[r].pc = "applyCooldown" /\ hold'[r] = h
      /\ UNCHANGED <<rideVars, pending, reservation, free, lapsed, issued, accepts, torn>>
  BY DEF ApplyCooldown, At, Goto, SetHold, OfferInv, IInv, TypeOK
<1>2. /\ h.pc = "releaseRejected" /\ h.snap = hold[r].snap /\ h.who = hold[r].who
      /\ h.seen = hold[r].seen
  BY <1>0 DEF HandlerType
<1> HIDE DEF h
<1>3. BatchKnown(hold[r], ride[r], issued[r])'
  BY <1>0, <1>1, <1>2 DEF OffersKnown, BatchKnown, BatchExhausted
<1>4. AnswersKnown(r)'
  BY <1>0, <1>1, <1>2 DEF OffersKnown, AnswersKnown, Earlier, At
<1>5. AcceptsKnown(r)'
  BY <1>0, <1>1, <1>2 DEF OffersKnown, AcceptsKnown, Earlier
<1>6. TokensMatch(r)'
  BY <1>0, <1>1, <1>2 DEF OffersKnown, TokensMatch, Offered
<1>7. TokensCovered(r)'
  BY <1>0, <1>1, <1>2 DEF OffersKnown, TokensCovered, Covered, GivesBack, BatchExhausted
<1>8. EntriesListed(r)'
  BY <1>0, <1>1, <1>2 DEF OffersKnown, EntriesListed, Listed, At
<1> QED
  BY <1>3, <1>4, <1>5, <1>6, <1>7, <1>8 DEF OffersKnown

\* The driver that rejected gives its reservation back, and an exhausted batch
\* all of them; nobody who is still asked loses one.
LEMMA ReleaseRejectedKeeps ==
  ASSUME OfferInv, NEW r \in Rides, ReleaseRejected(r)
  PROVE  OffersKnown(r)'
<1> DEFINE o == hold[r]
           ds == {o.who} \union (IF BatchExhausted(o) THEN o.snap.batchDrivers ELSE {})
           h == IF BatchExhausted(o) THEN DispatchEntry(r) ELSE Idle
<1> USE DEF rideVars, Building, Closing, Rejected, Batchless, CleaningUp
<1>0. o \in HandlerType /\ OffersKnown(r) /\ TypeOK /\ NoRide # r
  BY RideDispatchAssumption DEF OfferInv, IInv, TypeOK
<1>1. /\ o.pc = "releaseRejected" /\ hold'[r] = h
      /\ reservation' = IF o.snap.batch = 0 THEN reservation
                        ELSE Released(ds, Token(r, o.snap.batch))
      /\ UNCHANGED <<rideVars, pending, cooldown, free, lapsed, issued, accepts, torn>>
  BY DEF ReleaseRejected, At, SetHold, OfferInv, IInv, TypeOK
<1> HIDE DEF ds, o
<1>2. /\ BatchKnown(hold[r], ride[r], issued[r])'
      /\ h.pc \in {"idle", "start", "readResponses", "search"}
  <2>1. /\ ride[r].batch <= issued[r]
        /\ ride[r].batch = 0 => ride[r].batchDrivers = {}
        /\ ride[r].status = "REQUESTED" => ride[r].batch = 0
    BY <1>0 DEF OffersKnown, BatchKnown
  <2>2. BatchKnown(Idle, ride[r], issued[r]) /\ Idle.pc = "idle"
    BY <2>1 DEF BatchKnown, Idle
  <2> QED
    BY <1>0, <1>1, <2>1, <2>2, EntryKnown
<1> HIDE DEF h
<1>3. ASSUME NEW d \in Drivers
      PROVE  \/ reservation'[d] = reservation[d]
             \/ /\ reservation'[d] = NoToken /\ reservation[d] = Token(r, o.snap.batch)
                /\ d \in ds
  BY <1>1 DEF Released
<1>4. ASSUME NEW d \in Drivers, reservation'[d].ride = r
      PROVE  /\ reservation'[d] = reservation[d]
             /\ BatchExhausted(o) /\ d \in o.snap.batchDrivers =>
                   reservation[d].batch # o.snap.batch
  <2>1. reservation'[d] = reservation[d]
    BY <1>0, <1>3, <1>4 DEF NoToken
  <2>2. CASE o.snap.batch = 0
    BY <1>0, <1>4, <2>1, <2>2 DEF OffersKnown, TokensMatch
  <2>3. CASE o.snap.batch # 0
    <3>1. d \in ds => reservation[d] # Token(r, o.snap.batch)
      BY <1>0, <1>1, <1>4, <2>1, <2>3, ReleasedTokens DEF NoToken
    <3> QED
      BY <1>4, <2>1, <3>1 DEF ds, Token, OfferInv, IInv, TypeOK, TokenType
  <2> QED
    BY <2>1, <2>2, <2>3
<1>5. AnswersKnown(r)'
  BY <1>0, <1>1, <1>2 DEF OffersKnown, AnswersKnown, Earlier, At
<1>6. AcceptsKnown(r)'
  BY <1>0, <1>1, <1>2 DEF OffersKnown, AcceptsKnown, Earlier, o
<1>7. TokensMatch(r)'
  <2>1. ASSUME NEW d \in Drivers, responses[r][d] = Pending(ride[r].batch), ride[r].batch # 0
        PROVE  reservation'[d] = reservation[d]
    <3>1. responses[r][o.who].kind = "REJECTED" /\ ~BatchExhausted(o)
      BY <1>0, <1>1, <2>1 DEF OffersKnown, AnswersKnown, BatchKnown, o
    <3>2. d \notin ds
      BY <2>1, <3>1 DEF ds, Pending
    <3> QED
      BY <1>3, <3>2
  <2>2. ASSUME NEW d \in Drivers, Offered(d, r)
        PROVE  responses[r][d] = Pending(ride[r].batch) /\ ride[r].batch # 0
    BY <2>2 DEF Offered, OfferInv, IInv, TypeOK
  <2>3. \A d \in Drivers : Offered(d, r)' => Offered(d, r)
    BY <1>1 DEF Offered
  <2> QED
    BY <1>0, <1>1, <1>2, <1>4, <2>1, <2>2, <2>3 DEF OffersKnown, TokensMatch
<1>8. TokensCovered(r)'
  BY <1>0, <1>1, <1>2, <1>4 DEF OffersKnown, TokensCovered, Covered, GivesBack, o
<1>9. EntriesListed(r)'
  BY <1>0, <1>1, <1>2 DEF OffersKnown, EntriesListed, Listed, At, o
<1> QED
  BY <1>2, <1>5, <1>6, <1>7, <1>8, <1>9 DEF OffersKnown

\* The write of a transition takes the ride past its dispatching; at its end the
\* cleanup starts from the batch fields as they are.
LEMMA StatusKeeps ==
  ASSUME OfferInv, NEW r \in Rides, WriteStatus(r)
  PROVE  OffersKnown(r)'
<1> DEFINE new == Transitioned(ride[r], hold[r])
           g == [Idle EXCEPT !.snap = new, !.pc = "cleanup"]
           h == IF hold[r].target \in TerminalRideStatuses THEN g ELSE Idle
<1> USE DEF driverVars, Building, Closing, Rejected, Batchless, CleaningUp
<1>0. /\ ride[r] \in RideType /\ OffersKnown(r) /\ issued[r] \in Nat
      /\ Consistent(hold[r], ride[r])
  BY DEF OfferInv, IInv, TypeOK, SnapshotsCurrent
<1>1. /\ hold[r].pc = "writeStatus" /\ hold'[r] = h /\ ride'[r] = new
      /\ UNCHANGED <<responses, notified, driverVars, lapsed, issued, accepts, torn>>
  BY DEF WriteStatus, At, SetHold, SetRide, OfferInv, IInv, TypeOK
<1>2. /\ new.status = hold[r].target /\ new.batch = ride[r].batch
      /\ new.batchDrivers = ride[r].batchDrivers
  BY <1>0 DEF RideType, Transitioned
<1>3. g.pc = "cleanup" /\ g.snap = new /\ Idle.pc = "idle"
  BY DEF Idle
<1> HIDE DEF new, g
<1>4. /\ new.status \notin UnassignedStatuses
      /\ new.status \in TerminalRideStatuses => h.pc = "cleanup" /\ h.snap = new
      /\ new.status \notin TerminalRideStatuses => h.pc = "idle"
      /\ ride[r].status \notin TerminalRideStatuses
  BY <1>0, <1>1, <1>2, <1>3
     DEF Consistent, MayWrite, SeesRide, DriverTransitions, UnassignedStatuses, TerminalRideStatuses,
         RideTransitions
<1> HIDE DEF h
<1>5. BatchKnown(hold[r], ride[r], issued[r])'
  BY <1>0, <1>1, <1>2, <1>4 DEF OffersKnown, BatchKnown, UnassignedStatuses
<1>6. AnswersKnown(r)'
  BY <1>0, <1>1, <1>4 DEF OffersKnown, AnswersKnown, Earlier, At
<1>7. AcceptsKnown(r)'
  BY <1>0, <1>1, <1>2, <1>4 DEF OffersKnown, AcceptsKnown, Earlier, UnassignedStatuses
<1>8. TokensMatch(r)'
  <2>1. \A d \in Drivers : ~Offered(d, r)'
    BY <1>1, <1>4 DEF Offered, UnassignedStatuses
  <2> QED
    BY <1>0, <1>1, <1>2, <1>4, <2>1 DEF OffersKnown, TokensMatch, UnassignedStatuses
<1>9. TokensCovered(r)'
  BY <1>0, <1>1, <1>2, <1>4 DEF OffersKnown, TokensCovered, Covered, GivesBack
<1>10. EntriesListed(r)'
  BY <1>0, <1>1, <1>2, <1>4 DEF OffersKnown, EntriesListed, Listed, At
<1> QED
  BY <1>5, <1>6, <1>7, <1>8, <1>9, <1>10 DEF OffersKnown

LEMMA HandlerStepKeeps ==
  ASSUME OfferInv, NEW r \in Rides, HandlerStep(r)
  PROVE  OffersKnown(r)'
  BY StartKeeps, ReadsKeep, CloseKeeps, ReleaseBatchKeeps, ClearKeeps, SearchKeeps,
     ReserveKeeps, SendKeeps, ExpandKeeps, GiveUpKeeps, CleanupPendingKeeps,
     CleanupReservationsKeeps, ReleaseDriverKeeps, RejectKeeps, CooldownKeeps,
     ReleaseRejectedKeeps, StatusKeeps DEF HandlerStep

-----------------------------------------------------------------------------
\* The accepts.

\* The reservation names the batch of the answer that is awaited, so a request
\* that would win read that batch.
LEMMA WinnerReadItsBatch ==
  ASSUME OfferInv, NEW a \in accepts, a.pc = "eval", AcceptGuard(a)
  PROVE  /\ a.batch = ride[a.ride].batch
         /\ a.others = ride[a.ride].batchDrivers \ {a.driver}
<1>0. a.ride \in Rides /\ a.driver \in Drivers /\ OffersKnown(a.ride)
  BY DEF OfferInv, IInv, TypeOK, AcceptType
<1>1. /\ ride[a.ride].status = "DISPATCHING" /\ ride[a.ride].batch # 0
      /\ responses[a.ride][a.driver] = Pending(ride[a.ride].batch)
      /\ reservation[a.driver].ride = a.ride /\ reservation[a.driver].batch = a.batch
  BY DEF AcceptGuard, Token
<1>2. a.batch = ride[a.ride].batch
  BY <1>0, <1>1 DEF OffersKnown, TokensMatch
<1> QED
  BY <1>0, <1>1, <1>2 DEF OffersKnown, AcceptsKnown

LEMMA AcceptReadKeeps ==
  ASSUME OfferInv, NEW r \in Rides, NEW d \in Drivers, AcceptRead(r, d)
  PROVE  OffersKnown(r)'
<1> DEFINE a == [ride |-> r, driver |-> d, batch |-> ride[r].batch,
                 others |-> ride[r].batchDrivers \ {d},
                 late |-> ride[r].batch <= lapsed[r], pc |-> "eval"]
<1> USE DEF rideVars, driverVars, Building, Closing, Rejected, Batchless, CleaningUp
<1>0. OffersKnown(r)
  BY DEF OfferInv
<1>1. /\ ride[r].batch # 0 /\ accepts' = accepts \union {a}
      /\ UNCHANGED <<rideVars, driverVars, lapsed, issued, hold, torn>>
  BY DEF AcceptRead
<1>2. /\ a.pc = "eval" /\ a.batch = ride[r].batch /\ a.driver = d
      /\ a.others = ride[r].batchDrivers \ {d}
  OBVIOUS
<1> HIDE DEF a
<1>3. Earlier(r, ride[r].batch)
  BY <1>0, <1>1 DEF OffersKnown, BatchKnown, Earlier
<1>4. BatchKnown(hold[r], ride[r], issued[r])'
  BY <1>0, <1>1 DEF OffersKnown
<1>5. AnswersKnown(r)'
  BY <1>0, <1>1 DEF OffersKnown, AnswersKnown, Earlier, At, StillPending
<1>6. AcceptsKnown(r)'
  BY <1>0, <1>1, <1>2, <1>3 DEF OffersKnown, AcceptsKnown, Earlier
<1>7. TokensMatch(r)'
  BY <1>0, <1>1 DEF OffersKnown, TokensMatch, Offered
<1>8. TokensCovered(r)'
  BY <1>0, <1>1 DEF OffersKnown, TokensCovered, Covered
<1>9. EntriesListed(r)'
  BY <1>0, <1>1 DEF OffersKnown, EntriesListed, Listed, At
<1> QED
  BY <1>4, <1>5, <1>6, <1>7, <1>8, <1>9 DEF OffersKnown

\* The winner ends the batch and answers for its other drivers.
LEMMA AcceptWinsKeeps ==
  ASSUME OfferInv, NEW a \in accepts, AcceptWins(a)
  PROVE  OffersKnown(a.ride)'
<1> DEFINE r == a.ride
           new == [Cleared(ride[r]) EXCEPT !.status = "ACCEPTED", !.driver = a.driver,
                                           !.version = ride[r].version + 1]
           won == [a EXCEPT !.pc = "release"]
<1> USE DEF Building, Closing, Rejected, Batchless, CleaningUp
<1>0. /\ r \in Rides /\ a \in AcceptType /\ a.driver \in Drivers
      /\ ride[r] \in RideType /\ OffersKnown(r)
      /\ responses \in [Rides -> [Drivers -> ResponseType]]
      /\ issued[r] \in Nat /\ lapsed[r] \in Nat
      /\ NoRide # r
  BY RideDispatchAssumption DEF OfferInv, IInv, TypeOK, AcceptType
<1>1. /\ a.pc = "eval" /\ AcceptGuard(a) /\ ride'[r] = new
      /\ responses'[r] = [responses[r] EXCEPT ![a.driver] = Answer("ACCEPTED")]
      /\ \A d \in Drivers : r \in pending'[d] => r \in pending[d] /\ d # a.driver
      /\ reservation' = [reservation EXCEPT ![a.driver] = NoToken]
      /\ accepts' = (accepts \ {a}) \union {won}
      /\ UNCHANGED <<notified, lapsed, issued, hold, torn>>
  BY <1>0 DEF AcceptWins, Without, SetRide, OfferInv, IInv, TypeOK
<1>2. /\ new.status = "ACCEPTED" /\ new.batch = 0 /\ new.batchDrivers = {}
      /\ won.pc = "release" /\ won.ride = r /\ won.batch = a.batch /\ won.others = a.others
  BY <1>0 DEF Cleared, RideType, AcceptType
<1>3. /\ a.batch = ride[r].batch /\ a.others = ride[r].batchDrivers \ {a.driver}
      /\ ride[r].status = "DISPATCHING" /\ ride[r].batch # 0
      /\ responses[r][a.driver].kind = "PENDING"
  BY <1>1, WinnerReadItsBatch DEF AcceptGuard, Pending
<1>4. hold[r].pc \notin Building \union CleaningUp
  BY <1>0, <1>3 DEF OffersKnown, BatchKnown, TerminalRideStatuses
<1>5. ASSUME NEW d \in Drivers
      PROVE  \/ d = a.driver /\ reservation'[d] = NoToken
             \/ d # a.driver /\ reservation'[d] = reservation[d]
  BY <1>1 DEF OfferInv, IInv, TypeOK
<1>6. ASSUME NEW d \in Drivers, responses'[r][d].kind \in {"PENDING", "REJECTED"}
      PROVE  d # a.driver /\ responses'[r][d] = responses[r][d]
  BY <1>0, <1>1, <1>6 DEF Answer
<1> HIDE DEF r, new, won
<1>7. BatchKnown(hold[r], ride[r], issued[r])'
  BY <1>0, <1>1, <1>2, <1>3, <1>4 DEF OffersKnown, BatchKnown
<1>8. AnswersKnown(r)'
  <2>1. hold[r].pc \in Rejected => hold[r].who # a.driver
    BY <1>0, <1>3 DEF OffersKnown, AnswersKnown
  <2>2. hold[r].pc \in Rejected => responses'[r][hold[r].who] = responses[r][hold[r].who]
    BY <1>0, <1>1, <2>1
  <2>3. StillPending(r, hold[r].snap)' \subseteq StillPending(r, hold[r].snap)
    <3>1. ASSUME NEW d \in hold[r].snap.batchDrivers,
                 responses'[r][d] = Pending(hold[r].snap.batch)
          PROVE  responses[r][d] = Pending(hold[r].snap.batch)
      <4>1. d \in Drivers /\ hold[r] \in HandlerType /\ hold[r].snap \in RideType
        BY <1>0, <3>1 DEF OfferInv, IInv, TypeOK, HandlerType, RideType
      <4> QED
        BY <1>6, <3>1, <4>1 DEF Pending
    <3> QED
      BY <1>1, <3>1 DEF StillPending
  <2> QED
    BY <1>0, <1>1, <1>6, <2>2, <2>3 DEF OffersKnown, AnswersKnown, Earlier, At
<1>9. AcceptsKnown(r)'
  BY <1>0, <1>1, <1>2 DEF OffersKnown, AcceptsKnown, Earlier, UnassignedStatuses, r
<1>10. TokensMatch(r)'
  <2>1. \A d \in Drivers : ~Offered(d, r)'
    BY <1>1, <1>2 DEF Offered
  <2> QED
    BY <1>0, <1>1, <1>2, <1>4, <1>5, <2>1 DEF OffersKnown, TokensMatch, NoToken
<1>11. TokensCovered(r)'
  <2>1. ASSUME NEW d \in Drivers, reservation'[d].ride = r, r \notin torn
        PROVE  Covered(r, d, reservation[d].batch)'
    <3>1. /\ d # a.driver /\ reservation'[d] = reservation[d]
          /\ Covered(r, d, reservation[d].batch)
      BY <1>0, <1>5, <2>1 DEF OffersKnown, TokensCovered, NoToken
    <3>2. CASE d \in ride[r].batchDrivers /\ reservation[d].batch = ride[r].batch
      BY <1>1, <1>2, <1>3, <3>1, <3>2 DEF Covered
    <3>3. CASE ~(d \in ride[r].batchDrivers /\ reservation[d].batch = ride[r].batch)
      BY <1>1, <3>1, <3>3 DEF Covered, GivesBack
    <3> QED
      BY <3>2, <3>3
  <2> QED
    BY <1>1, <2>1 DEF TokensCovered
<1>12. EntriesListed(r)'
  <2>1. ASSUME NEW d \in Drivers, r \in pending'[d], r \notin torn
        PROVE  Listed(r, d)'
    <3>1. d # a.driver /\ Listed(r, d)
      BY <1>0, <1>1, <2>1 DEF OffersKnown, EntriesListed
    <3>2. CASE d \in ride[r].batchDrivers
      BY <1>1, <1>2, <1>3, <3>1, <3>2 DEF Listed
    <3>3. CASE d \notin ride[r].batchDrivers
      BY <1>1, <3>1, <3>3 DEF Listed, At
    <3> QED
      BY <3>2, <3>3
  <2> QED
    BY <1>0, <1>1, <2>1 DEF OffersKnown, EntriesListed
<1>13. OffersKnown(r)'
  BY <1>7, <1>8, <1>9, <1>10, <1>11, <1>12 DEF OffersKnown
<1> QED
  BY <1>13 DEF r

\* What a winner has left to do, one request after another.
LEMMA AcceptRefusedKeeps ==
  ASSUME OfferInv, NEW a \in accepts, AcceptRefused(a)
  PROVE  OffersKnown(a.ride)'
<1> DEFINE r == a.ride
<1> USE DEF rideVars, driverVars
<1>0. OffersKnown(r)
  BY DEF OfferInv, IInv, TypeOK, AcceptType
<1>1. /\ a.pc = "eval" /\ accepts' = accepts \ {a}
      /\ UNCHANGED <<rideVars, driverVars, lapsed, issued, hold, torn>>
  BY DEF AcceptRefused
<1> HIDE DEF r
<1>2. BatchKnown(hold[r], ride[r], issued[r])'
  BY <1>0, <1>1 DEF OffersKnown
<1>3. AnswersKnown(r)'
  BY <1>0, <1>1 DEF OffersKnown, AnswersKnown, Earlier, At, StillPending
<1>4. AcceptsKnown(r)'
  BY <1>0, <1>1 DEF OffersKnown, AcceptsKnown, Earlier
<1>5. TokensMatch(r)'
  BY <1>0, <1>1 DEF OffersKnown, TokensMatch, Offered
<1>6. TokensCovered(r)'
  BY <1>0, <1>1 DEF OffersKnown, TokensCovered, Covered
<1>7. EntriesListed(r)'
  BY <1>0, <1>1 DEF OffersKnown, EntriesListed, Listed, At
<1> QED
  BY <1>2, <1>3, <1>4, <1>5, <1>6, <1>7 DEF OffersKnown, r

LEMMA AcceptReleaseKeeps ==
  ASSUME OfferInv, NEW a \in accepts, AcceptRelease(a)
  PROVE  OffersKnown(a.ride)'
<1> DEFINE r == a.ride
           left == [a EXCEPT !.pc = "clear"]
<1> USE DEF rideVars, Building
<1>0. /\ r \in Rides /\ a \in AcceptType /\ OffersKnown(r) /\ NoRide # r /\ a.ride = r
      /\ issued[r] \in Nat
  BY RideDispatchAssumption DEF OfferInv, IInv, TypeOK, AcceptType
<1>1. /\ a.pc = "release" /\ accepts' = (accepts \ {a}) \union {left}
      /\ reservation' = Released(a.others, Token(r, a.batch))
      /\ UNCHANGED <<rideVars, pending, cooldown, free, lapsed, issued, hold, torn>>
  BY DEF AcceptRelease
<1>2. left.pc = "clear" /\ left.ride = r /\ left.batch = a.batch /\ left.others = a.others
  BY <1>0 DEF AcceptType
<1>3. ride[r].status \notin UnassignedStatuses
  BY <1>0, <1>1 DEF OffersKnown, AcceptsKnown
<1>4. ASSUME NEW d \in Drivers
      PROVE  \/ reservation'[d] = reservation[d]
             \/ reservation'[d] = NoToken /\ reservation[d] = Token(r, a.batch)
  BY <1>1, ReleasedTokens
<1>5. ASSUME NEW d \in Drivers, reservation'[d].ride = r
      PROVE  /\ reservation'[d] = reservation[d]
             /\ ~(d \in a.others /\ reservation[d].batch = a.batch)
  <2>1. /\ reservation'[d] = reservation[d]
        /\ d \in a.others => reservation[d] # Token(r, a.batch)
    BY <1>0, <1>1, <1>5, ReleasedTokens DEF NoToken
  <2> QED
    BY <1>5, <2>1 DEF Token, OfferInv, IInv, TypeOK, TokenType
<1> HIDE DEF r, left
<1>6. BatchKnown(hold[r], ride[r], issued[r])'
  BY <1>0, <1>1 DEF OffersKnown
<1>7. AnswersKnown(r)'
  BY <1>0, <1>1 DEF OffersKnown, AnswersKnown, Earlier, At, StillPending
<1>8. AcceptsKnown(r)'
  BY <1>0, <1>1, <1>2, <1>3 DEF OffersKnown, AcceptsKnown, Earlier
<1>9. TokensMatch(r)'
  <2>1. \A d \in Drivers : ~Offered(d, r)'
    BY <1>1, <1>3 DEF Offered, UnassignedStatuses
  <2>2. ASSUME NEW d \in Drivers, hold[r].pc \in Building, d \in hold[r].chosen, d \notin Droppable
        PROVE  reservation'[d] = reservation[d]
    <3>1. reservation[d] = Token(r, hold[r].batch) /\ hold[r].batch = issued[r]
      BY <1>0, <2>2 DEF OffersKnown, TokensMatch, BatchKnown
    <3>2. a.batch < issued[r] /\ a.batch \in Nat
      BY <1>0, <2>2 DEF OffersKnown, AcceptsKnown, Earlier, AcceptType
    <3>3. reservation[d] # Token(r, a.batch)
      BY <1>0, <3>1, <3>2 DEF Token
    <3> QED
      BY <1>4, <3>3
  <2> QED
    BY <1>0, <1>1, <1>3, <1>5, <2>1, <2>2 DEF OffersKnown, TokensMatch, UnassignedStatuses
<1>10. TokensCovered(r)'
  BY <1>0, <1>1, <1>5 DEF OffersKnown, TokensCovered, Covered
<1>11. EntriesListed(r)'
  BY <1>0, <1>1, <1>2 DEF OffersKnown, EntriesListed, Listed, At
<1>12. OffersKnown(r)'
  BY <1>6, <1>7, <1>8, <1>9, <1>10, <1>11 DEF OffersKnown
<1> QED
  BY <1>12 DEF r

LEMMA AcceptClearKeeps ==
  ASSUME OfferInv, NEW a \in accepts, AcceptClear(a)
  PROVE  OffersKnown(a.ride)'
<1> DEFINE r == a.ride
<1> USE DEF rideVars
<1>0. r \in Rides /\ a.ride = r /\ OffersKnown(r)
  BY DEF OfferInv, IInv, TypeOK, AcceptType
<1>1. /\ a.pc = "clear" /\ accepts' = accepts \ {a}
      /\ \A d \in Drivers : r \in pending'[d] => r \in pending[d] /\ d \notin a.others
      /\ UNCHANGED <<rideVars, reservation, cooldown, free, lapsed, issued, hold, torn>>
  BY DEF AcceptClear, Without
<1> HIDE DEF r
<1>2. BatchKnown(hold[r], ride[r], issued[r])'
  BY <1>0, <1>1 DEF OffersKnown
<1>3. AnswersKnown(r)'
  BY <1>0, <1>1 DEF OffersKnown, AnswersKnown, Earlier, At, StillPending
<1>4. AcceptsKnown(r)'
  BY <1>0, <1>1 DEF OffersKnown, AcceptsKnown, Earlier
<1>5. TokensMatch(r)'
  BY <1>0, <1>1 DEF OffersKnown, TokensMatch, Offered
<1>6. TokensCovered(r)'
  BY <1>0, <1>1 DEF OffersKnown, TokensCovered, Covered
<1>7. EntriesListed(r)'
  BY <1>0, <1>1 DEF OffersKnown, EntriesListed, Listed, At
<1>8. OffersKnown(r)'
  BY <1>2, <1>3, <1>4, <1>5, <1>6, <1>7 DEF OffersKnown
<1> QED
  BY <1>8 DEF r

-----------------------------------------------------------------------------
\* What happens around the handlers.

\* A reservation may go if it is not in use, or if its driver may go offline.
LEMMA TokenGone ==
  ASSUME OfferInv, NEW r \in Rides, NEW d \in Drivers,
         d \in Droppable \/ ~TokenInUse(d),
         reservation' = [reservation EXCEPT ![d] = NoToken],
         UNCHANGED <<rideVars, pending, lapsed, issued, hold, accepts, torn>>
  PROVE  OffersKnown(r)'
<1> USE DEF rideVars, Building
<1>0. OffersKnown(r) /\ NoRide # r
  BY RideDispatchAssumption DEF OfferInv
<1>1. ASSUME NEW e \in Drivers
      PROVE  reservation'[e] = IF e = d THEN NoToken ELSE reservation[e]
  BY DEF OfferInv, IInv, TypeOK
<1>2. BatchKnown(hold[r], ride[r], issued[r])'
  BY <1>0 DEF OffersKnown
<1>3. AnswersKnown(r)'
  BY <1>0 DEF OffersKnown, AnswersKnown, Earlier, At, StillPending
<1>4. AcceptsKnown(r)'
  BY <1>0 DEF OffersKnown, AcceptsKnown, Earlier
<1>5. TokensMatch(r)'
  <2>1. ASSUME ~TokenInUse(d), reservation[d] = Token(r, ride[r].batch)
        PROVE  ~Offered(d, r)
    BY <2>1 DEF TokenInUse, Token, Offered
  <2>2. ASSUME ~TokenInUse(d), reservation[d] = Token(r, hold[r].batch)
        PROVE  hold[r].pc \notin Building
    BY <2>2 DEF TokenInUse, Token
  <2>3. \A e \in Drivers : Offered(e, r)' => Offered(e, r)
    BY DEF Offered
  <2> QED
    BY <1>0, <1>1, <2>1, <2>2, <2>3 DEF OffersKnown, TokensMatch, NoToken
<1>6. TokensCovered(r)'
  BY <1>0, <1>1 DEF OffersKnown, TokensCovered, Covered, NoToken
<1>7. EntriesListed(r)'
  BY <1>0 DEF OffersKnown, EntriesListed, Listed, At
<1> QED
  BY <1>2, <1>3, <1>4, <1>5, <1>6, <1>7 DEF OffersKnown

\* A handler or winner that dies leaves its ride torn.
LEMMA DeathKeeps ==
  ASSUME OfferInv, NEW r \in Rides, r \in torn',
         hold'[r] \in {hold[r], Idle}, accepts' \subseteq accepts,
         UNCHANGED <<rideVars, driverVars, lapsed, issued>>
  PROVE  OffersKnown(r)'
<1> USE DEF rideVars, driverVars, Building, Closing, Rejected, Batchless, CleaningUp
<1>0. OffersKnown(r) /\ Idle.pc = "idle"
  BY DEF OfferInv, Idle
<1>1. BatchKnown(hold[r], ride[r], issued[r])'
  BY <1>0 DEF OffersKnown, BatchKnown
<1>2. AnswersKnown(r)'
  BY <1>0 DEF OffersKnown, AnswersKnown, Earlier, At, StillPending
<1>3. AcceptsKnown(r)'
  BY <1>0 DEF OffersKnown, AcceptsKnown, Earlier
<1>4. TokensMatch(r)'
  BY <1>0 DEF OffersKnown, TokensMatch, Offered
<1>5. TokensCovered(r)'
  BY DEF TokensCovered
<1>6. EntriesListed(r)'
  BY <1>0 DEF OffersKnown, EntriesListed
<1> QED
  BY <1>1, <1>2, <1>3, <1>4, <1>5, <1>6 DEF OffersKnown

-----------------------------------------------------------------------------
\* Every step keeps what is known of the offers.

\* Handlers leave other rides alone: they write their own ride and reservations
\* with their own token.
LEMMA HandlersLeaveOthers ==
  ASSUME IInv, NEW r \in Rides, NEW q \in Rides, q # r, Begin(r) \/ HandlerStep(r)
  PROVE  Untouched(q)
<1> USE DEF rideVars, driverVars, SetRide, SetHold, Goto, IInv, TypeOK
<1>0. /\ lapsed[q] >= lapsed[q] /\ NoRide # q
      /\ \A t : Token(r, t).ride # q
      /\ NoToken.ride # q
  BY RideDispatchAssumption DEF Token, NoToken
<1>1. CASE Begin(r)
  BY <1>0, <1>1
     DEF Untouched, Begin, BeginDispatch, BeginTimeout, BeginReject, BeginTransition
<1>2. CASE StartDispatching(r) \/ ReadResponses(r) \/ CheckCandidate(r) \/ ReadReject(r)
           \/ ExpandSearch(r) \/ GiveUp(r) \/ WriteStatus(r) \/ ApplyCooldown(r)
  BY <1>0, <1>2
     DEF Untouched, StartDispatching, ReadResponses, CheckCandidate, ReadReject, ExpandSearch,
         GiveUp, WriteStatus, ApplyCooldown
<1>3. CASE Search(r)
  BY <1>0, <1>3 DEF Untouched, Search
<1>4. CASE CloseBatch(r)
  BY <1>0, <1>4 DEF Untouched, CloseBatch
<1>5. CASE ReleaseBatch(r) \/ CleanupReservations(r) \/ ReleaseRejected(r)
  <2>1. ASSUME NEW d \in Drivers
        PROVE  \/ reservation'[d] = reservation[d]
               \/ reservation[d].ride # q /\ reservation'[d].ride # q
    BY <1>0, <1>5 DEF ReleaseBatch, CleanupReservations, ReleaseRejected, Released
  <2> QED
    BY <1>0, <1>5, <2>1 DEF Untouched, ReleaseBatch, CleanupReservations, ReleaseRejected
<1>6. CASE ClearBatchPending(r) \/ CleanupPending(r) \/ ReleaseDriver(r)
  <2>1. \A d \in Drivers : q \in pending'[d] => q \in pending[d]
    BY <1>6 DEF ClearBatchPending, CleanupPending, ReleaseDriver, Without
  <2>2. /\ UNCHANGED <<rideVars, reservation, lapsed, issued, accepts, torn>>
        /\ hold'[q] = hold[q]
    BY <1>6 DEF ClearBatchPending, CleanupPending, ReleaseDriver
  <2> QED
    BY <1>0, <2>1, <2>2 DEF Untouched
<1>7. CASE ReserveCandidate(r)
  <2>1. ASSUME NEW d \in Drivers
        PROVE  \/ reservation'[d] = reservation[d]
               \/ reservation[d].ride # q /\ reservation'[d].ride # q
    BY <1>0, <1>7 DEF ReserveCandidate
  <2> QED
    BY <1>0, <1>7, <2>1 DEF Untouched, ReserveCandidate
<1>8. CASE SendBatch(r)
  BY <1>0, <1>8 DEF Untouched, SendBatch
<1>9. CASE WriteReject(r)
  BY <1>0, <1>9 DEF Untouched, WriteReject, Without
<1> QED
  BY <1>1, <1>2, <1>3, <1>4, <1>5, <1>6, <1>7, <1>8, <1>9 DEF HandlerStep

LEMMA AcceptsLeaveOthers ==
  ASSUME IInv, NEW a \in accepts, NEW q \in Rides, q # a.ride, AcceptStep(a)
  PROVE  Untouched(q)
<1> USE DEF rideVars, driverVars, SetRide, IInv, TypeOK
<1>0. /\ lapsed[q] >= lapsed[q] /\ NoRide # q
      /\ a \in AcceptType /\ a.ride \in Rides /\ a.driver \in Drivers
      /\ \A t : Token(a.ride, t).ride # q
      /\ NoToken.ride # q
      /\ \A p : [a EXCEPT !.pc = p].ride = a.ride
  BY RideDispatchAssumption DEF Token, NoToken, AcceptType
<1>1. CASE AcceptWins(a)
  <2>1. ASSUME NEW d \in Drivers
        PROVE  \/ reservation'[d] = reservation[d]
               \/ reservation[d].ride # q /\ reservation'[d].ride # q
    BY <1>0, <1>1 DEF AcceptWins, AcceptGuard
  <2>2. \A b : b.ride = q => (b \in accepts' <=> b \in accepts)
    BY <1>0, <1>1 DEF AcceptWins
  <2>3. UNCHANGED <<notified, lapsed, issued, hold, torn>> /\ ride'[q] = ride[q]
    BY <1>0, <1>1 DEF AcceptWins
  <2>4. responses'[q] = responses[q]
    BY <1>0, <1>1 DEF AcceptWins
  <2>5. \A d \in Drivers : q \in pending'[d] => q \in pending[d]
    BY <1>0, <1>1 DEF AcceptWins, Without
  <2> QED
    BY <1>0, <2>1, <2>2, <2>3, <2>4, <2>5 DEF Untouched
<1>2. CASE AcceptRefused(a)
  BY <1>0, <1>2 DEF Untouched, AcceptRefused
<1>3. CASE AcceptRelease(a)
  <2>1. ASSUME NEW d \in Drivers
        PROVE  \/ reservation'[d] = reservation[d]
               \/ reservation[d].ride # q /\ reservation'[d].ride # q
    BY <1>0, <1>3 DEF AcceptRelease, Released
  <2>2. \A b : b.ride = q => (b \in accepts' <=> b \in accepts)
    BY <1>0, <1>3 DEF AcceptRelease
  <2> QED
    BY <1>0, <1>3, <2>1, <2>2 DEF Untouched, AcceptRelease
<1>4. CASE AcceptClear(a)
  BY <1>0, <1>4 DEF Untouched, AcceptClear, Without
<1> QED
  BY <1>1, <1>2, <1>3, <1>4 DEF AcceptStep

LEMMA EnvironmentKeeps ==
  ASSUME OfferInv, TypeOK', Environment, NEW q \in Rides
  PROVE  OffersKnown(q)'
<1> USE DEF rideVars, driverVars
<1>0. /\ IInv /\ OffersKnown(q)
      /\ lapsed[q] \in Nat
      /\ \A r \in Rides : lapsed[r] \in Nat /\ ride[r].batch \in Nat
  BY DEF OfferInv, IInv, TypeOK, RideType
<1>1. ASSUME NEW r \in Rides, BatchLapses(r)
      PROVE  OffersKnown(q)'
  <2>1. lapsed'[q] >= lapsed[q]
    BY <1>0, <1>1 DEF BatchLapses, IInv, TypeOK
  <2>2. Untouched(q)
    BY <1>1, <2>1 DEF BatchLapses, Untouched
  <2> QED
    BY <1>0, <2>2, UntouchedKept
<1>2. ASSUME NEW r \in Rides, HandlerDies(r)
      PROVE  OffersKnown(q)'
  <2>1. CASE q = r
    BY <1>2, <2>1, DeathKeeps DEF HandlerDies, SetHold, OfferInv, IInv, TypeOK
  <2>2. CASE q # r
    <3>1. Untouched(q)
      BY <1>0, <1>2, <2>2 DEF HandlerDies, SetHold, Untouched, IInv, TypeOK
    <3> QED
      BY <1>0, <3>1, UntouchedKept
  <2> QED
    BY <2>1, <2>2
<1>3. ASSUME NEW d \in Drivers, ReservationLapses(d) \/ DriverLeaves(d)
      PROVE  OffersKnown(q)'
  BY <1>3, TokenGone DEF ReservationLapses, DriverLeaves
<1>4. ASSUME NEW d \in Drivers, CooldownLapses(d) \/ DriverAppears(d)
      PROVE  OffersKnown(q)'
  <2>1. Untouched(q)
    BY <1>0, <1>4 DEF CooldownLapses, DriverAppears, Untouched
  <2> QED
    BY <1>0, <2>1, UntouchedKept
<1>5. ASSUME NEW a \in accepts, AcceptDies(a)
      PROVE  OffersKnown(q)'
  <2>1. CASE q = a.ride
    BY <1>5, <2>1, DeathKeeps DEF AcceptDies
  <2>2. CASE q # a.ride
    <3>1. Untouched(q)
      BY <1>0, <1>5, <2>2 DEF AcceptDies, Untouched
    <3> QED
      BY <1>0, <3>1, UntouchedKept
  <2> QED
    BY <2>1, <2>2
<1> QED
  BY <1>1, <1>2, <1>3, <1>4, <1>5 DEF Environment

LEMMA NextKeeps ==
  ASSUME OfferInv, [Next]_vars
  PROVE  OfferInv'
<1>0. IInv /\ IInv' /\ TypeOK'
  BY NextType, NextConsistent DEF OfferInv, IInv
<1> SUFFICES ASSUME NEW q \in Rides
             PROVE  OffersKnown(q)'
  BY <1>0 DEF OfferInv
<1>1. OffersKnown(q) /\ lapsed[q] \in Nat
  BY DEF OfferInv, IInv, TypeOK
<1>2. CASE Untouched(q)
  BY <1>0, <1>1, <1>2, UntouchedKept
<1>3. CASE UNCHANGED vars
  BY <1>1, <1>2, <1>3 DEF vars, Untouched
<1>4. ASSUME NEW r \in Rides, Begin(r) \/ HandlerStep(r)
      PROVE  OffersKnown(q)'
  BY <1>0, <1>2, <1>4, BeginKeeps, HandlerStepKeeps, HandlersLeaveOthers
<1>5. ASSUME NEW r \in Rides, NEW d \in Drivers, AcceptRead(r, d)
      PROVE  OffersKnown(q)'
  <2>1. q # r => Untouched(q)
    BY <1>1, <1>5 DEF AcceptRead, Untouched, rideVars, driverVars
  <2> QED
    BY <1>2, <1>5, <2>1, AcceptReadKeeps
<1>6. ASSUME NEW a \in accepts, AcceptStep(a)
      PROVE  OffersKnown(q)'
  <2>1. q = a.ride => OffersKnown(q)'
    BY <1>6, AcceptWinsKeeps, AcceptRefusedKeeps, AcceptReleaseKeeps, AcceptClearKeeps DEF AcceptStep
  <2> QED
    BY <1>0, <1>2, <1>6, <2>1, AcceptsLeaveOthers
<1>7. CASE Environment
  BY <1>0, <1>7, EnvironmentKeeps
<1> QED
  BY <1>3, <1>4, <1>5, <1>6, <1>7 DEF Next

LEMMA InitKnown == Init => OfferInv
<1> SUFFICES ASSUME Init
             PROVE  OfferInv
  OBVIOUS
<1>1. IInv
  <2>1. \A r \in Rides : Consistent(hold[r], ride[r])
    BY IdleConsistent DEF Init
  <2> QED
    BY <2>1, InitType DEF IInv, SnapshotsCurrent
<1>2. ASSUME NEW r \in Rides
      PROVE  OffersKnown(r)
  <2>1. /\ hold[r].pc = "idle" /\ ride[r].batch = 0 /\ ride[r].batchDrivers = {}
        /\ ride[r].status = "REQUESTED" /\ issued[r] = 0 /\ accepts = {}
        /\ \A d \in Drivers : /\ responses[r][d].kind = "NONE"
                              /\ reservation[d].ride # r
                              /\ r \notin pending[d]
    BY RideDispatchAssumption DEF Init, Idle, NewRide, NoResponse, NoToken
  <2> USE DEF Building, Closing, Rejected, Batchless, CleaningUp
  <2>2. BatchKnown(hold[r], ride[r], issued[r])
    BY <2>1 DEF BatchKnown
  <2>3. AnswersKnown(r) /\ AcceptsKnown(r) /\ TokensMatch(r)
    BY <2>1 DEF AnswersKnown, At, AcceptsKnown, TokensMatch, Offered
  <2>4. TokensCovered(r) /\ EntriesListed(r)
    BY <2>1 DEF TokensCovered, EntriesListed
  <2> QED
    BY <2>2, <2>3, <2>4 DEF OffersKnown
<1> QED
  BY <1>1, <1>2 DEF OfferInv

LEMMA OffersInvariance == Spec => []OfferInv
  BY InitKnown, NextKeeps, PTL DEF Spec

-----------------------------------------------------------------------------
\* The theorems.

\* An accept that would win read the batch it wins, so the reservations and
\* entries it goes on to clear are those of the batch it closed.
THEOREM WinnersReadTheirBatch == Spec => []AcceptWinsItsBatch
<1>1. OfferInv => AcceptWinsItsBatch
  BY WinnerReadItsBatch DEF AcceptWinsItsBatch
<1> QED
  BY <1>1, OffersInvariance, PTL

\* Whoever is offered a ride and stays online holds a reservation for it, so
\* for no other ride.
THEOREM OffersAreReserved == Spec => []OfferHoldsReservation
<1>1. OfferInv => OfferHoldsReservation
  BY DEF OfferInv, OffersKnown, TokensMatch, OfferHoldsReservation
<1> QED
  BY <1>1, OffersInvariance, PTL

\* Once nobody works on a ride, it reserves only drivers of its open batch.
THEOREM ReservationsAreReturned == Spec => []ReservationsReturned
<1>1. OfferInv => ReservationsReturned
  <2> SUFFICES ASSUME OfferInv, NEW r \in Rides, Settled(r), NEW d \in Drivers,
                      reservation[d].ride = r
               PROVE  /\ reservation[d].batch = ride[r].batch
                      /\ d \in ride[r].batchDrivers
                      /\ ride[r].status \notin TerminalRideStatuses
    BY DEF ReservationsReturned
  <2>1. Covered(r, d, reservation[d].batch)
    BY DEF OfferInv, OffersKnown, TokensCovered, Settled
  <2> QED
    BY <2>1 DEF Covered, Settled, At, GivesBack, Building, Rejected
<1> QED
  BY <1>1, OffersInvariance, PTL

\* And it is on the lists of no others.
THEOREM ListsAreClean == Spec => []PendingListsClean
<1>1. OfferInv => PendingListsClean
  <2> SUFFICES ASSUME OfferInv, NEW r \in Rides, Settled(r), NEW d \in Drivers,
                      r \in pending[d]
               PROVE  /\ d \in ride[r].batchDrivers
                      /\ ride[r].status \notin TerminalRideStatuses
    BY DEF PendingListsClean
  <2>1. Listed(r, d)
    BY DEF OfferInv, OffersKnown, EntriesListed, Settled
  <2> QED
    BY <2>1 DEF Listed, Settled, At
<1> QED
  BY <1>1, OffersInvariance, PTL

-----------------------------------------------------------------------------
\* How rides get hold of drivers.

OffersStep == [Offers!Next]_(Offers!vars)

\* A ride becomes over, or keeps its phase and its driver, as long as nobody
\* is assigned to it.
LEMMA RideEnds ==
  ASSUME IInv, UNCHANGED reservation,
         NEW r \in Rides, NEW new \in RideType,
         ride' = [ride EXCEPT ![r] = new],
         RideMove(ride[r], new),
         new.driver = ride[r].driver
  PROVE  OffersStep
<1> DEFINE trips == [q \in Rides |-> [phase |-> Phase(ride[q].status),
                                      driver |-> ride[q].driver]]
           kept == [d \in Drivers |-> reservation[d].ride]
<1>0. /\ ride[r] \in RideType
      /\ ride'[r] = new
      /\ \A q \in Rides \ {r} : ride'[q] = ride[q]
      /\ kept' = kept
  BY DEF IInv, TypeOK
<1>1. \/ Phase(new.status) = Phase(ride[r].status)
      \/ Phase(new.status) = "over" /\ Phase(ride[r].status) # "over"
  <2>1. ride[r].status \in RideStatuses /\ new.status \in RideStatuses
    BY <1>0 DEF RideType
  <2>2. CASE new.status = ride[r].status
    BY <2>2
  <2>3. CASE /\ ride[r].status = "DISPATCHING"
             /\ ride[r].driver = NoDriver
             /\ new.status = "ACCEPTED"
             /\ new.driver \in Drivers
    BY <2>3, NoDriverAssumption
  <2>4. CASE /\ <<ride[r].status, new.status>> \in RideTransitions
             /\ new.status # "ACCEPTED"
             /\ new.status = "DISPATCHING" => ride[r].status = "REQUESTED"
    BY <2>1, <2>4 DEF RideTransitions, Phase, TerminalRideStatuses, AssignedStatuses
  <2> QED
    BY <2>2, <2>3, <2>4 DEF RideMove
<1>2. /\ trips' = [q \in Rides |-> [phase |-> Phase(ride'[q].status),
                                    driver |-> ride'[q].driver]]
      /\ trips[r] = [phase |-> Phase(ride[r].status), driver |-> ride[r].driver]
  BY DEF Phase
<1>3. CASE Phase(new.status) = Phase(ride[r].status)
  <2>1. \A q \in Rides : /\ Phase(ride'[q].status) = Phase(ride[q].status)
                         /\ ride'[q].driver = ride[q].driver
    BY <1>0, <1>3
  <2>2. trips' = trips
    BY <1>2, <2>1
  <2> QED
    BY <1>0, <2>2 DEF OffersStep, Offers!vars
<1>4. CASE Phase(new.status) = "over" /\ Phase(ride[r].status) # "over"
  <2>1. \A q \in Rides :
          [phase |-> Phase(ride'[q].status), driver |-> ride'[q].driver] =
             IF q = r THEN [phase |-> "over", driver |-> ride[r].driver]
             ELSE [phase |-> Phase(ride[q].status), driver |-> ride[q].driver]
    BY <1>0, <1>4
  <2>2. trips' = [trips EXCEPT ![r].phase = "over"]
    BY <1>2, <2>1
  <2>3. Offers!End(r)
    BY <1>0, <1>2, <1>4, <2>2 DEF Offers!End
  <2> QED
    BY <2>3 DEF OffersStep, Offers!Next
<1> QED
  BY <1>1, <1>3, <1>4

\* Reservations go, whatever becomes of them.
LEMMA ReservationsGo ==
  ASSUME IInv, UNCHANGED ride,
         \A d \in Drivers : reservation'[d] \in {reservation[d], NoToken}
  PROVE  OffersStep
<1> DEFINE kept == [d \in Drivers |-> reservation[d].ride]
           trips == [q \in Rides |-> [phase |-> Phase(ride[q].status),
                                      driver |-> ride[q].driver]]
<1>1. PICK ds \in SUBSET Drivers :
        \A d \in Drivers :
          reservation'[d].ride = IF d \in ds THEN NoRide ELSE reservation[d].ride
  <2> WITNESS {d \in Drivers : reservation'[d] = NoToken} \in SUBSET Drivers
  <2> QED
    BY DEF NoToken
<1>2. kept' = [d \in Drivers |-> IF d \in ds THEN NoRide ELSE kept[d]]
  BY <1>1
<1>3. Offers!Withdraw(ds)
  <2>1. trips' = trips
    BY DEF Phase
  <2> QED
    BY <1>2, <2>1 DEF Offers!Withdraw
<1>4. ds \in SUBSET Drivers
  BY <1>1
<1> QED
  BY <1>3, <1>4 DEF OffersStep, Offers!Next

\* No handler assigns a driver.
LEMMA HandlersAssignNobody ==
  ASSUME IInv, NEW r \in Rides, HandlerStep(r), NEW q \in Rides
  PROVE  ride'[q].driver = ride[q].driver
<1> USE DEF rideVars, SetRide
<1>0. ride \in [Rides -> RideType]
  BY DEF IInv, TypeOK
<1>1. CASE StartDispatching(r)
  BY <1>0, <1>1 DEF StartDispatching, RideType
<1>2. CASE CloseBatch(r)
  BY <1>0, <1>2 DEF CloseBatch, Cleared, RideType
<1>3. CASE SendBatch(r)
  BY <1>0, <1>3 DEF SendBatch, RideType
<1>4. CASE ExpandSearch(r)
  BY <1>0, <1>4 DEF ExpandSearch, Cleared, RideType
<1>5. CASE GiveUp(r)
  BY <1>0, <1>5 DEF GiveUp, Cleared, RideType
<1>6. CASE WriteReject(r)
  BY <1>0, <1>6 DEF WriteReject, RideType
<1>7. CASE WriteStatus(r)
  BY <1>0, <1>7 DEF WriteStatus, Transitioned, RideType
<1>8. CASE UNCHANGED ride
  BY <1>8
<1> QED
  BY <1>1, <1>2, <1>3, <1>4, <1>5, <1>6, <1>7, <1>8
     DEF HandlerStep, ReadResponses, ReleaseBatch, ClearBatchPending, Search, CheckCandidate,
         ReserveCandidate, CleanupPending, CleanupReservations, ReleaseDriver, ReadReject,
         ApplyCooldown, ReleaseRejected

\* The search reserves a free driver, for a ride that is not over.
LEMMA SearchReserves ==
  ASSUME IInv, NEW r \in Rides, ReserveCandidate(r)
  PROVE  OffersStep
<1> DEFINE kept == [c \in Drivers |-> reservation[c].ride]
           trips == [q \in Rides |-> [phase |-> Phase(ride[q].status),
                                      driver |-> ride[q].driver]]
<1>0. /\ reservation \in [Drivers -> TokenType]
      /\ ride[r] \in RideType
      /\ Consistent(hold[r], ride[r])
      /\ hold[r].pc = "reserve"
      /\ UNCHANGED ride
  BY DEF IInv, TypeOK, SnapshotsCurrent, ReserveCandidate, At, rideVars
<1>1. hold[r].who \in Drivers /\ ride[r].status \in {"DISPATCHING", "ACCEPTED"}
  BY <1>0 DEF Consistent, MayWrite, SeesRide
<1>d. PICK d \in Drivers : d = hold[r].who
  BY <1>1
<1>2. CASE reservation[d] # NoToken
  <2>1. UNCHANGED reservation
    BY <1>d, <1>2 DEF ReserveCandidate
  <2> QED
    BY <1>0, <2>1, ReservationsGo
<1>3. CASE reservation[d] = NoToken
  <2>1. reservation' = [reservation EXCEPT ![d] = Token(r, hold[r].batch)]
    BY <1>d, <1>3 DEF ReserveCandidate
  <2>2. /\ trips[r].phase # "over"
        /\ trips' = trips
    BY <1>0, <1>1 DEF Phase, TerminalRideStatuses
  <2>3. kept[d] = NoRide
    BY <1>3 DEF NoToken
  <2>4. \A c \in Drivers : reservation'[c].ride = IF c = d THEN r ELSE reservation[c].ride
    BY <1>0, <2>1 DEF Token
  <2>5. kept' = [kept EXCEPT ![d] = r]
    BY <2>4
  <2>6. Offers!Reserve(r, d)
    BY <2>2, <2>3, <2>5 DEF Offers!Reserve
  <2> QED
    BY <2>6 DEF OffersStep, Offers!Next
<1> QED
  BY <1>2, <1>3

\* The accept script assigns the ride to a driver it still has reserved.
LEMMA AcceptAssigns ==
  ASSUME IInv, NEW a \in accepts, AcceptWins(a)
  PROVE  OffersStep
<1> DEFINE r == a.ride
           d == a.driver
           kept == [c \in Drivers |-> reservation[c].ride]
           trips == [q \in Rides |-> [phase |-> Phase(ride[q].status),
                                      driver |-> ride[q].driver]]
<1>0. /\ r \in Rides
      /\ d \in Drivers
      /\ ride \in [Rides -> RideType]
      /\ reservation \in [Drivers -> TokenType]
  BY DEF IInv, TypeOK, AcceptType
<1>1. /\ ride[r].status = "DISPATCHING"
      /\ reservation[d] = Token(r, a.batch)
      /\ reservation' = [reservation EXCEPT ![d] = NoToken]
  BY DEF AcceptWins, AcceptGuard
<1>2. \A q \in Rides :
        /\ q # r => ride'[q] = ride[q]
        /\ q = r => ride'[q].status = "ACCEPTED" /\ ride'[q].driver = d
  BY <1>0 DEF AcceptWins, SetRide, Cleared, RideType
<1>3. trips[r].phase = "open" /\ kept[d] = r
  BY <1>0, <1>1 DEF Phase, TerminalRideStatuses, AssignedStatuses, Token
<1>4. trips' = [trips EXCEPT ![r] = [phase |-> "assigned", driver |-> d]]
  <2>1. \A q \in Rides :
          [phase |-> Phase(ride'[q].status), driver |-> ride'[q].driver] =
             IF q = r THEN [phase |-> "assigned", driver |-> d]
             ELSE [phase |-> Phase(ride[q].status), driver |-> ride[q].driver]
    BY <1>2 DEF Phase, TerminalRideStatuses, AssignedStatuses
  <2>2. trips' = [q \in Rides |-> [phase |-> Phase(ride'[q].status),
                                   driver |-> ride'[q].driver]]
    BY DEF Phase
  <2> QED
    BY <2>1, <2>2
<1>5. kept' = [kept EXCEPT ![d] = NoRide]
  <2>1. \A c \in Drivers : reservation'[c].ride = IF c = d THEN NoRide ELSE reservation[c].ride
    BY <1>0, <1>1 DEF NoToken
  <2> QED
    BY <2>1
<1>6. Offers!Assign(r, d)
  BY <1>3, <1>4, <1>5 DEF Offers!Assign
<1> QED
  BY <1>0, <1>6 DEF OffersStep, Offers!Next

\* RideDispatch implements DriverOffers, the part of it DriverState relies on:
\* nobody reserves a reserved driver, or for a ride that is over, and a ride
\* is assigned only to a driver it has reserved.
THEOREM DispatchKeepsOffers == Spec => OffersAsAgreed
<1>1. Init => Offers!Init
  BY DEF Init, Offers!Init, NewRide, NoToken, Phase, TerminalRideStatuses, AssignedStatuses
<1>2. IInv /\ [Next]_vars => [Offers!Next]_(Offers!vars)
  <2> SUFFICES ASSUME IInv, [Next]_vars
               PROVE  OffersStep
    BY DEF OffersStep
  <2>0. reservation \in [Drivers -> TokenType] /\ ride \in [Rides -> RideType]
    BY DEF IInv, TypeOK
  <2>1. ASSUME UNCHANGED <<ride, reservation>>
        PROVE  OffersStep
    BY <2>1, ReservationsGo
  <2>2. ASSUME NEW ds, NEW t, UNCHANGED ride, reservation' = Released(ds, t)
        PROVE  OffersStep
    BY <2>2, ReservationsGo DEF Released
  <2>3. ASSUME NEW d \in Drivers, UNCHANGED ride,
               reservation' = [reservation EXCEPT ![d] = NoToken]
        PROVE  OffersStep
    BY <2>0, <2>3, ReservationsGo
  <2>4. CASE UNCHANGED vars
    BY <2>1, <2>4 DEF vars
  <2>5. ASSUME NEW r \in Rides, Begin(r)
        PROVE  OffersStep
    BY <2>1, <2>5 DEF Begin, BeginDispatch, BeginTimeout, BeginReject, BeginTransition,
                      rideVars, driverVars
  <2>6. ASSUME NEW r \in Rides, HandlerStep(r), UNCHANGED reservation
        PROVE  OffersStep
    <3>1. \A q \in Rides : ride'[q].driver = ride[q].driver
      BY <2>6, HandlersAssignNobody
    <3>2. CASE UNCHANGED ride
      BY <2>1, <2>6, <3>2
    <3>3. ASSUME NEW new \in RideType, ride' = [ride EXCEPT ![r] = new],
                 RideMove(ride[r], new)
          PROVE  OffersStep
      <4>1. new.driver = ride[r].driver
        BY <2>0, <3>1, <3>3
      <4> QED
        BY <2>6, <3>3, <4>1, RideEnds
    <3> QED
      BY <2>6, <3>2, <3>3, HandlerMovesRide
  <2>7. ASSUME NEW r \in Rides, ReleaseBatch(r) \/ CleanupReservations(r) \/ ReleaseRejected(r)
        PROVE  OffersStep
    BY <2>1, <2>2, <2>7 DEF ReleaseBatch, CleanupReservations, ReleaseRejected, rideVars
  <2>8. ASSUME NEW r \in Rides, HandlerStep(r)
        PROVE  OffersStep
    BY <2>6, <2>7, <2>8, SearchReserves
       DEF HandlerStep, StartDispatching, ReadResponses, CloseBatch, ClearBatchPending, Search,
           CheckCandidate, SendBatch, ExpandSearch, GiveUp, CleanupPending, ReleaseDriver,
           ReadReject, WriteReject, ApplyCooldown, WriteStatus, driverVars
  <2>9. ASSUME NEW r \in Rides, NEW d \in Drivers, AcceptRead(r, d)
        PROVE  OffersStep
    BY <2>1, <2>9 DEF AcceptRead, rideVars, driverVars
  <2>10. ASSUME NEW a \in accepts, AcceptStep(a)
         PROVE  OffersStep
    BY <2>1, <2>2, <2>10, AcceptAssigns
       DEF AcceptStep, AcceptRefused, AcceptRelease, AcceptClear, rideVars, driverVars
  <2>11. ASSUME Environment
         PROVE  OffersStep
    BY <2>1, <2>3, <2>11
       DEF Environment, BatchLapses, HandlerDies, ReservationLapses, CooldownLapses,
           DriverAppears, DriverLeaves, AcceptDies, rideVars, driverVars
  <2> QED
    BY <2>4, <2>5, <2>8, <2>9, <2>10, <2>11 DEF Next
<1> QED
  BY <1>1, <1>2, Invariance, PTL DEF Spec, OffersAsAgreed, Offers!Spec
=============================================================================
