-------------------------- MODULE RideCopiesProofs --------------------------
(***************************************************************************)
(* Proofs about RideCopies, for any numbers of jobs, rebuilding processes, *)
(* writes and mishaps: its types, that Mongo and the customer catch up     *)
(* with the ride, and that a ride that ended does not come back.           *)
(***************************************************************************)
EXTENDS RideCopies, TLAPS

ActorType == [pc : {"idle", "write", "reread", "sync", "mark", "publish"},
              op : Statuses \union {"BATCH"}, snap : SomeRide]
JobType == [job : 0..MaxWrites, copy : SomeRide]
RebuilderType == [pc : {"idle", "check", "write"}, copy : SomeRide]

-----------------------------------------------------------------------------
\* The inductive invariant.

\* What handlers and workers have read of the ride, and the ride.
Seen == ({ride} \union {actor[a].snap : a \in Actors}
                \union {j.copy : j \in running}) \ {NoRide}

\* Every copy there is.
Known == (Seen \union {mongo} \union {rebuilder[b].copy : b \in Rebuilders})
            \ {NoRide}

\* No copy is newer than the last write; a handler about to write has room for
\* it and a reason; a rebuild under way has found a ride that is not over.
Sane ==
    /\ writes >= 1
    /\ \A x \in Known : x.version <= writes /\ x.at <= writes
    /\ \A a \in Actors : actor[a].pc = "idle" => actor[a] = Idle
    /\ \A a \in Actors : actor[a].pc \in {"write", "sync", "mark", "publish"}
                            => actor[a].snap # NoRide
    /\ \A a \in Actors : actor[a].pc = "write" =>
            a = "holder" /\ writes < MaxWrites
            /\ actor[a].op \in Operations(actor[a].snap.status)
    /\ \A b \in Rebuilders : rebuilder[b].pc # "idle" =>
            rebuilder[b].copy # NoRide /\ ~Ended(rebuilder[b].copy.status)

\* The copies of a ride are told apart by their versions as by their writes,
\* and the hash is the newest of them.
Ordered ==
    /\ ride.at = writes
    /\ \A x \in Seen : /\ x.status # "NONE"
                       /\ x.version <= ride.version /\ x.at <= ride.at
    /\ \A x, y \in Seen : x.version = y.version \/ x.at = y.at => x = y
    /\ \A v \in queued \union finished \union marks : v <= ride.version

MongoKnown ==
    mongo # NoRide => /\ mongo.status # "NONE"
                      /\ mongo.at = ride.at => mongo.status = ride.status

\* A job has read a ride no older than the one it is named after.
JobsReadLater ==
    \A j \in running : j.copy # NoRide /\ 1 <= j.job /\ j.job <= j.copy.version

\* Mongo has the ride, or a job or a handler will see to it.
Coming ==
    \/ SameRide(mongo)
    \/ queued # {}
    \/ \E j \in running : SameRide(j.copy)
    \/ \E a \in Actors : \/ actor[a].pc \in {"write", "reread"}
                         \/ actor[a].pc = "sync" /\ SameRide(actor[a].snap)

FinishedSaved == ride.version \in finished => SameRide(mongo)

\* s is about to be published.
Publishing(s) ==
    \E a \in Actors : actor[a].pc = "publish" /\ actor[a].snap.status = s

\* The customer knows the status of the ride, or a handler will tell.
Telling ==
    \/ ride.status \in told \/ Publishing(ride.status)
    \/ \E a \in Actors :
          /\ actor[a].op # "BATCH"
          /\ \/ actor[a].pc = "reread"
             \/ /\ actor[a].pc \in {"sync", "mark"}
                /\ actor[a].snap.status = ride.status

\* A version whose key is set has been announced, or is about to be.
MarksTold ==
    \A x \in {ride} \union
             {actor[a].snap : a \in {b \in Actors : actor[b].pc \in {"sync", "mark"}}} :
        x.version \in marks => x.status \in told \/ Publishing(x.status)

Alive ==
    /\ Ordered /\ MongoKnown /\ JobsReadLater /\ Coming /\ FinishedSaved
    /\ Telling /\ MarksTold
    /\ ended => Ended(ride.status)

\* Without a hash nothing is under way, and Mongo has the last write.
Gone ==
    /\ Quiet /\ queued = {}
    /\ mongo # NoRide /\ mongo.status # "NONE"
    /\ mongo.at = writes
    /\ mongo.status \in told
    /\ ended => Ended(mongo.status)

CopiesInv ==
    /\ TypeOK /\ Sane
    /\ ~spoilt => (ride # NoRide => Alive) /\ (ride = NoRide => Gone)

-----------------------------------------------------------------------------
\* Facts the steps share.

LEMMA Vocabulary ==
  /\ RideStatuses \subseteq Statuses
  /\ \A s, op : op \in Operations(s) =>
        /\ op \in RideStatuses \union {"BATCH"}
        /\ ~Ended(s) /\ s \in RideStatuses
        /\ op = "BATCH" => s \in {"DISPATCHING", "ACCEPTED"}
  /\ "BATCH" \notin Statuses /\ "NONE" \notin RideStatuses
  /\ ~Ended("NONE") /\ ~Ended("BATCH") /\ ~Ended("DISPATCHING")
  /\ ~Ended("ACCEPTED") /\ "ACCEPTED" \in RideStatuses
BY DEF Statuses, RideStatuses, Operations, RideTransitions, Ended,
       TerminalRideStatuses

LEMMA OneRide ==
  ASSUME NEW x \in SomeRide, x # NoRide
  PROVE  /\ x \in RideType /\ x.status \in Statuses
         /\ x.version \in Nat /\ x.version >= 1 /\ x.version <= MaxWrites
         /\ x.at \in Nat /\ x.at >= 1 /\ x.at <= MaxWrites
BY BoundsAssumption DEF SomeRide, RideType, Versions

LEMMA RidesAreSome ==
  /\ RideType \subseteq SomeRide /\ NoRide \in SomeRide /\ NoRide \notin RideType
BY NoRideAssumption DEF SomeRide

\* One record of a function of records replaced by another.
LEMMA OneReplaced ==
  ASSUME NEW D, NEW S, NEW f \in [D -> S], NEW a \in D, NEW n \in S, NEW g,
         g = [f EXCEPT ![a] = n]
  PROVE  /\ g \in [D -> S] /\ g[a] = n
         /\ \A b \in D : b # a => g[b] = f[b]
OBVIOUS

LEMMA TypeFacts ==
  ASSUME TypeOK
  PROVE  /\ actor \in [Actors -> ActorType]
         /\ running \subseteq JobType
         /\ rebuilder \in [Rebuilders -> RebuilderType]
         /\ "holder" \in Actors /\ "accept" \in Actors
         /\ \A a \in Actors : /\ actor[a] \in ActorType
                              /\ actor[a].snap \in SomeRide
         /\ \A j \in running : j.job \in 0..MaxWrites /\ j.copy \in SomeRide
         /\ \A b \in Rebuilders : /\ rebuilder[b] \in RebuilderType
                                  /\ rebuilder[b].copy \in SomeRide
BY DEF TypeOK, ActorType, JobType, RebuilderType, Actors

\* The record a handler's step leaves.
LEMMA ActorStep ==
  ASSUME TypeOK, NEW a \in Actors, NEW n \in ActorType,
         actor' = [actor EXCEPT ![a] = n]
  PROVE  /\ actor' \in [Actors -> ActorType] /\ actor'[a] = n
         /\ \A b \in Actors : b # a => actor'[b] = actor[b]
BY TypeFacts, OneReplaced

LEMMA ActorRecords ==
  ASSUME NEW p \in {"idle", "write", "reread", "sync", "mark", "publish"},
         NEW op \in Statuses \union {"BATCH"}, NEW s \in SomeRide
  PROVE  [pc |-> p, op |-> op, snap |-> s] \in ActorType
BY DEF ActorType

LEMMA IdleActor == Idle \in ActorType /\ Idle.pc = "idle" /\ Idle.snap = NoRide
                   /\ Idle.op = "NONE"
BY RidesAreSome DEF Idle, ActorType, Statuses

-----------------------------------------------------------------------------
\* Types, and that no copy is ahead of the writes.

LEMMA FirstState == Init => CopiesInv
<1> SUFFICES ASSUME Init PROVE CopiesInv
  OBVIOUS
<1>1. /\ ride = [status |-> "REQUESTED", version |-> 1, at |-> 1]
      /\ ride.status = "REQUESTED" /\ ride.version = 1 /\ ride.at = 1
      /\ ride \in RideType /\ ride # NoRide /\ 1 \in Versions
  BY NoRideAssumption, BoundsAssumption
     DEF Init, RideType, Versions, Statuses, RideStatuses
<1>2. /\ \A a \in Actors : actor[a] = Idle
      /\ actor \in [Actors -> ActorType]
  BY IdleActor DEF Init
<1>3. /\ \A b \in Rebuilders : rebuilder[b].pc = "idle" /\ rebuilder[b].copy = NoRide
      /\ rebuilder \in [Rebuilders -> RebuilderType]
  BY RidesAreSome DEF Init, Resting, RebuilderType
<1>4. /\ writes = 1 /\ mongo = NoRide /\ running = {} /\ queued = {1}
      /\ finished = {} /\ marks = {} /\ told = {"REQUESTED"} /\ ended = FALSE
      /\ spoilt = FALSE /\ mishaps = 0
  BY DEF Init
<1>5. TypeOK
  <2>1. /\ ride \in SomeRide /\ mongo \in SomeRide
        /\ writes \in 0..MaxWrites /\ mishaps \in 0..Mishaps
    BY <1>1, <1>4, RidesAreSome, BoundsAssumption
  <2>2. /\ queued \subseteq Versions /\ finished \subseteq Versions
        /\ running \subseteq JobType /\ marks \subseteq Versions
        /\ told \subseteq Statuses
    BY <1>1, <1>4 DEF Statuses, RideStatuses
  <2>3. spoilt \in BOOLEAN /\ ended \in BOOLEAN
    BY <1>4, Zenon
  <2> QED
    BY <1>2, <1>3, <2>1, <2>2, <2>3, Zenon DEF TypeOK, ActorType, RebuilderType, JobType
<1>6. Seen = {ride} /\ Known = {ride}
  BY <1>1, <1>2, <1>3, <1>4, IdleActor DEF Seen, Known
<1>7. Sane
  BY <1>1, <1>2, <1>3, <1>4, <1>6, IdleActor DEF Sane
<1>8. Ordered
  BY <1>1, <1>4, <1>6 DEF Ordered
<1>9. Telling /\ MarksTold
  BY <1>1, <1>2, <1>4, IdleActor DEF Telling, MarksTold
<1> QED
  BY <1>1, <1>4, <1>5, <1>7, <1>8, <1>9
     DEF CopiesInv, Alive, MongoKnown, JobsReadLater, Coming, FinishedSaved

LEMMA KnownFacts ==
  ASSUME TypeOK, Sane
  PROVE  /\ \A x \in SomeRide : x \in Known =>
                x.version <= writes /\ x.at <= writes
         /\ ride # NoRide => ride \in Seen
         /\ \A a \in Actors : actor[a].snap # NoRide => actor[a].snap \in Seen
         /\ \A j \in running : j.copy # NoRide => j.copy \in Seen
         /\ Seen \subseteq Known
         /\ mongo # NoRide => mongo \in Known
         /\ \A b \in Rebuilders :
                rebuilder[b].copy # NoRide => rebuilder[b].copy \in Known
         /\ \A x \in Known : x \in RideType /\ x # NoRide
         /\ writes \in Nat /\ writes >= 1 /\ writes <= MaxWrites
<1>1. \A x \in Known : x \in RideType /\ x # NoRide
  BY TypeFacts DEF Known, Seen, TypeOK, SomeRide
<1>2. writes \in Nat /\ writes >= 1 /\ writes <= MaxWrites
  BY BoundsAssumption DEF TypeOK, Sane
<1> QED
  BY <1>1, <1>2 DEF Known, Seen, Sane

\* Sane, of the parts a step leaves.
LEMMA SaneStep ==
  ASSUME TypeOK, Sane,
         writes' \in Nat, writes' >= writes,
         NEW new \in SomeRide,
         new # NoRide => new.version <= writes' /\ new.at <= writes',
         Known' \subseteq Known \union {new},
         \A a \in Actors : actor'[a] = actor[a] \/
            /\ actor'[a].pc = "idle" => actor'[a] = Idle
            /\ actor'[a].pc \in {"write", "sync", "mark", "publish"}
                    => actor'[a].snap # NoRide
            /\ actor'[a].pc = "write" =>
                    a = "holder" /\ writes < MaxWrites
                    /\ actor'[a].op \in Operations(actor'[a].snap.status),
         actor'["holder"].pc = "write" => writes' = writes,
         \A b \in Rebuilders : rebuilder'[b] = rebuilder[b] \/
            (rebuilder'[b].pc # "idle" =>
                rebuilder'[b].copy # NoRide /\ ~Ended(rebuilder'[b].copy.status))
  PROVE  Sane'
<1>1. writes \in Nat /\ writes >= 1
  BY KnownFacts
<1>2. writes' >= 1
  BY <1>1
<1>3. \A x \in Known' : x.version <= writes' /\ x.at <= writes'
  <2> SUFFICES ASSUME NEW x \in Known' PROVE x.version <= writes' /\ x.at <= writes'
    OBVIOUS
  <2>1. x # NoRide
    BY DEF Known
  <2>2. CASE x = new
    BY <2>1, <2>2
  <2>3. CASE x \in Known
    <3>1. /\ x \in RideType /\ x.version <= writes /\ x.at <= writes
          /\ x.version \in Nat /\ x.at \in Nat
      BY <2>3, KnownFacts, RidesAreSome, OneRide
    <3> QED
      BY <3>1, <1>1
  <2> QED
    BY <2>2, <2>3
<1>4. \A a \in Actors : actor'[a].pc = "idle" => actor'[a] = Idle
  BY DEF Sane
<1>5. \A a \in Actors : actor'[a].pc \in {"write", "sync", "mark", "publish"}
                            => actor'[a].snap # NoRide
  BY DEF Sane
<1>6. \A a \in Actors : actor'[a].pc = "write" =>
            a = "holder" /\ writes' < MaxWrites
            /\ actor'[a].op \in Operations(actor'[a].snap.status)
  BY TypeFacts DEF Sane
<1>7. \A b \in Rebuilders : rebuilder'[b].pc # "idle" =>
            rebuilder'[b].copy # NoRide /\ ~Ended(rebuilder'[b].copy.status)
  BY DEF Sane
<1> QED
  BY <1>2, <1>3, <1>4, <1>5, <1>6, <1>7 DEF Sane

-----------------------------------------------------------------------------
\* Order, of the parts a step leaves.

\* Something under way: the ride has its hash.
LEMMA UnderWay ==
  ASSUME CopiesInv, ~spoilt,
         \/ \E a \in Actors : actor[a].pc # "idle"
         \/ running # {} \/ queued # {}
  PROVE  ride # NoRide /\ Alive
BY DEF CopiesInv, Gone, Quiet

LEMMA SeenFacts ==
  ASSUME TypeOK, Sane, ride # NoRide, Ordered
  PROVE  /\ ride \in Seen
         /\ \A x \in Seen : /\ x \in RideType /\ x # NoRide
                            /\ x.version \in Nat /\ x.at \in Nat
                            /\ x.status \in Statuses /\ x.status # "NONE"
                            /\ x.version <= ride.version /\ x.at <= ride.at
                            /\ x.version <= writes
         /\ \A x, y \in Seen : x.version = y.version \/ x.at = y.at => x = y
         /\ ride.at = writes
<1>1. \A x \in Seen : x \in RideType /\ x # NoRide /\ x \in SomeRide /\ x \in Known
  BY KnownFacts, RidesAreSome
<1>2. \A x \in Seen : /\ x.version \in Nat /\ x.at \in Nat
                      /\ x.status \in Statuses /\ x.version <= writes
  BY <1>1, OneRide, KnownFacts
<1> QED
  BY <1>1, <1>2, KnownFacts DEF Ordered

\* The ride stays; what is read is what was read.
LEMMA OrderedKept ==
  ASSUME TypeOK, Sane, ride # NoRide, Ordered,
         ride' = ride, writes' = writes, Seen' \subseteq Seen,
         \A v \in queued' \union finished' \union marks' :
            \/ v \in queued \union finished \union marks
            \/ v \in Nat /\ \E x \in Seen : v <= x.version
  PROVE  Ordered'
<1>1. \A x \in Seen' : x.status # "NONE" /\ x.version <= ride.version /\ x.at <= ride.at
  BY DEF Ordered
<1>2. \A x, y \in Seen' : x.version = y.version \/ x.at = y.at => x = y
  BY DEF Ordered
<1>3. \A v \in queued' \union finished' \union marks' : v <= ride.version
  <2> SUFFICES ASSUME NEW v \in queued' \union finished' \union marks'
               PROVE  v <= ride.version
    OBVIOUS
  <2>1. CASE v \in queued \union finished \union marks
    BY <2>1 DEF Ordered
  <2>2. CASE v \in Nat /\ \E x \in Seen : v <= x.version
    <3>1. PICK x \in Seen : v <= x.version
      BY <2>2
    <3>2. x.version \in Nat /\ x.version <= ride.version /\ ride.version \in Nat
      BY SeenFacts
    <3> QED
      BY <2>2, <3>1, <3>2
  <2> QED
    BY <2>1, <2>2
<1> QED
  BY <1>1, <1>2, <1>3 DEF Ordered

\* A write makes a newer ride.
LEMMA OrderedNew ==
  ASSUME TypeOK, Sane, ride # NoRide, Ordered,
         ride' \in RideType, ride'.status # "NONE",
         ride'.version = ride.version + 1,
         ride'.at = writes + 1, writes' = writes + 1,
         Seen' \subseteq Seen \union {ride'},
         queued' = queued, finished' = finished, marks' = marks
  PROVE  Ordered'
<1>1. /\ ride.version \in Nat /\ ride.at = writes /\ writes \in Nat
      /\ \A x \in Seen : /\ x.version \in Nat /\ x.at \in Nat
                         /\ x.version <= ride.version /\ x.at <= writes
                         /\ x.status # "NONE"
  BY SeenFacts, KnownFacts
<1>2. /\ \A x \in Seen : x.version < ride'.version /\ x.at < ride'.at
      /\ ride'.version \in Nat /\ ride'.at \in Nat
  BY <1>1
<1>3. \A x \in Seen' : x.status # "NONE" /\ x.version <= ride'.version /\ x.at <= ride'.at
  BY <1>1, <1>2
<1>4. ASSUME NEW x \in Seen', NEW y \in Seen', x.version = y.version \/ x.at = y.at
      PROVE  x = y
  <2>1. CASE x \in Seen /\ y \in Seen
    BY <1>4, <2>1, SeenFacts
  <2>2. CASE x = ride' /\ y \in Seen
    BY <1>1, <1>2, <1>4, <2>2
  <2>3. CASE x \in Seen /\ y = ride'
    BY <1>1, <1>2, <1>4, <2>3
  <2> QED
    BY <2>1, <2>2, <2>3
<1>5. \A v \in queued' \union finished' \union marks' : v <= ride'.version
  <2> SUFFICES ASSUME NEW v \in queued \union finished \union marks
               PROVE  v <= ride'.version
    OBVIOUS
  <2>1. v \in Nat /\ v <= ride.version
    BY BoundsAssumption DEF TypeOK, Versions, Ordered
  <2> QED
    BY <1>1, <2>1
<1> QED
  BY <1>3, <1>4, <1>5 DEF Ordered

-----------------------------------------------------------------------------
\* Writing the ride.

LEMMA ReadStep ==
  ASSUME CopiesInv, NEW op \in RideStatuses \union {"BATCH"}, Read(op)
  PROVE  CopiesInv'
<1> DEFINE n == [pc |-> "write", op |-> op, snap |-> ride]
<1> USE DEF CopiesInv
<1>1. /\ n \in ActorType /\ n.pc = "write" /\ n.op = op /\ n.snap = ride
      /\ "holder" \in Actors
  BY ActorRecords, TypeFacts, Vocabulary DEF TypeOK
<1>2. /\ actor["holder"].pc = "idle" /\ ride # NoRide
      /\ op \in Operations(ride.status)
      /\ writes < MaxWrites
  BY KnownFacts DEF Read, WithinBounds, Found
<1>3. actor' = [actor EXCEPT !["holder"] = n]
  BY DEF Read
<1> HIDE DEF n
<1>4. /\ actor' \in [Actors -> ActorType] /\ actor'["holder"] = n
      /\ \A b \in Actors : b # "holder" => actor'[b] = actor[b]
  BY <1>1, <1>3, ActorStep
<1>5. UNCHANGED <<ride, mongo, writes, jobVars, running, toldVars, rebuilder,
                  mishaps, spoilt, ended>>
  BY DEF Read
<1>6. TypeOK'
  BY <1>4, <1>5 DEF TypeOK, ActorType, jobVars, toldVars
<1>7. Seen' \subseteq Seen /\ Known' \subseteq Known
  BY <1>1, <1>2, <1>4, <1>5, TypeFacts DEF Seen, Known
<1>8. Sane'
  BY <1>1, <1>2, <1>4, <1>5, <1>7, SaneStep, KnownFacts, RidesAreSome
<1>9. ASSUME ~spoilt' PROVE ride' # NoRide /\ Alive'
  <2>1. Alive
    BY <1>2, <1>5, <1>9
  <2>2. Ordered'
    BY <1>2, <1>5, <1>7, <2>1, OrderedKept DEF Alive, jobVars, toldVars
  <2>3. MongoKnown' /\ JobsReadLater' /\ FinishedSaved'
    BY <1>5, <2>1 DEF Alive, MongoKnown, JobsReadLater, FinishedSaved, SameRide,
                      jobVars
  <2>4. Coming'
    BY <1>2, <1>4, <1>5, <2>1 DEF Alive, Coming, SameRide, jobVars
  <2>5. \A s : Publishing(s) => Publishing(s)'
    BY <1>2, <1>4 DEF Publishing
  <2>6. Telling'
    BY <1>2, <1>4, <1>5, <2>1, <2>5 DEF Alive, Telling, toldVars
  <2>7. MarksTold'
    BY <1>1, <1>4, <1>5, <2>1, <2>5 DEF Alive, MarksTold, toldVars
  <2> QED
    BY <1>2, <1>5, <2>1, <2>2, <2>3, <2>4, <2>6, <2>7 DEF Alive
<1> QED
  BY <1>6, <1>8, <1>9

LEMMA GoOnStep ==
  ASSUME CopiesInv, NEW op \in RideStatuses \union {"BATCH"}, GoOn(op)
  PROVE  CopiesInv'
<1> DEFINE n == [pc |-> "write", op |-> op, snap |-> ride]
<1> USE DEF CopiesInv
<1>1. /\ n \in ActorType /\ n.pc = "write" /\ n.op = op /\ n.snap = ride
      /\ "holder" \in Actors
  BY ActorRecords, TypeFacts, Vocabulary DEF TypeOK
<1>2. /\ actor["holder"].pc = "reread" /\ actor["holder"].op = "BATCH" /\ ride # NoRide
      /\ op \in Operations(ride.status)
      /\ writes < MaxWrites
  BY KnownFacts DEF GoOn, WithinBounds, Found
<1>3. actor' = [actor EXCEPT !["holder"] = n]
  BY DEF GoOn
<1> HIDE DEF n
<1>4. /\ actor' \in [Actors -> ActorType] /\ actor'["holder"] = n
      /\ \A b \in Actors : b # "holder" => actor'[b] = actor[b]
  BY <1>1, <1>3, ActorStep
<1>5. UNCHANGED <<ride, mongo, writes, jobVars, running, toldVars, rebuilder,
                  mishaps, spoilt, ended>>
  BY DEF GoOn
<1>6. TypeOK'
  BY <1>4, <1>5 DEF TypeOK, ActorType, jobVars, toldVars
<1>7. Seen' \subseteq Seen /\ Known' \subseteq Known
  BY <1>1, <1>2, <1>4, <1>5, TypeFacts DEF Seen, Known
<1>8. Sane'
  BY <1>1, <1>2, <1>4, <1>5, <1>7, SaneStep, KnownFacts, RidesAreSome
<1>9. ASSUME ~spoilt' PROVE ride' # NoRide /\ Alive'
  <2>1. Alive
    BY <1>2, <1>5, <1>9
  <2>2. Ordered'
    BY <1>2, <1>5, <1>7, <2>1, OrderedKept DEF Alive, jobVars, toldVars
  <2>3. MongoKnown' /\ JobsReadLater' /\ FinishedSaved'
    BY <1>5, <2>1 DEF Alive, MongoKnown, JobsReadLater, FinishedSaved, SameRide,
                      jobVars
  <2>4. Coming'
    BY <1>1, <1>4 DEF Coming
  <2>5. \A s : Publishing(s) => Publishing(s)'
    BY <1>2, <1>4 DEF Publishing
  <2>6. Telling'
    BY <1>2, <1>4, <1>5, <2>1, <2>5 DEF Alive, Telling, toldVars
  <2>7. MarksTold'
    BY <1>1, <1>4, <1>5, <2>1, <2>5 DEF Alive, MarksTold, toldVars
  <2> QED
    BY <1>2, <1>5, <2>1, <2>2, <2>3, <2>4, <2>6, <2>7 DEF Alive
<1> QED
  BY <1>6, <1>8, <1>9

LEMMA WriteStep ==
  ASSUME CopiesInv, Write
  PROVE  CopiesInv'
<1> DEFINE h == actor["holder"]
           n == [h EXCEPT !.pc = "reread"]
           new == [status |-> StatusAfter(h.op), version |-> h.snap.version + 1,
                   at |-> writes + 1]
<1> USE DEF CopiesInv
<1>1. /\ h \in ActorType /\ h.pc = "write" /\ "holder" \in Actors
      /\ h.snap # NoRide /\ h.snap \in SomeRide
      /\ h.op \in Operations(h.snap.status)
      /\ h.op \in RideStatuses \union {"BATCH"}
      /\ writes \in Nat /\ writes < MaxWrites
  BY TypeFacts, KnownFacts, Vocabulary DEF Write, Sane
<1>2. /\ n \in ActorType /\ n.pc = "reread" /\ n.op = h.op /\ n.snap = h.snap
  BY <1>1 DEF ActorType
<1>3. /\ actor' = [actor EXCEPT !["holder"] = n]
      /\ ride' = new /\ writes' = writes + 1
  BY DEF Write
<1>4. /\ h.snap \in Seen /\ h.snap \in Known
      /\ h.snap.version \in Nat /\ h.snap.version <= writes
  BY <1>1, KnownFacts, OneRide
<1>5. StatusAfter(h.op) \in Statuses
  BY <1>1, Vocabulary DEF StatusAfter, TypeOK, SomeRide, RideType, Statuses
<1>6. /\ new.status = StatusAfter(h.op) /\ new.version = h.snap.version + 1
      /\ new.at = writes + 1
  OBVIOUS
<1>7. new \in RideType /\ new # NoRide
  <2>1. h.snap.version + 1 \in Versions /\ writes + 1 \in Versions
    BY <1>1, <1>4, BoundsAssumption DEF Versions
  <2> QED
    BY <1>5, <2>1, RidesAreSome DEF RideType
<1>8. /\ UNCHANGED <<mongo, jobVars, running, toldVars, rebuilder, mishaps>>
      /\ spoilt' = (spoilt \/ ride = NoRide \/ ride # h.snap)
      /\ ended' = (ended \/ Ended(h.op))
  BY DEF Write
<1> HIDE DEF h, n, new
<1>9. /\ actor' \in [Actors -> ActorType] /\ actor'["holder"] = n
      /\ \A b \in Actors : b # "holder" => actor'[b] = actor[b]
      /\ \A b \in Actors : actor'[b].snap = actor[b].snap
  BY <1>1, <1>2, <1>3, ActorStep DEF h
<1>10. TypeOK'
  <2>1. spoilt' \in BOOLEAN /\ ended' \in BOOLEAN
    BY <1>8, Zenon
  <2>2. writes' \in 0..MaxWrites
    BY <1>1, <1>3, BoundsAssumption
  <2> QED
    BY <1>3, <1>7, <1>8, <1>9, <2>1, <2>2
       DEF TypeOK, ActorType, jobVars, toldVars, SomeRide
<1>11. Seen' \subseteq Seen \union {new} /\ Known' \subseteq Known \union {new}
  BY <1>3, <1>8, <1>9 DEF Seen, Known
<1>12. Sane'
  <2>1. new \in SomeRide /\ new.version <= writes' /\ new.at <= writes'
    BY <1>1, <1>3, <1>4, <1>6, <1>7, RidesAreSome
  <2>2. writes' \in Nat /\ writes' >= writes
    BY <1>1, <1>3
  <2> QED
    BY <1>2, <1>8, <1>9, <1>11, <2>1, <2>2, SaneStep
<1>13. ASSUME ~spoilt' PROVE ride' # NoRide /\ Alive'
  <2>1. /\ ~spoilt /\ ride # NoRide /\ ride = h.snap
    BY <1>8, <1>13, Zenon
  <2>2. Alive /\ Ordered
    BY <2>1 DEF Alive
  <2>3. /\ new.status # "NONE"
        /\ h.op # "BATCH" => new.status = h.op
        /\ h.op = "BATCH" => new.status = ride.status
    BY <1>1, <1>6, <2>1, <2>2, Vocabulary, SeenFacts DEF StatusAfter
  <2>4. Ordered'
    BY <1>3, <1>6, <1>7, <1>8, <1>11, <2>1, <2>2, <2>3, OrderedNew
       DEF jobVars, toldVars
  <2>5. /\ \A x \in Seen : x.at < new.at /\ x.version < new.version
        /\ ride.version \in Nat /\ new.version = ride.version + 1
    BY <1>1, <1>4, <1>6, <2>1, <2>2, SeenFacts
  <2>6. MongoKnown'
    <3>1. mongo # NoRide => mongo.at \in Nat /\ mongo.at <= writes /\ mongo.status # "NONE"
      BY <2>2, KnownFacts, RidesAreSome, OneRide DEF Alive, MongoKnown, TypeOK
    <3>2. mongo # NoRide => mongo.at # new.at
      BY <1>1, <1>6, <3>1
    <3> QED
      BY <1>3, <1>8, <3>1, <3>2 DEF MongoKnown
  <2>7. JobsReadLater'
    BY <1>8, <2>2 DEF Alive, JobsReadLater
  <2>8. Coming'
    BY <1>1, <1>2, <1>9 DEF Coming
  <2>9. FinishedSaved'
    <3>1. \A v \in finished : v \in Nat /\ v <= ride.version
      BY <2>2, BoundsAssumption DEF TypeOK, Versions, Ordered
    <3>2. new.version \notin finished
      BY <2>5, <3>1
    <3> QED
      BY <1>3, <1>8, <3>2 DEF FinishedSaved, jobVars
  <2>10. \A s : Publishing(s) => Publishing(s)'
    BY <1>1, <1>9 DEF Publishing, h
  <2>11. Telling'
    <3>1. CASE h.op # "BATCH"
      BY <1>1, <1>2, <1>9, <3>1 DEF Telling
    <3>2. CASE h.op = "BATCH"
      <4>1. new.status = ride.status
        BY <2>3, <3>2
      <4> QED
        BY <1>1, <1>3, <1>8, <1>9, <2>2, <2>10, <4>1 DEF Alive, Telling, toldVars, h
    <3> QED
      BY <3>1, <3>2
  <2>12. MarksTold'
    <3>1. \A v \in marks : v \in Nat /\ v <= ride.version
      BY <2>2, BoundsAssumption DEF TypeOK, Versions, Ordered
    <3>2. new.version \notin marks
      BY <2>5, <3>1
    <3> QED
      BY <1>2, <1>3, <1>8, <1>9, <2>2, <2>10, <3>2 DEF Alive, MarksTold, toldVars
  <2>13. ended' => Ended(new.status)
    <3>1. ~Ended(ride.status)
      BY <1>1, <2>1, Vocabulary
    <3>2. ~ended
      BY <2>2, <3>1 DEF Alive
    <3>3. ended' => Ended(h.op)
      BY <1>8, <3>2, Zenon
    <3> QED
      BY <2>3, <3>3, Vocabulary
  <2> QED
    BY <1>3, <1>7, <2>4, <2>6, <2>7, <2>8, <2>9, <2>11, <2>12, <2>13 DEF Alive
<1> QED
  BY <1>10, <1>12, <1>13

LEMMA AcceptStep ==
  ASSUME CopiesInv, Accept
  PROVE  CopiesInv'
<1> DEFINE n == [pc |-> "reread", op |-> "ACCEPTED", snap |-> NoRide]
           new == [status |-> "ACCEPTED", version |-> ride.version + 1,
                   at |-> writes + 1]
<1> USE DEF CopiesInv
<1>1. /\ n \in ActorType /\ n.pc = "reread" /\ n.op = "ACCEPTED" /\ n.snap = NoRide
      /\ "accept" \in Actors /\ "holder" \in Actors
  BY ActorRecords, TypeFacts, RidesAreSome, Vocabulary
<1>2. /\ actor["accept"].pc = "idle" /\ ride # NoRide
      /\ ride.status = "DISPATCHING"
      /\ actor["holder"].pc = "write" => writes + 1 < MaxWrites
      /\ writes < MaxWrites /\ writes \in Nat
  BY KnownFacts, BoundsAssumption DEF Accept, WithinBounds, Found
<1>3. /\ actor' = [actor EXCEPT !["accept"] = n]
      /\ ride' = new /\ writes' = writes + 1
  BY DEF Accept
<1>4. /\ new.status = "ACCEPTED" /\ new.version = ride.version + 1
      /\ new.at = writes + 1
  OBVIOUS
<1>5. ride.version \in Nat /\ ride.version <= writes /\ ride \in RideType
  BY <1>2, KnownFacts, OneRide, RidesAreSome
<1>6. new \in RideType /\ new # NoRide
  <2>1. ride.version + 1 \in Versions /\ writes + 1 \in Versions
    BY <1>2, <1>5, BoundsAssumption DEF Versions
  <2> QED
    BY <2>1, Vocabulary, RidesAreSome DEF RideType
<1>7. UNCHANGED <<mongo, jobVars, running, toldVars, rebuilder, mishaps,
                  spoilt, ended>>
  BY DEF Accept
<1> HIDE DEF n, new
<1>8. /\ actor' \in [Actors -> ActorType] /\ actor'["accept"] = n
      /\ \A b \in Actors : b # "accept" => actor'[b] = actor[b]
  BY <1>1, <1>3, ActorStep
<1>9. TypeOK'
  <2>1. writes' \in 0..MaxWrites
    BY <1>2, <1>3, BoundsAssumption
  <2> QED
    BY <1>3, <1>6, <1>7, <1>8, <2>1
       DEF TypeOK, ActorType, jobVars, toldVars, SomeRide
<1>10. Seen' \subseteq Seen \union {new} /\ Known' \subseteq Known \union {new}
  BY <1>1, <1>3, <1>7, <1>8 DEF Seen, Known
<1>11. Sane'
  <2>1. new \in SomeRide /\ new.version <= writes' /\ new.at <= writes'
    BY <1>2, <1>3, <1>4, <1>5, <1>6, RidesAreSome
  <2>2. writes' \in Nat /\ writes' >= writes
    BY <1>2, <1>3
  <2>3. /\ writes' >= 1
        /\ \A x \in Known' : x.version <= writes' /\ x.at <= writes'
    BY <1>2, <1>3, <1>10, <2>1, KnownFacts, OneRide, RidesAreSome
  <2>4. \A a \in Actors : actor'[a].pc = "write" =>
            a = "holder" /\ writes' < MaxWrites
            /\ actor'[a].op \in Operations(actor'[a].snap.status)
    BY <1>1, <1>2, <1>3, <1>8 DEF Sane
  <2>5. \A a \in Actors :
            /\ actor'[a].pc = "idle" => actor'[a] = Idle
            /\ actor'[a].pc \in {"write", "sync", "mark", "publish"}
                            => actor'[a].snap # NoRide
    BY <1>1, <1>8 DEF Sane
  <2> QED
    BY <1>7, <2>3, <2>4, <2>5 DEF Sane
<1>12. ASSUME ~spoilt' PROVE ride' # NoRide /\ Alive'
  <2>1. Alive /\ Ordered
    BY <1>2, <1>7, <1>12 DEF Alive
  <2>2. Ordered'
    BY <1>2, <1>3, <1>4, <1>6, <1>7, <1>10, <2>1, OrderedNew
       DEF jobVars, toldVars
  <2>3. MongoKnown'
    <3>1. mongo # NoRide => mongo.at \in Nat /\ mongo.at <= writes /\ mongo.status # "NONE"
      BY <2>1, KnownFacts, RidesAreSome, OneRide DEF Alive, MongoKnown, TypeOK
    <3>2. mongo # NoRide => mongo.at # new.at
      BY <1>2, <1>4, <3>1
    <3> QED
      BY <1>3, <1>7, <3>1, <3>2 DEF MongoKnown
  <2>4. JobsReadLater'
    BY <1>7, <2>1 DEF Alive, JobsReadLater
  <2>5. Coming' /\ Telling'
    BY <1>1, <1>8 DEF Coming, Telling
  <2>6. new.version \notin finished /\ new.version \notin marks
    <3>1. \A v \in finished \union marks : v \in Nat /\ v <= ride.version
      BY <2>1, BoundsAssumption DEF TypeOK, Versions, Ordered
    <3> QED
      BY <1>4, <1>5, <3>1
  <2>7. FinishedSaved'
    BY <1>3, <1>7, <2>6 DEF FinishedSaved, jobVars
  <2>8. \A s : Publishing(s) => Publishing(s)'
    BY <1>2, <1>8 DEF Publishing
  <2>9. MarksTold'
    BY <1>1, <1>3, <1>7, <1>8, <2>1, <2>6, <2>8 DEF Alive, MarksTold, toldVars
  <2>10. ~ended
    BY <1>2, <2>1, Vocabulary DEF Alive
  <2> QED
    BY <1>3, <1>6, <1>7, <2>2, <2>3, <2>4, <2>5, <2>7, <2>9, <2>10 DEF Alive
<1> QED
  BY <1>9, <1>11, <1>12

-----------------------------------------------------------------------------
\* After the write.

LEMMA RereadStep ==
  ASSUME CopiesInv, NEW a \in Actors, Reread(a)
  PROVE  CopiesInv'
<1> DEFINE n == IF Found THEN [actor[a] EXCEPT !.pc = "sync", !.snap = Announced(a)]
                         ELSE Idle
<1> USE DEF CopiesInv
<1>1. actor[a].pc = "reread" /\ actor[a] \in ActorType
  BY TypeFacts DEF Reread
<1>2. /\ n \in ActorType
      /\ Found => /\ n.pc = "sync" /\ n.op = actor[a].op /\ n.snap = ride
                  /\ ride # NoRide
      /\ ~Found => n = Idle
  BY <1>1, IdleActor DEF ActorType, Announced, TypeOK, Found
<1>3. actor' = [actor EXCEPT ![a] = n]
  BY DEF Reread
<1> HIDE DEF n
<1>4. /\ actor' \in [Actors -> ActorType] /\ actor'[a] = n
      /\ \A b \in Actors : b # a => actor'[b] = actor[b]
  BY <1>2, <1>3, ActorStep
<1>5. UNCHANGED <<ride, mongo, writes, jobVars, running, toldVars, rebuilder,
                  mishaps, spoilt, ended>>
  BY DEF Reread
<1>6. TypeOK'
  BY <1>4, <1>5 DEF TypeOK, ActorType, jobVars, toldVars
<1>7. Seen' \subseteq Seen /\ Known' \subseteq Known
  BY <1>2, <1>4, <1>5, IdleActor DEF Seen, Known
<1>8. Sane'
  <2>1. actor'["holder"].pc = "write" => writes' = writes
    BY <1>5
  <2> QED
    BY <1>2, <1>4, <1>5, <1>7, <2>1, SaneStep, KnownFacts, RidesAreSome, IdleActor
<1>9. ASSUME ~spoilt' PROVE ride' # NoRide /\ Alive'
  <2>1. ride # NoRide /\ Alive /\ Ordered
    BY <1>1, <1>5, <1>9, UnderWay DEF Alive
  <2>2. n.pc = "sync" /\ n.op = actor[a].op /\ n.snap = ride
    BY <1>2, <2>1, SeenFacts DEF Found
  <2>3. Ordered'
    BY <1>5, <1>7, <2>1, OrderedKept DEF jobVars, toldVars
  <2>4. MongoKnown' /\ JobsReadLater' /\ FinishedSaved'
    BY <1>5, <2>1 DEF Alive, MongoKnown, JobsReadLater, FinishedSaved, SameRide,
                      jobVars
  <2>5. Coming'
    <3>1. actor'[a].pc = "sync" /\ actor'[a].snap = ride' /\ ride' # NoRide
      BY <1>4, <1>5, <2>1, <2>2
    <3> QED
      BY <3>1 DEF Coming, SameRide
  <2>6. \A s : Publishing(s) => Publishing(s)'
    BY <1>1, <1>4 DEF Publishing
  <2>7. Telling'
    <3>1. CASE ride.status \in told \/ Publishing(ride.status)
      BY <1>5, <2>6, <3>1 DEF Telling, toldVars
    <3>2. CASE \E b \in Actors :
                  /\ actor[b].op # "BATCH"
                  /\ \/ actor[b].pc = "reread"
                     \/ /\ actor[b].pc \in {"sync", "mark"}
                        /\ actor[b].snap.status = ride.status
      BY <1>4, <1>5, <2>2, <3>2 DEF Telling
    <3> QED
      BY <2>1, <3>1, <3>2 DEF Alive, Telling
  <2>8. MarksTold'
    BY <1>4, <1>5, <2>1, <2>2, <2>6 DEF Alive, MarksTold, toldVars
  <2> QED
    BY <1>5, <2>1, <2>3, <2>4, <2>5, <2>7, <2>8 DEF Alive
<1> QED
  BY <1>6, <1>8, <1>9

LEMMA SyncStep ==
  ASSUME CopiesInv, NEW a \in Actors, Sync(a)
  PROVE  CopiesInv'
<1> DEFINE v == actor[a].snap.version
           n == IF actor[a].op = "BATCH" THEN Idle ELSE [actor[a] EXCEPT !.pc = "mark"]
<1> USE DEF CopiesInv
<1>1. /\ actor[a].pc = "sync" /\ actor[a] \in ActorType
      /\ actor[a].snap # NoRide /\ actor[a].snap \in SomeRide
      /\ actor[a].snap \in Seen /\ v \in Versions
  BY TypeFacts, KnownFacts, RidesAreSome DEF Sync, Sane, RideType
<1>2. /\ n \in ActorType
      /\ actor[a].op # "BATCH" => /\ n.pc = "mark" /\ n.op = actor[a].op
                                  /\ n.snap = actor[a].snap
      /\ actor[a].op = "BATCH" => n = Idle
  BY <1>1, IdleActor DEF ActorType
<1>3. actor' = [actor EXCEPT ![a] = n] /\ Enqueue(v)
  BY DEF Sync
<1> HIDE DEF n
<1>4. /\ actor' \in [Actors -> ActorType] /\ actor'[a] = n
      /\ \A b \in Actors : b # a => actor'[b] = actor[b]
  BY <1>2, <1>3, ActorStep
<1>5. UNCHANGED <<ride, mongo, writes, running, toldVars, rebuilder,
                  mishaps, spoilt, ended>>
  BY DEF Sync
<1>6. /\ queued' \subseteq queued \union {v} /\ queued \subseteq queued'
      /\ finished' \subseteq finished
      /\ v \in queued' \/ v \in Running \/ v \in finished
  BY <1>3 DEF Enqueue, jobVars
<1>7. TypeOK'
  <2>1. queued' \subseteq Versions /\ finished' \subseteq Versions
    BY <1>1, <1>6 DEF TypeOK
  <2> QED
    BY <1>4, <1>5, <2>1 DEF TypeOK, ActorType, toldVars
<1>8. Seen' \subseteq Seen /\ Known' \subseteq Known
  BY <1>2, <1>4, <1>5, IdleActor DEF Seen, Known
<1>9. Sane'
  <2>1. actor'["holder"].pc = "write" => writes' = writes
    BY <1>5
  <2> QED
    BY <1>1, <1>2, <1>4, <1>5, <1>8, <2>1, SaneStep, KnownFacts, RidesAreSome, IdleActor
<1>10. ASSUME ~spoilt' PROVE ride' # NoRide /\ Alive'
  <2>1. ride # NoRide /\ Alive /\ Ordered
    BY <1>1, <1>5, <1>10, UnderWay DEF Alive
  <2>2. Ordered'
    <3>1. v \in Nat /\ v <= v
      BY <1>1, BoundsAssumption DEF Versions
    <3>2. \A w \in queued' \union finished' \union marks' :
            \/ w \in queued \union finished \union marks
            \/ w \in Nat /\ \E x \in Seen : w <= x.version
      BY <1>1, <1>5, <1>6, <3>1 DEF toldVars
    <3> QED
      BY <1>5, <1>8, <2>1, <3>2, OrderedKept
  <2>3. MongoKnown' /\ JobsReadLater' /\ FinishedSaved'
    BY <1>5, <1>6, <2>1 DEF Alive, MongoKnown, JobsReadLater, FinishedSaved, SameRide
  <2>4. Coming'
    <3>1. CASE SameRide(mongo) \/ queued # {} \/ \E j \in running : SameRide(j.copy)
      BY <1>5, <1>6, <3>1 DEF Coming, SameRide
    <3>2. CASE SameRide(actor[a].snap)
      <4>1. actor[a].snap = ride /\ v = ride.version
        BY <1>1, <2>1, <3>2, SeenFacts DEF SameRide
      <4>2. CASE v \in queued'
        BY <4>2 DEF Coming
      <4>3. CASE v \in finished
        BY <1>5, <2>1, <4>1, <4>3 DEF Coming, SameRide, Alive, FinishedSaved
      <4>4. CASE v \in Running
        <5>1. PICK j \in running : j.job = v
          BY <4>4 DEF Running
        <5>2. j.copy # NoRide /\ j.copy \in Seen /\ v <= j.copy.version
          BY <2>1, <5>1, KnownFacts DEF Alive, JobsReadLater
        <5>3. j.copy.version = ride.version
          BY <2>1, <4>1, <5>2, SeenFacts
        <5>4. j.copy = ride
          BY <2>1, <5>2, <5>3, SeenFacts
        <5> QED
          BY <1>5, <2>1, <5>1, <5>4 DEF Coming, SameRide
      <4> QED
        BY <1>6, <4>2, <4>3, <4>4
    <3>3. CASE \E b \in Actors : b # a /\
                   \/ actor[b].pc \in {"write", "reread"}
                   \/ actor[b].pc = "sync" /\ SameRide(actor[b].snap)
      BY <1>4, <1>5, <3>3 DEF Coming, SameRide
    <3> QED
      BY <1>1, <2>1, <3>1, <3>2, <3>3 DEF Alive, Coming
  <2>5. \A s : Publishing(s) => Publishing(s)'
    BY <1>1, <1>4 DEF Publishing
  <2>6. Telling'
    <3>1. CASE ride.status \in told \/ Publishing(ride.status)
      BY <1>5, <2>5, <3>1 DEF Telling, toldVars
    <3>2. CASE \E b \in Actors :
                  /\ actor[b].op # "BATCH"
                  /\ \/ actor[b].pc = "reread"
                     \/ /\ actor[b].pc \in {"sync", "mark"}
                        /\ actor[b].snap.status = ride.status
      BY <1>1, <1>2, <1>4, <1>5, <3>2 DEF Telling
    <3> QED
      BY <2>1, <3>1, <3>2 DEF Alive, Telling
  <2>7. MarksTold'
    BY <1>1, <1>2, <1>4, <1>5, <2>1, <2>5, IdleActor DEF Alive, MarksTold, toldVars
  <2> QED
    BY <1>5, <2>1, <2>2, <2>3, <2>4, <2>6, <2>7 DEF Alive
<1> QED
  BY <1>7, <1>9, <1>10

LEMMA MarkStep ==
  ASSUME CopiesInv, NEW a \in Actors, Mark(a)
  PROVE  CopiesInv'
<1> DEFINE k == actor[a].snap.version
           n == IF k \in marks THEN Idle ELSE [actor[a] EXCEPT !.pc = "publish"]
<1> USE DEF CopiesInv
<1>1. /\ actor[a].pc = "mark" /\ actor[a] \in ActorType
      /\ actor[a].snap # NoRide /\ actor[a].snap \in SomeRide
      /\ actor[a].snap \in Seen /\ k \in Versions
  BY TypeFacts, KnownFacts, RidesAreSome DEF Mark, Sane, RideType
<1>2. /\ n \in ActorType
      /\ k \notin marks => n.pc = "publish" /\ n.snap = actor[a].snap
      /\ k \in marks => n = Idle
  BY <1>1, IdleActor DEF ActorType
<1>3. actor' = [actor EXCEPT ![a] = n] /\ marks' = marks \union {k}
  BY DEF Mark, DedupeKey
<1> HIDE DEF n
<1>4. /\ actor' \in [Actors -> ActorType] /\ actor'[a] = n
      /\ \A b \in Actors : b # a => actor'[b] = actor[b]
  BY <1>2, <1>3, ActorStep
<1>5. UNCHANGED <<ride, mongo, writes, jobVars, running, told, rebuilder,
                  mishaps, spoilt, ended>>
  BY DEF Mark
<1>6. TypeOK'
  BY <1>1, <1>3, <1>4, <1>5 DEF TypeOK, ActorType, jobVars
<1>7. Seen' \subseteq Seen /\ Known' \subseteq Known
  BY <1>2, <1>4, <1>5, IdleActor DEF Seen, Known
<1>8. Sane'
  <2>1. actor'["holder"].pc = "write" => writes' = writes
    BY <1>5
  <2> QED
    BY <1>1, <1>2, <1>4, <1>5, <1>7, <2>1, SaneStep, KnownFacts, RidesAreSome, IdleActor
<1>9. ASSUME ~spoilt' PROVE ride' # NoRide /\ Alive'
  <2>1. ride # NoRide /\ Alive /\ Ordered
    BY <1>1, <1>5, <1>9, UnderWay DEF Alive
  <2>2. Ordered'
    <3>1. k \in Nat /\ k <= k
      BY <1>1, BoundsAssumption DEF Versions
    <3>2. \A w \in queued' \union finished' \union marks' :
            \/ w \in queued \union finished \union marks
            \/ w \in Nat /\ \E x \in Seen : w <= x.version
      BY <1>1, <1>3, <1>5, <3>1 DEF jobVars
    <3> QED
      BY <1>5, <1>7, <2>1, <3>2, OrderedKept
  <2>3. MongoKnown' /\ JobsReadLater' /\ FinishedSaved'
    BY <1>5, <2>1 DEF Alive, MongoKnown, JobsReadLater, FinishedSaved, SameRide,
                      jobVars
  <2>4. Coming'
    BY <1>1, <1>4, <1>5, <2>1 DEF Alive, Coming, SameRide, jobVars
  <2>5. /\ \A s : Publishing(s) => Publishing(s)'
        /\ \A s : k \notin marks /\ s = actor[a].snap.status => Publishing(s)'
    BY <1>1, <1>2, <1>4 DEF Publishing
  <2>6. \A s : s = actor[a].snap.status => s \in told \/ Publishing(s)'
    BY <1>1, <2>1, <2>5 DEF Alive, MarksTold
  <2>7. Telling'
    <3>1. CASE ride.status \in told \/ Publishing(ride.status)
      BY <1>5, <2>5, <3>1 DEF Telling
    <3>2. CASE actor[a].snap.status = ride.status
      BY <1>5, <2>6, <3>2 DEF Telling
    <3>3. CASE \E b \in Actors : b # a /\
                  /\ actor[b].op # "BATCH"
                  /\ \/ actor[b].pc = "reread"
                     \/ /\ actor[b].pc \in {"sync", "mark"}
                        /\ actor[b].snap.status = ride.status
      BY <1>4, <1>5, <3>3 DEF Telling
    <3> QED
      BY <1>1, <2>1, <3>1, <3>2, <3>3 DEF Alive, Telling
  <2>8. MarksTold'
    <3> DEFINE Close == {ride} \union
             {actor[c].snap : c \in {b \in Actors : actor[b].pc \in {"sync", "mark"}}}
    <3>1. {ride'} \union
             {actor'[c].snap : c \in {b \in Actors : actor'[b].pc \in {"sync", "mark"}}}
             \subseteq Close
      BY <1>1, <1>2, <1>4, <1>5, IdleActor
    <3>2. ASSUME NEW x \in Close, x.version \in marks'
          PROVE  x.status \in told' \/ Publishing(x.status)'
      <4>1. CASE x.version \in marks
        BY <1>5, <2>1, <2>5, <4>1 DEF Alive, MarksTold
      <4>2. CASE x.version = k
        <5>1. x # NoRide /\ x \in Seen
          BY <2>1, KnownFacts DEF Sane
        <5>2. x = actor[a].snap
          BY <1>1, <2>1, <4>2, <5>1, SeenFacts
        <5> QED
          BY <1>5, <2>6, <5>2
      <4> QED
        BY <1>3, <3>2, <4>1, <4>2
    <3> HIDE DEF Close
    <3> QED
      BY <3>1, <3>2 DEF MarksTold
  <2> QED
    BY <1>5, <2>1, <2>2, <2>3, <2>4, <2>7, <2>8 DEF Alive
<1> QED
  BY <1>6, <1>8, <1>9

LEMMA PublishStep ==
  ASSUME CopiesInv, NEW a \in Actors, Publish(a)
  PROVE  CopiesInv'
<1> USE DEF CopiesInv
<1>1. /\ actor[a].pc = "publish" /\ actor[a] \in ActorType
      /\ actor[a].snap # NoRide /\ actor[a].snap.status \in Statuses
  BY TypeFacts, OneRide DEF Publish, Sane
<1>2. /\ actor' = [actor EXCEPT ![a] = Idle]
      /\ told' = told \union {actor[a].snap.status}
  BY DEF Publish
<1>3. /\ actor' \in [Actors -> ActorType] /\ actor'[a] = Idle
      /\ \A b \in Actors : b # a => actor'[b] = actor[b]
  BY <1>2, ActorStep, IdleActor
<1>4. UNCHANGED <<ride, mongo, writes, jobVars, running, marks, rebuilder,
                  mishaps, spoilt, ended>>
  BY DEF Publish
<1>5. TypeOK'
  BY <1>1, <1>2, <1>3, <1>4 DEF TypeOK, ActorType, jobVars
<1>6. Seen' \subseteq Seen /\ Known' \subseteq Known
  BY <1>3, <1>4, IdleActor DEF Seen, Known
<1>7. Sane'
  <2>1. actor'["holder"].pc = "write" => writes' = writes
    BY <1>4
  <2> QED
    BY <1>3, <1>4, <1>6, <2>1, SaneStep, KnownFacts, RidesAreSome, IdleActor
<1>8. ASSUME ~spoilt' PROVE ride' # NoRide /\ Alive'
  <2>1. ride # NoRide /\ Alive /\ Ordered
    BY <1>1, <1>4, <1>8, UnderWay DEF Alive
  <2>2. Ordered'
    BY <1>4, <1>6, <2>1, OrderedKept DEF jobVars
  <2>3. MongoKnown' /\ JobsReadLater' /\ FinishedSaved'
    BY <1>4, <2>1 DEF Alive, MongoKnown, JobsReadLater, FinishedSaved, SameRide,
                      jobVars
  <2>4. Coming'
    BY <1>1, <1>3, <1>4, <2>1 DEF Alive, Coming, SameRide, jobVars
  <2>5. \A s : s \in told \/ Publishing(s) => s \in told' \/ Publishing(s)'
    BY <1>2, <1>3 DEF Publishing
  <2>6. Telling'
    <3>1. CASE ride.status \in told \/ Publishing(ride.status)
      BY <1>4, <2>5, <3>1 DEF Telling
    <3>2. CASE \E b \in Actors :
                  /\ actor[b].op # "BATCH"
                  /\ \/ actor[b].pc = "reread"
                     \/ /\ actor[b].pc \in {"sync", "mark"}
                        /\ actor[b].snap.status = ride.status
      BY <1>1, <1>3, <1>4, <3>2 DEF Telling
    <3> QED
      BY <2>1, <3>1, <3>2 DEF Alive, Telling
  <2>7. MarksTold'
    BY <1>1, <1>3, <1>4, <2>1, <2>5, IdleActor DEF Alive, MarksTold
  <2> QED
    BY <1>4, <2>1, <2>2, <2>3, <2>4, <2>6, <2>7 DEF Alive
<1> QED
  BY <1>5, <1>7, <1>8

LEMMA DieStep ==
  ASSUME CopiesInv, NEW a \in Actors, Die(a)
  PROVE  CopiesInv'
<1> USE DEF CopiesInv
<1>1. /\ actor' = [actor EXCEPT ![a] = Idle] /\ spoilt' = TRUE
      /\ mishaps < Mishaps /\ mishaps' = mishaps + 1
  BY DEF Die
<1>2. /\ actor' \in [Actors -> ActorType] /\ actor'[a] = Idle
      /\ \A b \in Actors : b # a => actor'[b] = actor[b]
  BY <1>1, ActorStep, IdleActor
<1>3. UNCHANGED <<ride, mongo, writes, jobVars, running, toldVars, rebuilder, ended>>
  BY DEF Die
<1>4. TypeOK'
  <2>1. mishaps' \in 0..Mishaps
    BY <1>1, BoundsAssumption DEF TypeOK
  <2>2. spoilt' \in BOOLEAN
    BY <1>1, Zenon
  <2> QED
    BY <1>2, <1>3, <2>1, <2>2 DEF TypeOK, ActorType, jobVars, toldVars
<1>5. Known' \subseteq Known
  BY <1>2, <1>3, IdleActor DEF Seen, Known
<1>6. Sane'
  <2>1. actor'["holder"].pc = "write" => writes' = writes
    BY <1>3
  <2> QED
    BY <1>2, <1>3, <1>5, <2>1, SaneStep, KnownFacts, RidesAreSome, IdleActor
<1> QED
  BY <1>1, <1>4, <1>6, Zenon

-----------------------------------------------------------------------------
\* The persistence worker.

LEMMA TakeStep ==
  ASSUME CopiesInv, NEW v \in queued, Take(v)
  PROVE  CopiesInv'
<1> DEFINE new == [job |-> v, copy |-> IF Found THEN ride ELSE NoRide]
<1> USE DEF CopiesInv
<1>1. /\ queued' = queued \ {v} /\ running' = running \union {new}
      /\ UNCHANGED <<ride, mongo, writes, actor, finished, toldVars, rebuilder,
                     mishaps, spoilt, ended>>
  BY DEF Take
<1>2. /\ new.job = v /\ new.copy \in {ride, NoRide} /\ new \in JobType
      /\ v \in Nat /\ v >= 1
      /\ Found => new.copy = ride /\ ride # NoRide
  BY BoundsAssumption, RidesAreSome DEF TypeOK, JobType, Versions, Found
<1> HIDE DEF new
<1>3. TypeOK'
  BY <1>1, <1>2 DEF TypeOK, JobType, toldVars
<1>4. Seen' \subseteq Seen /\ Known' \subseteq Known
  BY <1>1, <1>2 DEF Seen, Known
<1>5. Sane'
  BY <1>1, <1>4 DEF Sane
<1>6. ASSUME ~spoilt' PROVE ride' # NoRide /\ Alive'
  <2>1. ride # NoRide /\ Alive /\ Ordered
    BY <1>1, <1>6, UnderWay DEF Alive
  <2>2. new.copy = ride
    BY <1>2, <2>1, SeenFacts DEF Found
  <2>3. Ordered'
    BY <1>1, <1>4, <2>1, OrderedKept DEF toldVars
  <2>4. MongoKnown' /\ FinishedSaved' /\ Telling' /\ MarksTold'
    BY <1>1, <2>1 DEF Alive, MongoKnown, FinishedSaved, SameRide, Telling, MarksTold,
                      Publishing, toldVars
  <2>5. JobsReadLater'
    <3>1. v <= ride.version
      BY <2>1 DEF Ordered
    <3> QED
      BY <1>1, <1>2, <2>1, <2>2, <3>1 DEF Alive, JobsReadLater
  <2>6. Coming'
    BY <1>1, <2>1, <2>2 DEF Coming, SameRide
  <2> QED
    BY <1>1, <2>1, <2>3, <2>4, <2>5, <2>6 DEF Alive
<1> QED
  BY <1>3, <1>5, <1>6

LEMMA UpsertStep ==
  ASSUME CopiesInv, NEW j \in running, Upsert(j)
  PROVE  CopiesInv'
<1> USE DEF CopiesInv
<1>1. /\ mongo' = IF j.copy = NoRide THEN mongo ELSE j.copy
      /\ spoilt' = (spoilt \/ Overtakes(j.copy))
      /\ finished' = finished \union ({j.job} \ {0})
      /\ running' = running \ {j}
      /\ UNCHANGED <<ride, writes, actor, queued, toldVars, rebuilder, mishaps,
                     ended>>
  BY DEF Upsert, Upserted
<1>2. /\ j.job \in 0..MaxWrites /\ j.copy \in SomeRide
      /\ j.copy # NoRide => j.copy \in Seen /\ j.copy \in Known
  BY TypeFacts, KnownFacts
<1>3. TypeOK'
  <2>1. spoilt' \in BOOLEAN
    BY <1>1, Zenon DEF TypeOK
  <2>2. j.job # 0 => j.job \in Versions
    BY <1>2, BoundsAssumption DEF Versions
  <2>3. finished' \subseteq Versions
    BY <1>1, <2>2 DEF TypeOK
  <2>4. mongo' \in SomeRide
    BY <1>1, <1>2 DEF TypeOK
  <2> QED
    BY <1>1, <2>1, <2>3, <2>4 DEF TypeOK, toldVars
<1>4. Seen' \subseteq Seen /\ Known' \subseteq Known
  BY <1>1, <1>2 DEF Seen, Known
<1>5. Sane'
  BY <1>1, <1>4 DEF Sane
<1>6. ASSUME ~spoilt' PROVE ride' # NoRide /\ Alive'
  <2>1. ~spoilt /\ ~Overtakes(j.copy)
    BY <1>1, <1>6, Zenon
  <2>2. ride # NoRide /\ Alive /\ Ordered
    BY <2>1, UnderWay DEF Alive
  <2>3. /\ j.copy # NoRide /\ j.copy \in Seen /\ j.job >= 1
        /\ j.job <= j.copy.version /\ mongo' = j.copy
    BY <1>1, <1>2, <2>2 DEF Alive, JobsReadLater
  <2>4. /\ j.copy.version \in Nat /\ j.copy.at \in Nat /\ j.job \in Nat
        /\ j.copy.version <= ride.version /\ j.copy.at <= ride.at
        /\ ride.version \in Nat /\ ride.at \in Nat /\ ride \in Seen
    BY <1>2, <2>2, <2>3, SeenFacts, BoundsAssumption
  <2>5. Ordered'
    BY <1>1, <1>4, <2>2, <2>3, <2>4, OrderedKept DEF toldVars
  <2>6. MongoKnown'
    BY <1>1, <2>2, <2>3, <2>4, SeenFacts DEF MongoKnown
  <2>7. SameRide(mongo) => SameRide(mongo)'
    <3>1. SameRide(mongo) => j.copy.at = ride.at
      BY <2>1, <2>3, <2>4 DEF SameRide, Overtakes
    <3> QED
      BY <1>1, <2>2, <2>3, <3>1 DEF SameRide
  <2>8. JobsReadLater' /\ Telling' /\ MarksTold'
    BY <1>1, <2>2 DEF Alive, JobsReadLater, Telling, MarksTold, Publishing, toldVars
  <2>9. FinishedSaved'
    <3>1. CASE ride.version \in finished
      BY <2>2, <2>7, <3>1 DEF Alive, FinishedSaved
    <3>2. CASE ride.version = j.job
      <4>1. j.copy.version = ride.version
        BY <2>3, <2>4, <3>2
      <4>2. j.copy = ride
        BY <2>2, <2>3, <2>4, <4>1, SeenFacts
      <4> QED
        BY <1>1, <2>2, <2>3, <4>2 DEF FinishedSaved, SameRide
    <3> QED
      BY <1>1, <3>1, <3>2 DEF FinishedSaved
  <2>10. Coming'
    <3>1. CASE \E i \in running : SameRide(i.copy)
      <4>1. PICK i \in running : SameRide(i.copy)
        BY <3>1
      <4>2. CASE i = j
        BY <1>1, <2>2, <2>3, <4>1, <4>2 DEF Coming, SameRide
      <4>3. CASE i # j
        BY <1>1, <4>1, <4>3 DEF Coming, SameRide
      <4> QED
        BY <4>2, <4>3
    <3>2. CASE SameRide(mongo)
      BY <2>7, <3>2 DEF Coming
    <3>3. CASE \/ queued # {}
               \/ \E a \in Actors : \/ actor[a].pc \in {"write", "reread"}
                                    \/ actor[a].pc = "sync" /\ SameRide(actor[a].snap)
      BY <1>1, <3>3 DEF Coming, SameRide
    <3> QED
      BY <2>2, <3>1, <3>2, <3>3 DEF Alive, Coming
  <2> QED
    BY <1>1, <2>2, <2>5, <2>6, <2>8, <2>9, <2>10 DEF Alive
<1> QED
  BY <1>3, <1>5, <1>6

LEMMA AttemptFailsStep ==
  ASSUME CopiesInv, NEW j \in running, AttemptFails(j)
  PROVE  CopiesInv'
<1> USE DEF CopiesInv
<1>1. /\ mishaps < Mishaps /\ mishaps' = mishaps + 1
      /\ queued' = queued \union ({j.job} \ {0})
      /\ running' = running \ {j}
      /\ UNCHANGED <<ride, mongo, writes, actor, finished, toldVars, rebuilder,
                     spoilt, ended>>
  BY DEF AttemptFails, Retried
<1>2. j.job \in 0..MaxWrites /\ (j.copy # NoRide => j.copy \in Seen)
  BY TypeFacts, KnownFacts
<1>3. TypeOK'
  <2>1. mishaps' \in 0..Mishaps
    BY <1>1, BoundsAssumption DEF TypeOK
  <2>2. j.job # 0 => j.job \in Versions
    BY <1>2, BoundsAssumption DEF Versions
  <2>3. queued' \subseteq Versions
    BY <1>1, <2>2 DEF TypeOK
  <2> QED
    BY <1>1, <2>1, <2>3 DEF TypeOK, toldVars
<1>4. Seen' \subseteq Seen /\ Known' \subseteq Known
  BY <1>1 DEF Seen, Known
<1>5. Sane'
  BY <1>1, <1>4 DEF Sane
<1>6. ASSUME ~spoilt' PROVE ride' # NoRide /\ Alive'
  <2>1. ride # NoRide /\ Alive /\ Ordered
    BY <1>1, <1>6, UnderWay DEF Alive
  <2>2. /\ j.copy \in Seen /\ j.job \in Nat /\ j.job >= 1
        /\ j.job <= j.copy.version
    BY <1>2, <2>1, BoundsAssumption DEF Alive, JobsReadLater
  <2>3. Ordered'
    BY <1>1, <1>4, <2>1, <2>2, OrderedKept DEF toldVars
  <2>4. MongoKnown' /\ JobsReadLater' /\ FinishedSaved' /\ Telling' /\ MarksTold'
    BY <1>1, <2>1 DEF Alive, MongoKnown, JobsReadLater, FinishedSaved, SameRide,
                      Telling, MarksTold, Publishing, toldVars
  <2>5. j.job \in queued'
    BY <1>1, <2>2
  <2> QED
    BY <1>1, <2>1, <2>3, <2>4, <2>5 DEF Alive, Coming
<1> QED
  BY <1>3, <1>5, <1>6

-----------------------------------------------------------------------------
\* Loss, expiry and rebuild.

\* With nothing under way, Mongo and the customer know the ride.
LEMMA AtRest ==
  ASSUME CopiesInv, ~spoilt, ride # NoRide
  PROVE  /\ Quiet /\ queued = {} => SameRide(mongo)
         /\ (\A a \in Actors : actor[a].pc = "idle") => ride.status \in told
         /\ SameRide(mongo) => /\ mongo.status = ride.status
                               /\ mongo.at = writes /\ mongo.status # "NONE"
         /\ ended => Ended(ride.status)
BY IdleActor DEF CopiesInv, Alive, Coming, Quiet, Telling, Publishing, SameRide,
                 MongoKnown, Ordered

LEMMA LoseRedisStep ==
  ASSUME CopiesInv, LoseRedis
  PROVE  CopiesInv'
<1> USE DEF CopiesInv
<1>1. /\ mishaps < Mishaps /\ mishaps' = mishaps + 1
      /\ ride' = NoRide /\ queued' = {} /\ finished' = {} /\ marks' = {}
      /\ running' = {[j EXCEPT !.job = 0] : j \in running}
      /\ spoilt' = (spoilt \/ ~Quiet \/ (ride # NoRide /\ ~SameRide(mongo)))
      /\ UNCHANGED <<mongo, writes, actor, told, rebuilder, ended>>
  BY DEF LoseRedis
<1>2. \A j \in running : /\ [j EXCEPT !.job = 0] \in JobType
                         /\ [j EXCEPT !.job = 0].copy = j.copy
  BY TypeFacts, BoundsAssumption DEF JobType
<1>3. TypeOK'
  <2>1. mishaps' \in 0..Mishaps
    BY <1>1, BoundsAssumption DEF TypeOK
  <2>2. spoilt' \in BOOLEAN
    BY <1>1, Zenon
  <2>3. running' \subseteq JobType
    BY <1>1, <1>2
  <2> QED
    BY <1>1, <2>1, <2>2, <2>3, RidesAreSome DEF TypeOK, JobType
<1>4. Known' \subseteq Known
  <2>1. \A j \in running' : \E i \in running : j.copy = i.copy
    BY <1>1, <1>2
  <2> QED
    BY <1>1, <2>1 DEF Seen, Known
<1>5. Sane'
  BY <1>1, <1>4 DEF Sane
<1>6. ASSUME ~spoilt' PROVE ride' = NoRide /\ Gone'
  <2>1. ~spoilt /\ Quiet /\ (ride # NoRide => SameRide(mongo))
    BY <1>1, <1>6, Zenon
  <2>2. Quiet' /\ queued' = {}
    BY <1>1, <2>1 DEF Quiet
  <2>3. CASE ride # NoRide
    BY <1>1, <2>1, <2>2, <2>3, AtRest DEF Gone, SameRide, Quiet
  <2>4. CASE ride = NoRide
    BY <1>1, <2>1, <2>2, <2>4 DEF Gone
  <2> QED
    BY <1>1, <2>3, <2>4
<1> QED
  BY <1>3, <1>5, <1>6

LEMMA HashExpiresStep ==
  ASSUME CopiesInv, HashExpires
  PROVE  CopiesInv'
<1> USE DEF CopiesInv
<1>1. /\ ride # NoRide /\ Quiet /\ queued = {} /\ ride' = NoRide
      /\ UNCHANGED <<mongo, writes, actor, jobVars, running, toldVars, rebuilder,
                     mishaps, spoilt, ended>>
  BY DEF HashExpires
<1>2. TypeOK'
  BY <1>1, RidesAreSome DEF TypeOK, jobVars, toldVars
<1>3. Known' \subseteq Known
  BY <1>1 DEF Seen, Known
<1>4. Sane'
  BY <1>1, <1>3 DEF Sane
<1>5. ASSUME ~spoilt' PROVE Gone'
  BY <1>1, <1>5, AtRest DEF Gone, SameRide, Quiet, jobVars, toldVars
<1> QED
  BY <1>1, <1>2, <1>4, <1>5

\* A step of a rebuild that only looks.
LEMMA LookStep ==
  ASSUME CopiesInv, NEW b \in Rebuilders, NEW n \in RebuilderType,
         rebuilder' = [rebuilder EXCEPT ![b] = n],
         n.copy # NoRide => n.copy \in Known,
         n.pc # "idle" => n.copy # NoRide /\ ~Ended(n.copy.status),
         UNCHANGED <<ride, mongo, writes, actor, jobVars, running, toldVars,
                     mishaps, spoilt, ended>>
  PROVE  CopiesInv'
<1> USE DEF CopiesInv
<1>1. /\ rebuilder' \in [Rebuilders -> RebuilderType] /\ rebuilder'[b] = n
      /\ \A c \in Rebuilders : c # b => rebuilder'[c] = rebuilder[c]
  BY TypeFacts, OneReplaced
<1>2. TypeOK'
  BY <1>1 DEF TypeOK, RebuilderType, jobVars, toldVars
<1>3. Seen' = Seen /\ Known' \subseteq Known
  BY <1>1 DEF Seen, Known
<1>4. Sane'
  BY <1>1, <1>3 DEF Sane
<1>5. Alive => Alive'
  BY <1>3 DEF Alive, Ordered, MongoKnown, JobsReadLater, Coming, FinishedSaved, SameRide,
              Telling, MarksTold, Publishing, jobVars, toldVars
<1>6. Gone => Gone'
  BY DEF Gone, Quiet, jobVars, toldVars
<1> QED
  BY <1>2, <1>4, <1>5, <1>6

LEMMA FindStep ==
  ASSUME CopiesInv, NEW b \in Rebuilders, Find(b)
  PROVE  CopiesInv'
<1> DEFINE n == [pc |-> "check", copy |-> mongo]
<1>1. /\ n \in RebuilderType /\ n.pc = "check" /\ n.copy = mongo
      /\ mongo # NoRide /\ ~Ended(mongo.status) /\ mongo \in Known
  BY KnownFacts DEF CopiesInv, Find, TypeOK, RebuilderType
<1>2. rebuilder' = [rebuilder EXCEPT ![b] = n]
  BY DEF Find
<1> HIDE DEF n
<1> QED
  BY <1>1, <1>2, LookStep DEF Find

LEMMA CheckStep ==
  ASSUME CopiesInv, NEW b \in Rebuilders, Check(b)
  PROVE  CopiesInv'
<1> DEFINE n == IF ride = NoRide THEN [rebuilder[b] EXCEPT !.pc = "write"]
                                 ELSE Resting
<1>1. /\ rebuilder[b].pc = "check" /\ rebuilder[b] \in RebuilderType
      /\ rebuilder[b].copy # NoRide /\ ~Ended(rebuilder[b].copy.status)
      /\ rebuilder[b].copy \in Known
  BY TypeFacts, KnownFacts DEF CopiesInv, Check, Sane
<1>2. /\ n \in RebuilderType
      /\ n = Resting \/ n.copy = rebuilder[b].copy
      /\ Resting.copy = NoRide /\ Resting.pc = "idle"
  BY <1>1, RidesAreSome DEF Resting, RebuilderType
<1>3. rebuilder' = [rebuilder EXCEPT ![b] = n]
  BY DEF Check
<1> HIDE DEF n
<1> QED
  BY <1>1, <1>2, <1>3, LookStep DEF Check

LEMMA RebuildStep ==
  ASSUME CopiesInv, NEW b \in Rebuilders, Rebuild(b)
  PROVE  CopiesInv'
<1> DEFINE copy == rebuilder[b].copy
           new == [copy EXCEPT !.version = 1]
<1> USE DEF CopiesInv
<1>1. /\ rebuilder[b].pc = "write" /\ copy # NoRide /\ copy \in SomeRide
      /\ ~Ended(copy.status) /\ copy \in Known
  BY TypeFacts, KnownFacts DEF Rebuild, Sane
<1>2. /\ copy \in RideType /\ copy.at \in Nat /\ copy.at <= writes
      /\ writes \in Nat /\ writes >= 1
  BY <1>1, OneRide, KnownFacts
<1>3. /\ new \in RideType /\ new # NoRide /\ new \in SomeRide
      /\ new.status = copy.status /\ new.version = 1 /\ new.at = copy.at
  BY <1>2, RidesAreSome, BoundsAssumption DEF RideType, Versions
<1>4. /\ ride' = new
      /\ rebuilder' = [rebuilder EXCEPT ![b] = Resting]
      /\ UNCHANGED <<mongo, writes, actor, jobVars, running, toldVars, mishaps,
                     ended>>
  BY DEF Rebuild, Rebuilt
<1>5. spoilt' = (spoilt \/ ride # NoRide \/ ~Quiet \/ mongo # copy
                        \/ \E v \in marks \union finished \union queued : v > 1)
  BY DEF Rebuild
<1> HIDE DEF new, copy
<1>6. /\ Resting \in RebuilderType /\ Resting.copy = NoRide /\ Resting.pc = "idle"
      /\ rebuilder' \in [Rebuilders -> RebuilderType] /\ rebuilder'[b] = Resting
      /\ \A c \in Rebuilders : c # b => rebuilder'[c] = rebuilder[c]
  <2>1. Resting \in RebuilderType /\ Resting.copy = NoRide /\ Resting.pc = "idle"
    BY RidesAreSome DEF Resting, RebuilderType
  <2> QED
    BY <1>4, <2>1, TypeFacts, OneReplaced
<1>7. TypeOK'
  <2>1. spoilt' \in BOOLEAN
    BY <1>5, Zenon
  <2> QED
    BY <1>3, <1>4, <1>6, <2>1 DEF TypeOK, RebuilderType, jobVars, toldVars
<1>8. Known' \subseteq Known \union {new}
  BY <1>4, <1>6 DEF Seen, Known
<1>9. Sane'
  <2>1. /\ \A x \in Known' : x.version <= writes' /\ x.at <= writes'
        /\ writes' >= 1
    BY <1>2, <1>3, <1>4, <1>8, KnownFacts, RidesAreSome
  <2> QED
    BY <1>4, <1>6, <2>1 DEF Sane
<1>10. ASSUME ~spoilt' PROVE ride' # NoRide /\ Alive'
  <2>1. /\ ~spoilt /\ ride = NoRide /\ Quiet /\ mongo = copy
        /\ \A v \in marks \union finished \union queued : ~(v > 1)
    BY <1>5, <1>10, Zenon
  <2>2. /\ Gone /\ mongo.at = writes /\ mongo.status # "NONE"
        /\ mongo.status \in told /\ ~ended /\ queued = {} /\ running = {}
        /\ \A a \in Actors : actor[a] = Idle
    BY <1>1, <2>1 DEF Gone, Quiet, Sane
  <2>3. Seen' = {new}
    BY <1>3, <1>4, <2>2, IdleActor, TypeFacts DEF Seen
  <2>4. \A v \in marks \union finished \union queued : v <= 1
    BY <2>1, BoundsAssumption DEF TypeOK, Versions
  <2>5. Ordered'
    BY <1>2, <1>3, <1>4, <2>1, <2>2, <2>3, <2>4 DEF Ordered, jobVars, toldVars
  <2>6. SameRide(mongo)'
    BY <1>1, <1>3, <1>4, <2>1 DEF SameRide
  <2>7. MongoKnown' /\ JobsReadLater' /\ Coming' /\ FinishedSaved'
    BY <1>3, <1>4, <2>1, <2>2, <2>6
       DEF MongoKnown, JobsReadLater, Coming, FinishedSaved
  <2>8. Telling' /\ MarksTold'
    BY <1>3, <1>4, <2>1, <2>2, IdleActor DEF Telling, MarksTold, toldVars
  <2> QED
    BY <1>3, <1>4, <2>2, <2>5, <2>6, <2>7, <2>8 DEF Alive
<1> QED
  BY <1>7, <1>9, <1>10

-----------------------------------------------------------------------------
\* All steps, and the theorems.

LEMMA EveryStep ==
  ASSUME CopiesInv, [Next]_vars
  PROVE  CopiesInv'
<1>1. ASSUME NEW op \in RideStatuses \union {"BATCH"}, Read(op) \/ GoOn(op)
      PROVE  CopiesInv'
  BY <1>1, ReadStep, GoOnStep
<1>2. CASE Write
  BY <1>2, WriteStep
<1>3. CASE Accept
  BY <1>3, AcceptStep
<1>4. ASSUME NEW a \in Actors, Announce(a) \/ Die(a) PROVE CopiesInv'
  BY <1>4, RereadStep, SyncStep, MarkStep, PublishStep, DieStep DEF Announce
<1>5. CASE \E v \in queued : Take(v)
  BY <1>5, TakeStep
<1>6. CASE \E j \in running : Upsert(j) \/ AttemptFails(j)
  BY <1>6, UpsertStep, AttemptFailsStep
<1>7. CASE LoseRedis \/ HashExpires
  BY <1>7, LoseRedisStep, HashExpiresStep
<1>8. ASSUME NEW b \in Rebuilders, Find(b) \/ Check(b) \/ Rebuild(b)
      PROVE  CopiesInv'
  BY <1>8, FindStep, CheckStep, RebuildStep
<1>9. CASE UNCHANGED vars
  <2>1. Seen' = Seen /\ Known' = Known
    BY <1>9 DEF vars, Seen, Known
  <2>2. TypeOK'
    BY <1>9 DEF CopiesInv, TypeOK, vars, jobVars, toldVars
  <2>3. Sane'
    BY <1>9, <2>1 DEF CopiesInv, Sane, vars
  <2>4. Alive => Alive'
    BY <1>9, <2>1 DEF Alive, Ordered, MongoKnown, JobsReadLater, Coming, FinishedSaved,
                      SameRide, Telling, MarksTold, Publishing, vars, jobVars, toldVars
  <2>5. Gone => Gone'
    BY <1>9 DEF Gone, Quiet, vars, jobVars, toldVars
  <2> QED
    BY <1>9, <2>2, <2>3, <2>4, <2>5 DEF CopiesInv, vars
<1> QED
  BY <1>1, <1>2, <1>3, <1>4, <1>5, <1>6, <1>7, <1>8, <1>9 DEF Next

LEMMA Invariant == Spec => []CopiesInv
BY FirstState, EveryStep, PTL DEF Spec

\* Every variable of RideCopies has its type: in particular no job id or dedupe
\* key names a version beyond the bound on writes.
THEOREM TypeCorrect == Spec => []TypeOK
<1>1. CopiesInv => TypeOK
  BY DEF CopiesInv
<1> QED
  BY <1>1, Invariant, PTL

\* What changes a ride's hash here is what the contract with the handlers
\* (RideWrites, which RideDispatch implements) lets them write, and a write goes
\* by the status its handler read: dispatchUnderLock, transitionRide and the
\* accept script.  The hash coming and going is not theirs.
THEOREM CopiesFollowTheContract == Spec => WritesAsAgreed
<1>1. ASSUME CopiesInv, Next, ride # NoRide, ride' # NoRide,
             ~\E b \in Rebuilders : Rebuild(b)
      PROVE  Writers!Next \/ UNCHANGED Writers!vars
  <2> DEFINE r == "ride"
             now == [status |-> ride.status, version |-> ride.version]
  <2>1. /\ TypeOK /\ Sane
        /\ actor \in [Actors -> ActorType] /\ "holder" \in Actors
        /\ actor["holder"] \in ActorType
    BY <1>1, TypeFacts DEF CopiesInv
  <2>2. /\ HashNow = [x \in {r} |-> now]
        /\ \A x \in {r} : HashNow[x] = now
    BY <1>1 DEF HashNow, StatusAndVersion
  <2>3. CASE UNCHANGED <<ride, actor["holder"]>>
    BY <2>3 DEF Writers!vars, HashNow, HeldNow
  <2>4. CASE ride' = ride /\ actor'["holder"].pc = "write"
                          /\ actor'["holder"].snap = ride
    <3>1. HeldNow' = [HeldNow EXCEPT ![r] = now] /\ HashNow' = HashNow
      BY <1>1, <2>4 DEF HeldNow, HashNow, StatusAndVersion
    <3>2. Writers!Read(r)
      BY <2>2, <3>1 DEF Writers!Read
    <3> QED
      BY <3>2 DEF Writers!Next
  <2>5. CASE ride' = ride /\ actor'["holder"].pc # "write"
    <3>1. HeldNow' = [HeldNow EXCEPT ![r] = Writers!Nothing] /\ HashNow' = HashNow
      BY <2>5 DEF HeldNow, HashNow, Writers!Nothing
    <3>2. Writers!Read(r)
      BY <2>2, <3>1 DEF Writers!Read
    <3> QED
      BY <3>2 DEF Writers!Next
  <2>6. CASE Write
    <3> DEFINE h == actor["holder"]
               new == [status |-> IF h.op = "BATCH" THEN now.status ELSE h.op,
                       version |-> h.snap.version + 1]
    <3>1. /\ h.pc = "write" /\ h.op \in Operations(h.snap.status)
          /\ h.op \in RideStatuses \union {"BATCH"} /\ h \in ActorType
      BY <2>6, <2>1, Vocabulary DEF Write, Sane
    <3>2. actor'["holder"].pc = "reread"
      BY <2>6, <2>1, <3>1 DEF Write, ActorType
    <3>3. ride'.status = StatusAfter(h.op) /\ ride'.version = h.snap.version + 1
      BY <2>6 DEF Write
    <3>4. HashNow' = [HashNow EXCEPT ![r] = new]
      BY <1>1, <3>3 DEF HashNow, StatusAndVersion, StatusAfter
    <3>5. HeldNow' = [HeldNow EXCEPT ![r] = Writers!Nothing]
      BY <3>2 DEF HeldNow, Writers!Nothing
    <3>6. HeldNow[r] = [status |-> h.snap.status, version |-> h.snap.version]
      BY <3>1 DEF HeldNow, StatusAndVersion
    <3>7. Writers!Operations(HeldNow[r].status) = Operations(h.snap.status)
      BY <3>6 DEF Writers!Operations, Operations, Writers!RideStatuses, RideStatuses,
                  Writers!RideTransitions, RideTransitions
    <3>8. PICK op \in RideStatuses \union {"BATCH"} : op = h.op
      BY <3>1
    <3>9. /\ HashNow[r].status = now.status
          /\ HeldNow[r].version = h.snap.version
      BY <2>2, <3>6
    <3>10. op \in Writers!Operations(HeldNow[r].status)
      BY <3>1, <3>7, <3>8
    <3>11. HashNow' = [HashNow EXCEPT ![r] =
              [status |-> IF op = "BATCH" THEN HashNow[r].status ELSE op,
               version |-> HeldNow[r].version + 1]]
      BY <3>4, <3>8, <3>9
    <3> HIDE DEF h, new, now
    <3>12. Writers!Write(r, op)
      BY <3>5, <3>10, <3>11 DEF Writers!Write, Writers!Becomes
    <3> QED
      BY <3>12 DEF Writers!Next, Writers!RideStatuses, RideStatuses
  <2>7. CASE Accept
    <3>1. /\ ride.status = "DISPATCHING"
          /\ ride'.status = "ACCEPTED" /\ ride'.version = ride.version + 1
          /\ actor'["holder"] = actor["holder"]
      BY <2>7, <2>1 DEF Accept
    <3>2. HashNow' = [HashNow EXCEPT
                        ![r] = [status |-> "ACCEPTED", version |-> now.version + 1]]
      BY <3>1 DEF HashNow, StatusAndVersion
    <3>3. HeldNow' = [HeldNow EXCEPT ![r] = HeldNow[r]]
      BY <3>1 DEF HeldNow
    <3>4. Writers!Accept(r)
      BY <2>2, <3>1, <3>2, <3>3 DEF Writers!Accept, Writers!Becomes
    <3> QED
      BY <3>4 DEF Writers!Next
  <2>8. ASSUME NEW op, Read(op) \/ GoOn(op)
        PROVE  ride' = ride /\ actor'["holder"].pc = "write"
                            /\ actor'["holder"].snap = ride
    BY <2>8, <2>1 DEF Read, GoOn
  <2>9. ASSUME NEW a \in Actors, Announce(a) \/ Die(a)
        PROVE  /\ ride' = ride
               /\ actor'["holder"] = actor["holder"] \/ actor'["holder"].pc # "write"
    <3>1. actor \in [Actors -> ActorType] /\ ride' = ride
      BY <2>9, <2>1 DEF Announce, Reread, Sync, Mark, Publish, Die
    <3>2. CASE a # "holder"
      BY <2>9, <2>1, <3>1, <3>2 DEF Announce, Reread, Sync, Mark, Publish, Die
    <3>3. CASE a = "holder"
      <4>1. CASE Reread(a)
        BY <2>1, <3>3, <4>1 DEF Reread, Idle, ActorType
      <4>2. CASE Sync(a)
        BY <2>1, <3>3, <4>2 DEF Sync, Idle, ActorType
      <4>3. CASE Mark(a)
        BY <2>1, <3>3, <4>3 DEF Mark, Idle, ActorType
      <4>4. CASE Publish(a) \/ Die(a)
        BY <2>1, <3>3, <4>4 DEF Publish, Die, Idle
      <4> QED
        BY <2>9, <3>1, <4>1, <4>2, <4>3, <4>4 DEF Announce
    <3> QED
      BY <3>1, <3>2, <3>3
  <2>10. ASSUME \/ \E v \in queued : Take(v)
                \/ \E j \in running : Upsert(j) \/ AttemptFails(j)
                \/ \E b \in Rebuilders : Find(b) \/ Check(b)
         PROVE  UNCHANGED <<ride, actor["holder"]>>
    BY <2>10 DEF Take, Upsert, AttemptFails, Find, Check
  <2>11. CASE LoseRedis \/ HashExpires
    BY <1>1, <2>11 DEF LoseRedis, HashExpires
  <2>12. CASE \E op : Read(op) \/ GoOn(op)
    BY <2>4, <2>8, <2>12
  <2>13. CASE \E a \in Actors : Announce(a) \/ Die(a)
    BY <2>3, <2>5, <2>9, <2>13
  <2> HIDE DEF now, r
  <2>14. CASE \E v \in queued : Take(v)
    BY <2>3, <2>10, <2>14
  <2>15. CASE \E j \in running : Upsert(j) \/ AttemptFails(j)
    BY <2>3, <2>10, <2>15
  <2>16. ASSUME NEW b \in Rebuilders, Find(b) \/ Check(b) \/ Rebuild(b)
         PROVE  Writers!Next \/ UNCHANGED Writers!vars
    BY <1>1, <2>3, <2>10, <2>16
  <2> QED
    BY <1>1, <2>6, <2>7, <2>11, <2>12, <2>13, <2>14, <2>15, <2>16, Zenon DEF Next
<1> QED
  BY <1>1, Invariant, PTL DEF Spec, WritesAsAgreed

\* When no handler and no job is under way and no job waits, Mongo holds the
\* ride as the hash has it, unless one of the named things happened: job ids
\* that are versions (enqueueRidePersistence) lose no write.
THEOREM MongoGetsTheRide == Spec => []MongoCatchesUp
<1>1. CopiesInv => MongoCatchesUp
  BY AtRest DEF MongoCatchesUp
<1> QED
  BY <1>1, Invariant, PTL

\* When no handler is under way the customer has been told the ride's status,
\* unless one of the named things happened: dedupe keys that are versions
\* (publishRideStatus) drop no status.
THEOREM CustomerIsTold == Spec => []StatusIsTold
<1>1. CopiesInv => StatusIsTold
  BY AtRest DEF StatusIsTold
<1> QED
  BY <1>1, Invariant, PTL

\* A ride that was completed or cancelled is not brought back by an expiry, a
\* loss of Redis or a server that rebuilds it (rebuildRedisStateFromMongo),
\* unless one of the named things happened.
THEOREM EndIsFinal == Spec => []EndedStaysEnded
<1>1. CopiesInv => EndedStaysEnded
  BY AtRest DEF EndedStaysEnded
<1> QED
  BY <1>1, Invariant, PTL

=============================================================================
