----------------------------- MODULE RideCopies -----------------------------
(***************************************************************************)
(* The copies of a ride: the hash in Redis, which the handlers and the     *)
(* accept script write, the document in Mongo, which the persistence       *)
(* worker fills from the hash, what the customer has been told, and the    *)
(* hash a starting server rebuilds from Mongo.                             *)
(*                                                                         *)
(* A handler that changed the ride reads it back, queues a sync job named  *)
(* after the version it read, and announces the status under a dedupe key  *)
(* with that version.  A worker reads the hash and later upserts Mongo,    *)
(* whatever Mongo then holds: nothing orders two workers.                  *)
(***************************************************************************)
EXTENDS Naturals, FiniteSets

INSTANCE RideStatus WITH Rides <- {}, Drivers <- {}, NoDriver <- 0

CONSTANTS
    Concurrency,    \* sync jobs that run at a time
    Rebuilders,     \* processes that may rebuild Redis: servers, the worker
    NoRide,         \* no hash, no document, nothing read
    MaxWrites,      \* bound: writes of the ride
    Mishaps         \* bound: deaths, failed attempts of a job, losses of Redis

ASSUME BoundsAssumption ==
    MaxWrites \in Nat \ {0} /\ Concurrency \in Nat /\ Mishaps \in Nat

Versions == 1..MaxWrites
Statuses == RideStatuses \union {"NONE"}
RideType == [status : Statuses, version : Versions, at : Versions]

ASSUME NoRideAssumption == NoRide \notin RideType

VARIABLES
    ride,       \* the hash, with (history) the number of the write it is from
    mongo,      \* the document; of the version, which it lacks, only history
    writes,     \* (history) writes so far
    actor,      \* actor[a]: the handler with the ride lock; the acceptRide
    queued,     \* versions whose sync job waits
    finished,   \* versions whose finished job the queue still keeps
    running,    \* jobs being done, with the hash they read
    marks,      \* versions whose ride-status dedupe key is set
    told,       \* statuses published to the customer
    rebuilder,  \* rebuilder[b]: how far a rebuild is, and what it found
    mishaps,    \* deaths, failures and losses so far
    spoilt,     \* (history) something happened that the promises except
    ended       \* (history) the ride has been completed or cancelled

jobVars   == <<queued, finished>>
toldVars  == <<marks, told>>
vars == <<ride, mongo, writes, actor, queued, finished, running, marks,
          told, rebuilder, mishaps, spoilt, ended>>

Actors == {"holder", "accept"}
Idle   == [pc |-> "idle", op |-> "NONE", snap |-> NoRide]
Resting == [pc |-> "idle", copy |-> NoRide]

\* A hash without a status is no ride to getRide, but it exists.
Found == ride # NoRide /\ ride.status # "NONE"
Ended(s) == s \in TerminalRideStatuses

\* requestRide has written the ride, queued its sync and told the customer.
Init ==
    /\ ride = [status |-> "REQUESTED", version |-> 1, at |-> 1]
    /\ mongo = NoRide
    /\ writes = 1
    /\ actor = [a \in Actors |-> Idle]
    /\ queued = {1} /\ finished = {}
    /\ running = {}
    /\ marks = {} /\ told = {"REQUESTED"}
    /\ rebuilder = [b \in Rebuilders |-> Resting]
    /\ mishaps = 0
    /\ spoilt = FALSE /\ ended = FALSE

-----------------------------------------------------------------------------
\* Writing the ride.

\* No write begins that could be one too many.
WithinBounds ==
    writes + (IF actor["holder"].pc = "write" THEN 1 ELSE 0) < MaxWrites

Read(op) ==
    /\ actor["holder"].pc = "idle"
    /\ WithinBounds
    /\ Found /\ op \in Operations(ride.status)
    /\ op = "BATCH" => ride.status = "DISPATCHING"
    /\ actor' = [actor EXCEPT !["holder"] =
                    [pc |-> "write", op |-> op, snap |-> ride]]
    /\ UNCHANGED <<ride, mongo, writes, jobVars, running, toldVars, rebuilder,
                   mishaps, spoilt, ended>>

\* The status field after a write of op: HSET of some fields leaves the others.
\* Mutant: the update of a batch also writes the status.
StatusOfSearch(op) == IF op # "BATCH" THEN op ELSE "DISPATCHING"
StatusAfter(op) ==
    IF op # "BATCH" THEN op ELSE IF ride = NoRide THEN "NONE" ELSE ride.status

\* A search closes its lapsed batch, reads the ride again and goes on from
\* there: neither a sync nor an announcement belongs to the first write.
GoOn(op) ==
    /\ actor["holder"].pc = "reread" /\ actor["holder"].op = "BATCH"
    /\ WithinBounds
    /\ Found /\ op \in Operations(ride.status) \intersect {"BATCH", "CANCELLED"}
    /\ actor' = [actor EXCEPT !["holder"] =
                    [pc |-> "write", op |-> op, snap |-> ride]]
    /\ UNCHANGED <<ride, mongo, writes, jobVars, running, toldVars, rebuilder,
                   mishaps, spoilt, ended>>

\* The version comes from the snapshot: after an accept in between two writes
\* share it, which spoils the names of jobs and dedupe keys.
Write ==
    LET h == actor["holder"] IN
    /\ h.pc = "write"
    /\ ride' = [status |-> StatusAfter(h.op), version |-> h.snap.version + 1,
                at |-> writes + 1]
    /\ writes' = writes + 1
    /\ spoilt' = (spoilt \/ ride = NoRide \/ ride # h.snap)
    /\ ended' = (ended \/ Ended(h.op))
    /\ actor' = [actor EXCEPT !["holder"].pc = "reread"]
    /\ UNCHANGED <<mongo, jobVars, running, toldVars, rebuilder, mishaps>>

\* The accept script takes no lock and increments the version where it is.
Accept ==
    /\ actor["accept"].pc = "idle"
    /\ WithinBounds
    /\ Found /\ ride.status = "DISPATCHING"
    /\ ride' = [status |-> "ACCEPTED", version |-> ride.version + 1,
                at |-> writes + 1]
    /\ writes' = writes + 1
    /\ actor' = [actor EXCEPT !["accept"] =
                    [pc |-> "reread", op |-> "ACCEPTED", snap |-> NoRide]]
    /\ UNCHANGED <<mongo, jobVars, running, toldVars, rebuilder, mishaps,
                   spoilt, ended>>

-----------------------------------------------------------------------------
\* After the write: read back, queue the sync, announce.

\* The ride the announcement is about.  Mutant: what was read before the write.
AnnouncedBefore(a) == IF actor[a].snap = NoRide THEN ride ELSE actor[a].snap
Announced(a) == ride

Reread(a) ==
    /\ actor[a].pc = "reread"
    /\ actor' = [actor EXCEPT ![a] =
                    IF Found THEN [@ EXCEPT !.pc = "sync", !.snap = Announced(a)]
                             ELSE Idle]           \* the handler throws
    /\ UNCHANGED <<ride, mongo, writes, jobVars, running, toldVars, rebuilder,
                   mishaps, spoilt, ended>>

\* The versions whose jobs the queue knows: an id it knows is not added again,
\* but a finished job may have been pushed out by those of other rides.
Running == {j.job : j \in running}

Enqueue(v) ==
    \/ /\ v \notin Running \union queued
       /\ queued' = queued \union {v}
       /\ finished' = finished \ {v}
    \/ /\ v \in Running \union queued \union finished
       /\ UNCHANGED jobVars

Sync(a) ==
    /\ actor[a].pc = "sync"
    /\ Enqueue(actor[a].snap.version)
    /\ actor' = [actor EXCEPT ![a] =
                    IF @.op = "BATCH" THEN Idle ELSE [@ EXCEPT !.pc = "mark"]]
    /\ UNCHANGED <<ride, mongo, writes, running, toldVars, rebuilder, mishaps,
                   spoilt, ended>>

\* The dedupe key names the ride and the version.  Mutant: the ride alone.
DedupeRide(v) == 0
DedupeKey(v) == v

\* publish sets the dedupe key before it publishes.
Mark(a) ==
    LET k == DedupeKey(actor[a].snap.version) IN
    /\ actor[a].pc = "mark"
    /\ marks' = marks \union {k}
    /\ actor' = [actor EXCEPT ![a] =
                    IF k \in marks THEN Idle ELSE [@ EXCEPT !.pc = "publish"]]
    /\ UNCHANGED <<ride, mongo, writes, jobVars, running, told, rebuilder,
                   mishaps, spoilt, ended>>

Publish(a) ==
    /\ actor[a].pc = "publish"
    /\ told' = told \union {actor[a].snap.status}
    /\ actor' = [actor EXCEPT ![a] = Idle]
    /\ UNCHANGED <<ride, mongo, writes, jobVars, running, marks, rebuilder,
                   mishaps, spoilt, ended>>

\* The process dies, or a call fails and the handler throws: what was to
\* follow is not done by anybody.
Die(a) ==
    /\ mishaps < Mishaps
    /\ actor[a].pc # "idle"
    /\ mishaps' = mishaps + 1
    /\ spoilt' = TRUE
    /\ actor' = [actor EXCEPT ![a] = Idle]
    /\ UNCHANGED <<ride, mongo, writes, jobVars, running, toldVars, rebuilder,
                   ended>>

-----------------------------------------------------------------------------
\* The persistence worker.

Take(v) ==
    /\ Cardinality(running) < Concurrency
    /\ v \in queued
    /\ queued' = queued \ {v}
    /\ running' = running \union
                    {[job |-> v, copy |-> IF Found THEN ride ELSE NoRide]}
    /\ UNCHANGED <<ride, mongo, writes, actor, finished, toldVars, rebuilder,
                   mishaps, spoilt, ended>>

\* Mutant: a document that exists is left as it is.
InsertOnly(copy) == IF copy = NoRide \/ mongo # NoRide THEN mongo ELSE copy
Upserted(copy) == IF copy = NoRide THEN mongo ELSE copy

\* An upsert of what was read, though a later job may have written since.
Overtakes(copy) == copy # NoRide /\ mongo # NoRide /\ copy.at < mongo.at

Upsert(j) ==
    /\ mongo' = Upserted(j.copy)
    /\ spoilt' = (spoilt \/ Overtakes(j.copy))
    /\ finished' = finished \union ({j.job} \ {0})
    /\ running' = running \ {j}
    /\ UNCHANGED <<ride, writes, actor, queued, toldVars, rebuilder, mishaps,
                   ended>>

\* Jobs that wait once an attempt has failed.  Mutant: attempts: 1.
NotRetried(j) == queued
Retried(j) == queued \union ({j.job} \ {0})

\* The attempt fails or its process dies: the job is tried again.
AttemptFails(j) ==
    /\ mishaps < Mishaps
    /\ mishaps' = mishaps + 1
    /\ queued' = Retried(j)
    /\ running' = running \ {j}
    /\ UNCHANGED <<ride, mongo, writes, actor, finished, toldVars, rebuilder,
                   spoilt, ended>>

-----------------------------------------------------------------------------
\* Loss, expiry and rebuild.

Quiet ==
    /\ \A a \in Actors : actor[a].pc = "idle"
    /\ running = {}

SameRide(copy) == copy # NoRide /\ ride # NoRide /\ copy.at = ride.at

\* Redis comes back empty.  The promises except a loss in the middle of
\* something, or before Mongo has the ride.
LoseRedis ==
    /\ mishaps < Mishaps
    /\ mishaps' = mishaps + 1
    /\ ride' = NoRide
    /\ queued' = {} /\ finished' = {}
    /\ marks' = {}
    /\ running' = {[j EXCEPT !.job = 0] : j \in running}
    /\ spoilt' = (spoilt \/ ~Quiet \/ (ride # NoRide /\ ~SameRide(mongo)))
    /\ UNCHANGED <<mongo, writes, actor, told, rebuilder, ended>>

\* The hash's TTL (an hour after the end, six without a write) is long past
\* any job.
HashExpires ==
    /\ ride # NoRide
    /\ Quiet /\ queued = {}
    /\ ride' = NoRide
    /\ UNCHANGED <<mongo, writes, actor, jobVars, running, toldVars, rebuilder,
                   mishaps, spoilt, ended>>

\* rebuildRedisStateFromMongo: find what is not over, skip what has a hash,
\* write the rest.
Find(b) ==
    /\ rebuilder[b].pc = "idle"
    /\ mongo # NoRide /\ ~Ended(mongo.status)
    /\ rebuilder' = [rebuilder EXCEPT ![b] = [pc |-> "check", copy |-> mongo]]
    /\ UNCHANGED <<ride, mongo, writes, actor, jobVars, running, toldVars,
                   mishaps, spoilt, ended>>

Check(b) ==
    /\ rebuilder[b].pc = "check"
    /\ rebuilder' = [rebuilder EXCEPT ![b] =
                        IF ride = NoRide THEN [@ EXCEPT !.pc = "write"]
                                         ELSE Resting]
    /\ UNCHANGED <<ride, mongo, writes, actor, jobVars, running, toldVars,
                   mishaps, spoilt, ended>>

\* The version starts again at 1.  Mutant: it is left out, and reads as 0.
RebuiltZero(copy) == [copy EXCEPT !.version = 0]
Rebuilt(copy) == [copy EXCEPT !.version = 1]

\* The promises except a rebuild next to something under way, over a hash that
\* appeared since the look, from a document that changed, or with versions whose
\* job ids or dedupe keys are still around (the hash expired, Redis was not
\* lost).
Rebuild(b) ==
    /\ rebuilder[b].pc = "write"
    /\ ride' = Rebuilt(rebuilder[b].copy)
    /\ spoilt' = (spoilt \/ ride # NoRide \/ ~Quiet \/ mongo # rebuilder[b].copy
                         \/ \E v \in marks \union finished \union queued : v > 1)
    /\ rebuilder' = [rebuilder EXCEPT ![b] = Resting]
    /\ UNCHANGED <<mongo, writes, actor, jobVars, running, toldVars, mishaps,
                   ended>>

-----------------------------------------------------------------------------

Announce(a) == Reread(a) \/ Sync(a) \/ Mark(a) \/ Publish(a)

Next ==
    \/ \E op \in RideStatuses \union {"BATCH"} : Read(op) \/ GoOn(op)
    \/ Write
    \/ Accept
    \/ \E a \in Actors : Announce(a) \/ Die(a)
    \/ \E v \in queued : Take(v)
    \/ \E j \in running : Upsert(j) \/ AttemptFails(j)
    \/ LoseRedis \/ HashExpires
    \/ \E b \in Rebuilders : Find(b) \/ Check(b) \/ Rebuild(b)

Spec == Init /\ [][Next]_vars

\* Handlers, and workers with a job, go on.
FairSpec ==
    /\ Spec
    /\ WF_vars(Write)
    /\ \A a \in Actors : WF_vars(Announce(a))
    /\ WF_vars(\E v \in queued : Take(v))
    /\ WF_vars(\E j \in running : Upsert(j))

-----------------------------------------------------------------------------
SomeRide == RideType \union {NoRide}

\* Every variable has its type.
TypeOK ==
    /\ ride \in SomeRide /\ mongo \in SomeRide
    /\ writes \in 0..MaxWrites
    /\ actor \in [Actors -> [pc : {"idle", "write", "reread", "sync", "mark", "publish"},
                             op : Statuses \union {"BATCH"}, snap : SomeRide]]
    /\ queued \subseteq Versions /\ finished \subseteq Versions
    /\ running \subseteq [job : 0..MaxWrites, copy : SomeRide]
    /\ marks \subseteq Versions /\ told \subseteq Statuses
    /\ rebuilder \in [Rebuilders -> [pc : {"idle", "check", "write"}, copy : SomeRide]]
    /\ mishaps \in 0..Mishaps /\ spoilt \in BOOLEAN /\ ended \in BOOLEAN

StatusAndVersion(x) == [status |-> x.status, version |-> x.version]

\* The hash, and what the holder of the lock is about to write by.
HashNow == [r \in {"ride"} |-> StatusAndVersion(ride)]
HeldNow == [r \in {"ride"} |->
    IF actor["holder"].pc = "write" THEN StatusAndVersion(actor["holder"].snap)
                                    ELSE [status |-> "NONE", version |-> 0]]

Writers == INSTANCE RideWrites
    WITH Rides <- {"ride"}, Drivers <- {}, NoDriver <- 0,
         ride <- HashNow, snap <- HeldNow

\* While the hash is there it is written as the handlers write it, by the
\* status one of them has read of it: also when a driver accepts while a lapsed
\* batch is being closed, and the search goes on with an accepted ride.
WritesAsAgreed ==
    [][ride # NoRide /\ ride' # NoRide /\ ~(\E b \in Rebuilders : Rebuild(b))
        => Writers!Next \/ UNCHANGED Writers!vars]_vars

\* When nothing is under way, Mongo has the ride as Redis has it: although the
\* id of a sync job is the version its handler read back, and a known id is
\* dropped, no write is left out, unless one of the named things happened.
MongoCatchesUp ==
    Quiet /\ queued = {} /\ ~spoilt /\ ride # NoRide => SameRide(mongo)

\* And the customer has been told the ride's status: the dedupe key drops only
\* what another handler announces.
StatusIsTold ==
    (\A a \in Actors : actor[a].pc = "idle") /\ ~spoilt /\ ride # NoRide
        => ride.status \in told

\* A ride that ended does not come back, whatever servers start and whenever
\* the hash expires or Redis is lost, unless one of the named things happened.
EndedStaysEnded ==
    ended /\ ~spoilt /\ ride # NoRide => Ended(ride.status)

\* The end of a ride reaches Mongo, although jobs fail and are tried again.
EndIsSaved ==
    Found /\ Ended(ride.status) ~>
        spoilt \/ (mongo # NoRide /\ Ended(mongo.status))

=============================================================================
