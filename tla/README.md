# YatriGo backend: TLA+ models, checks and proofs

YatriGo is a ride-hailing backend: a Node.js API and socket server, BullMQ workers, Redis
as the state of everything that is going on, MongoDB as a copy of it. Any number of server
and worker processes run the same services against one Redis. What keeps them apart is a
lock per ride, a lock per driver, a lock per customer, a reservation key per driver, and
one Lua script, the one that accepts a ride, which takes none of those locks.

This directory models the parts of the program where that matters: the dispatch of rides to
drivers, the realtime state of drivers, the jobs that keep dispatch going, a customer's
requests, the copies of a ride in Redis and Mongo, and the way a change reaches the customer's
connection. Paths below are relative to the repository; the
source files are in `src/`.

## The system

| Component | State it keeps | Operations | Interacts by |
|---|---|---|---|
| Ride state, `services/ride-state.service.js` | `ride:{id}:active`, `:timeline`, `customer:{id}:activeRide`, `rides:active` | requestRide, transitionRide (cancel, arriving, start, complete), cleanupTerminalRideKeys, releaseDriverAvailability | ride and customer locks; enqueues dispatch and persistence jobs |
| Dispatch, `services/dispatch.service.js` | `ride:{id}:notified`, `:responses`, `driver:{id}:dispatches`, `:reservation` | startDispatch, handleBatchTimeout, handleDriverRejection, acceptRide | ride lock, except acceptRide; reads driver state |
| Accept script, `redis/scripts.js` | none | one atomic script | writes the ride, its responses and the driver, without a lock |
| Driver state, `services/driver-state.service.js` | `driver:{id}:state`, `:heartbeat`, `:activeRide`, `drivers:online`, `:available`, `:busy`, `:geo:available` | goOnline, heartbeat, goOffline, restoreDriverSession, scanStaleDrivers, isDriverReservable, cleanupGhostAvailability | driver lock, except the last two |
| Reject cooldown, `services/driver-experience.service.js` | one key per driver | apply, look up | rejections, isDriverReservable |
| Locks, `utils/lock.js` | `lock:*` | acquire (SET NX PX), release (by token) | every service |
| Recovery, `services/recovery.service.js`, `workers/reconciliation.worker.js` | none | stale-driver scan, dispatch recovery scan, rebuild from Mongo | repeatable jobs; driver state, dispatch, queues |
| Queues and dispatch worker, `queues/`, `workers/dispatch.worker.js` | jobs, at most one per job id | enqueue, run with retries | starts dispatch, timeouts, rejections |
| Persistence, `workers/persistence.worker.js`, `models/` | Mongo documents | syncRide, syncDriver | reads Redis, upserts Mongo |
| Sockets, `socket/`, publisher, notifications | idempotency and acknowledgement keys | inbound events, fan-out by pub/sub | calls the services |
| Rate limit, `services/rate-limit.service.js` | counters | enforceLimit | before requestRide and acceptRide |
| Pricing, ETA | none | arithmetic | requestRide, completeRide |
| HTTP, auth, logging, configuration | none | | calls the services |

What is hard in it:

- **A snapshot is read, time passes, and all of it is written back.** Every locked handler of
  a ride or a driver works this way. The lock keeps other locked handlers out. It does not
  keep out the accept script, the release of a driver when its ride ends or the cleaning of
  ghosts, which write the same keys.
- **One operation writes several keys in several calls.** A process can die between any two
  of them.
- **Deadlines.** A batch of offers lapses while its drivers answer, reservations and
  heartbeats lapse by TTL, timeouts run from a queue, late or twice.
- **Two rides look for drivers in the same pool.** Only the reservation keeps them from
  offering to one driver at once, and going offline deletes it.
- **Copies are written later, by others.** Sync jobs read Redis and write Mongo in two steps,
  several at a time; announcements are deduplicated by a version that two writes may share; a
  server that starts rebuilds Redis from Mongo while others work.
- **The customer's side is unreliable.** Events are delivered twice, connections drop between
  a change and its announcement, a server's subscription is interrupted, a handler outlives
  its lock.

What makes each component correct:

- ride state: the status follows the transition table; a ride has a driver exactly from
  ACCEPTED on; the driver never changes; a terminal ride stays terminal; the version grows;
- dispatch: one answer at most is recorded as ACCEPTED, that of the assigned driver; when
  nothing is under way for a ride, it is on the pending list of, and holds reservations of,
  drivers of its open batch only; a driver has one offer at a time;
- driver state: the pools are disjoint and within reach of the scan; status and active ride
  agree; a driver carries out one ride; a driver busy with a ride is released when it ends;
  a driver that fell silent leaves the pool;
- queues and recovery: every ride that looks for a driver is dispatched, offered or cancelled
  in the end, and the set of active rides forgets those that ended;
- a customer's requests: an event creates one ride, a live ride is the one the customer's
  pointer names, the counter of the rate limit ends;
- persistence: Mongo ends up with the last state, and a ride that ended does not come back;
- publisher and sockets: the customer is told the status, and a customer that is connected
  knows it, whatever was changed, sent or lost while it connected.

## Modules

| Module | What it is |
|---|---|
| `RideStatus` | The statuses and the transition table of `utils/constants.js`, and the constants all modules share |
| `RideLifecycle` | Abstract: what a ride promises, as two variables and two actions |
| `RideLifecycleProofs` | Its type correctness and three theorems |
| `RideWrites` | Abstract: who changes the status and version of a ride, and from what |
| `DriverOffers` | Abstract: how rides reserve drivers and are assigned to them |
| `RideDispatch` | Dispatch, answers, timeouts, transitions and terminal cleanup of rides, one action per Redis call |
| `RideDispatchProofs` | The inductive invariant of `RideDispatch` and six theorems |
| `RideOffersProofs` | The invariant of its offers and five more theorems |
| `DriverState` | The keys of drivers and all that writes them |
| `DriverStateProofs` | The inductive invariants of `DriverState` and seven theorems |
| `DispatchJobs` | The jobs of the dispatch queue, its worker and the recovery scan, for one ride |
| `DispatchJobsProofs` | Its inductive invariant and three theorems |
| `CustomerRides` | One customer's requests: idempotency key, rate limit, customer lock, pointer, `rides:active` |
| `CustomerRidesProofs` | Its inductive invariant and six theorems |
| `RideCopies` | One ride in Redis and in Mongo, its sync jobs, its announcements, the rebuild |
| `RideCopiesProofs` | The invariant of the copies and five theorems |
| `CustomerFeed` | How a published change reaches the customer's socket, and what it gets on connecting |
| `CustomerFeedProofs` | Its inductive invariant and four theorems |
| `MCRideDispatch` | The symmetry set of its runs |
| `MCRideCopies` | The constraint of the run `Copies` |

### RideDispatch

`ride[r]` is the hash of ride `r`; `responses`, `notified`, `pending`, `reservation` and
`cooldown` are the keys of the same names. `hold[r]` is the holder of `lock:ride:{r}`: its
position (`pc`), the operation, and the local variables of the JavaScript function it
carries over its awaits (`snap` is the `ride` it last read, `seen` the pending drivers it
found, `round` and `radius` the values captured on entry, `todo` and `chosen` the loop of
`reserveDriversForBatch`). A lock holder is idle or in one of 16 positions, and each of its
actions is one Redis command or MULTI, or some that nobody else can tell apart. `accepts` is the
set of accept requests that have read the ride (`AcceptRead`) and have not finished; the
script itself is one action (`AcceptWins`, `AcceptRefused`). Three operations go on in the
same hold of the lock, as in the code: a timeout and an exhausted rejection enter
`dispatchUnderLock` afresh (`DispatchEntry`), which checks the status; the expired batch
inside `dispatchUnderLock` goes straight on to the search, which does not.

Time is what the code compares: `lapsed[r]` is the latest batch of `r` past its deadline
(batch ids, uuids in the code, are numbered). Jobs are not kept: a dispatch, a timeout of a
lapsed batch, a rejection by any driver and any transition the table allows may start
whenever the lock is free, so late, lost and repeated jobs are among the behaviours.

The drivers' side is an environment here: `free` is the set of drivers the script would find
ONLINE and without a ride. Since the handlers of drivers write back what they read earlier
(see `DriverState`), any driver may become free at any time; one in `Droppable` may also go
offline, which deletes its reservation. A reservation lapses only when its batch has lapsed,
for `reservationTtlMs` (14 s) exceeds `responseTtlMs` (12 s) and is counted from a later
moment. The search finds any set of drivers.

### DriverState

`hash`, `activeKey`, `online`, `available` (the set and the geo index, always written
together), `busy`, `heartbeat` and `reservation` are the driver's keys. `writer[d]` is the
handler that holds `lock:driver:{d}`, with what it has read (`seen`, `key`): goOnline, goOffline
and heartbeat, which stands for restoreDriverSession as well. `release[r]` is
`releaseDriverAvailability` at the end of ride `r`, three reads and a MULTI, without a lock.
`seeker[r]` is the candidate that `isDriverReservable` and the reservation are about,
`scan` and `stale` the loop of `scanStaleDrivers`. A ride is reduced to `trip[r]`: looking
for a driver, assigned, or over.

The accept script may run between any two steps of a locked handler, as in the program. `missed`, in
the record of the handler, says that it ran after the handler had read what it goes by; when such a
handler writes, the accept is undone, and the history variable `undone` remembers the driver. The
properties about a driver's ride except these drivers and no others: `DoubleAssignment` shows what
becomes of them.

The search for a driver and the end of a ride are done under the ride's lock, so `EndRide` waits
for the seeker of the ride; `SeekerDies` is the death of the process that searches. `Failures` bounds the
deaths of writers, releases and seekers together. A search that
has begun goes on when its ride is assigned meanwhile, as in `dispatchUnderLock`.

### DispatchJobs

One ride and what keeps its dispatch going. A job is its job id: a start is named by the
ride's version and a reason, a timeout by its batch. `queued` are the jobs that wait or run,
`kept` the finished ones that BullMQ still remembers (`removeOnComplete`, `removeOnFail`), and
`Add` drops a job whose id is in either. `hold` is the holder of `lock:ride`: a job, or a
request (a rejection, or one that changes nothing), with what it read and the step it is at.
The handlers are those of `RideDispatch` without drivers, reservations and responses:
`EnterIdle`, `EnterRequested` and `EnterDispatching` are the three ways into
`dispatchUnderLock`, followed by `CloseBatch`, `SendBatch` or `ExpandSearch` or `GiveUp`, each
write apart from the `queue.add` after it. A job that finds the lock taken throws
(`TakeLocked`): a start is swallowed by the worker and is finished, a timeout is retried up to
`Attempts` times. `ScanReads` and `ScanQueues` are `recoverDispatchingRides`, with the read and
the add apart. A holder may throw at any step, or die and leave its lock to the TTL; the
request and the scan may die before they queue their job. The job of a worker that died is stalled:
it runs once more, after the lock it held is over (`NoticedLater`: `LOCK_TTL_MS` is 5 s, and BullMQ looks
for stalled jobs every 30 s).

Left out: what finished jobs do not matter for (only those the scan can queue again are in
`kept`), and the time a delay takes: a delayed job may run as soon as the holder that was there
has gone (`delayed`), that is, a handler holds the lock for less than a retry delay, a backoff
or the interval in which BullMQ finds a stalled job; a timeout waits for its deadline
(`lapsed`). The model stops when the ride is assigned, completed or cancelled.

### CustomerRides

One customer, several deliveries of its requests. `pc[q]` is the command the handler of
delivery `q` is about to send: the rate limit's `INCR` and `EXPIRE` (`enforceLimit`), the
customer lock, the reads of the pointer and of the ride it names, the MULTI of `requestRide`,
the release of the lock. A delivery comes by socket, through the gate of `socket/helpers.js`
(`ArriveBySocket`: `SET NX` of the event's key), or by HTTP, where there is none
(`ArriveByHttp`). `EndRide`, `CleanupRead` and `CleanupWrite` are the end of a ride:
the terminal write and `cleanupTerminalRideKeys`, which take the ride's lock and not the
customer's. `RemoveGhost` is the part of the recovery scan that drops ids without a hash.
`LockLapses` may take the lock from a handler that is still at work. The history variables
`lapsed`, `overlapped`, `leaked` and `expired` remember the four things the properties except.

### RideCopies

One ride: `ride` is the hash, `mongo` the document, both with the number of the write they come
from (`at`), which the program does not keep. The holder of the ride's lock reads the ride
(`Read`), writes `snap.version + 1` (`Write`), reads it back, queues a sync job named after the
version it found, sets the dedupe key of the announcement and publishes (`Reread`, `Sync`,
`Mark`, `Publish`); `acceptRide` does the last four after the script. `GoOn` is `dispatchUnderLock` after it closed a lapsed
batch: the ride it reads back, which may have been accepted, is what it goes on to write from. The worker takes a job and
reads the hash (`Take`), and later upserts (`Upsert`); attempts fail and are repeated. A known
job id is not added again, and a finished one may be forgotten at any time. `LoseRedis` empties
Redis, `HashExpires` is the TTL, and `Find`, `Check` and `Rebuild` are
`rebuildRedisStateFromMongo`, run by any number of processes.

The promises of this component are not kept by the code without exception, and `spoilt` says
when: it becomes true when

- a process dies between a write and the sync job or announcement that should follow: nobody
  repeats them;
- a handler writes over a version it did not read: an accept came in between, the two writes
  share a version, and so job ids and dedupe keys of different states coincide;
- an upsert overtakes: two sync jobs run at a time and the one that read first writes last, so
  Mongo goes back; a ride that has ended is then a running one in Mongo, and the first server
  that starts after the hash has expired brings it back to life;
- Redis is lost in the middle of something, or before Mongo has the last state;
- a rebuild writes over a hash that appeared after it looked, or starts the version at 1 again
  while job ids or dedupe keys of earlier versions are still kept, which then swallow the
  syncs and announcements of later writes.

Apart from these, `MongoCatchesUp`, `StatusIsTold`, `EndedStaysEnded` and `EndIsSaved` hold.

### CustomerFeed

`ride` and `actor` are the writers of `RideCopies` without their failures: a handler with the lock
reads the ride (`Read`), later writes the version it read plus one (`Write`), and the accept script may
run in between. (One that reads and returns without a write changes nothing, and is left out.)
`Publish` puts what the handler read back on the channel of every server (`channel`), unless the
dedupe key of its version is set (`Mark`); a server emits it to the room of the customer, that is to
its own sockets and, by the Redis adapter, to the other servers (`FanOut`, `relay`, `Relay`). `home` is
the server the customer's socket is on, `joined` whether it is in the room, and `session` what comes
next for it: the connection handler joins the room, reads the pointer and sends a snapshot
(`ReadPointer`, `ReadRide`, `Answer`); if the pointer is gone, the app fetches the ride, as the
frontend guide asks (`docs/FRONTEND_INTEGRATION_GUIDE.md:1055`).

`shown` is the ride on the customer's screen: what reached it last. The guide has the app hydrate from
the snapshot (:343) and replace its local state with it (:669), and neither the guide nor the code
compares versions. `told` are the statuses that reached it at any time. Two history variables say what
the program does not prevent:

- `shared`: a handler changed the status of a ride that an accept had written since it read it. Both
  statuses then have one version and one dedupe key, and the second announcement may be dropped.
  `LostCancel` shows it; `CaughtUp`, `ScreenIsCurrent` and `StaysInformed` except it;
- `late`: older news reached the customer after newer ones, such as a snapshot that was read before an
  update and sent after it. The customer was told the status and then shown an old one, until the
  next news; `ScreenIsCurrent` excepts it, the other two do not mind.

### Refinement

`RideDispatch` implements `RideLifecycle` with the status and driver fields of the ride hash as
the mapping (`Lifecycle`, a property of `OneRide` and a theorem). `Assign` is the script;
`Advance` is every other change of the status.

The modules each cut the system elsewhere: `RideCopies` and `CustomerFeed` write the ride without the
dispatcher, `DriverState` has rides without batches, `RideDispatch` drivers without handlers. Two abstract
modules say what they owe one another, and both sides are shown to implement them.

- `RideWrites`: the holder of the lock reads a ride's status and version and writes an operation that a
  ride of that status allows, with that version plus one; the accept script takes no lock and
  increments the version that is there. `RideDispatch` implements it with all it does (`WritesAsAgreed`),
  `CustomerFeed` and `RideCopies` with handlers that write from an old snapshot, the latter while the hash exists:
  expiry, loss of Redis and rebuilds are its own.
- `DriverOffers`: a ride that is not over reserves a driver nobody has reserved, a reservation may go at any
  time, and an open ride is assigned to a driver it has reserved. `RideDispatch` and `DriverState`
  implement it (`OffersAsAgreed`), one with tokens and batches, the other with handlers that read the
  driver earlier.

This is not a composition: each side still takes from the other more than the contract gives away (any
driver may become free in `RideDispatch`, any reservation may go in `DriverState`). It shows that both
sides of a cut stay within one description of it. That the simpler side also does all the other can do is
a matter of reading.

## Runs

Deadlock is not checked in any of them: the bounds stop `RideDispatch`, and a system nobody
calls stops.

| Run | Instance | Shows |
|---|---|---|
| `OneRide` | 1 ride, 2 drivers that may leave, batches of 2, 2 rounds, 2 accepts in flight, a death per ride, version and batch bounds 5 and 3 | `Lifecycle`, `VersionNeverDecreases`, `SnapshotsCurrent`, `AcceptWinsItsBatch`, `OneAnswerAccepted`, clean pending lists and reservations, `WritesAsAgreed`, types |
| `TwoRides` | 2 rides, 1 driver that stays, 2 batches per ride | an open offer holds the reservation, so offers of two rides never meet; `OffersAsAgreed` |
| `DriverPools` | 2 rides, 1 driver, every interleaving, 2 deaths, fairness | pools disjoint and within the scan's reach, status agrees with the ride, a held ride is named and a driver has one ride unless a handler undid an accept, a driver silent for good leaves the pool for good, `OffersAsAgreed`, types |
| `JobsGoOn` | 1 ride, 2 batches, 2 rounds, 2 attempts, 2 troubles, fairness | no batch is closed before its deadline; a requested ride keeps its job when a worker dies; dispatch resumes, unless the queue keeps the recovery job |
| `OneCustomer` | 2 deliveries, 1 key, a limit of 1, 1 death, slow handlers, fairness | one ride per event, the lock protects, the pointer names the live ride, the limit and the active set end |
| `Copies` | 4 writes, 2 sync jobs at a time, 2 rebuilders, 2 mishaps, fairness | Mongo catches up, the status is told, an ended ride stays ended and its end is saved, short of `spoilt`; `WritesAsAgreed` |
| `Feed` | 2 servers, 4 versions, 1 lost connection, 1 interrupted subscription, fairness | a connected customer was told the ride's status once nothing is on its way, sees it if no older news came last, and one that is back for good is told for good, short of `shared` |
| `LostCancel` | the same, nothing lost | violated: a cancel shares the version of an accept, and a customer that never lost its connection is not told of it |
| `LateAccept` | 1 ride, 1 driver, 1 round | violated: an accepted ride is cancelled for want of drivers |
| `DoubleAssignment` | 2 rides, 1 driver | violated: a heartbeat undoes an accept and the driver gets a second ride |
| `StuckDispatch` | 1 ride, no troubles, fairness | violated: a dispatching ride without a batch is left for ever |
| `SecondRide` | 3 requests, no deaths, no slow handlers | violated: the cleanup of a ride deletes the pointer to the next one, and the customer has two live rides |

The five violated properties are sentences of the repository's documents; PROJECT.json quotes
them beside what the code does.

Bounds. Two rounds and a radius of 2, 4, 5 reach both exits of the search and the cap. Three
batches for a ride reach a rejection and a timeout followed by another offer; two drivers in
one batch reach every race of two answers, and more drivers only add answers of the same two
kinds. Two accepts in flight reach a winner and a late loser. `MaxVersion` keeps handlers from
starting for ever; handlers under way finish. Two rides and one driver are the smallest
instance in which a reservation or an assignment can clash, and with one driver the handlers
of the driver meet as often as they can: drivers share no key with one another except
the sets, whose members are independent.

In `JobsGoOn`, "troubles" are errors, deaths, rejections and other requests that hold the lock, at
any point: two reach a death during the retry of what an error interrupted and a job stalled
twice. Two attempts reach a retry and the last failure; two batches reach a timeout of a
batch that is no longer open. `MaxQueued` only keeps the scan from queueing a third job while two
are there. `StuckDispatch` needs no trouble at all: the timeout of a closed batch holds the lock
while the start of the next round and then the scan's start run into it.

`RecoveryResumes` has an assumption that the code does not make true: again and again, the
job the scan would queue is not among the finished ones that are kept. `StuckDispatch` shows
that dispatch need not resume without it. A finished job is forgotten after 500 later ones,
so on a busy server the ride waits; on a quiet one it waits until somebody cancels it.

In `OneCustomer` two deliveries reach every clash of two handlers over the key, the counter and
the lock, and a limit of one makes the second the one that is refused; `SecondRide` needs a third,
which opens the second live ride. In `Copies` four writes reach a ride's end by way of an
accept next to another writer, and a cancellation; two jobs at a time and two rebuilders are what
it takes to overtake, and two mishaps reach a failed attempt followed by a loss of Redis. Its
constraint `Unspoilt` cuts behaviours off where `spoilt` becomes true: it never becomes false again
and every property excepts it, so nothing that is cut off could violate one. In `Feed` one server
may miss a message and the other not, which is the largest number of losses that leaves anybody to
deliver it; a lost connection reaches a change before, during and after a reconnection, and four versions
reach an accept next to a cancellation.

Fairness. The runs of safety properties have none. `FairSpec` of `DriverState` asks for what
the code's scheduling gives: a locked handler that has begun goes on or dies, and the scan,
a repeatable job of a worker with concurrency 1, is run again and again. `FairSpec` of
`DispatchJobs` asks the same of workers that have a job to take, of the holder of the lock (or
its TTL), of the scan, of time (a deadline passes) and of a request that has written its ride; it
does not ask that finished jobs are forgotten, or that anybody answers an offer. Nothing is asked of
drivers, customers, accepts, releases or expiry. `DriverPools` has one driver because a scan that
meets a taken lock throws and drops the rest of its list: with several drivers, one whose
lock is taken at each scan starves those after it, and no fairness of the code rules it out.
`FairSpec` of `CustomerRides`: handlers and cleanups that have begun go on or die, the TTLs of the
counter and of the hash of a ride that ended run out, the scan comes round; customers and ends of
rides may never come. `FairSpec` of `RideCopies`: a handler past its read goes on or dies, a worker
with room takes a job and finishes one; nothing is asked of readers, rebuilds or expiry.
`FairSpec` of `CustomerFeed`: handlers go on, servers handle what they got, a connection being set up
goes on; nobody has to connect.

Assumptions of `RideDispatch`, `DriverState` and `DispatchJobs`: a handler ends within
`LOCK_TTL_MS` (5 s) or dies, so a lock has one holder; the parallel reads of
`isDriverReservable` are one step; ride hashes do not expire; in `RideDispatch` one
handler dies at most for each ride; in `DriverState` a cooling driver is like one the dispatcher does not choose.
`CustomerRides` drops the first and the third, `RideCopies` the third. `RideCopies` takes it that
the hash expires only when no job or handler is at work on it (the TTL is an hour or more), and
that a job is tried until it succeeds (five attempts in the code); `CustomerFeed` that an
announcement reaches at least one server, and that the app shows what reached it last.

## Proofs

All theorems hold for every set of rides and drivers and all settings that meet the named
assumptions, and are checked by TLAPS.

`RideDispatchProofs` rests on `IInv == TypeOK /\ SnapshotsCurrent`. Types alone are not
inductive, nor is the refinement: a handler writes `version + 1` and statuses from its
snapshot, so what it does to the ride depends on how the two relate. `SnapshotsCurrent` says
it: while a handler may still write from its snapshot, either the ride has the status and
version of the snapshot, or exactly one accept has won since, raised the version by one and
left the ride ACCEPTED. It is inductive because the lock admits one holder per ride and the
script requires DISPATCHING. From it:

- `TypeCorrect`: `Spec => []TypeOK`;
- `HandlersSeeTheirRides`: `Spec => []SnapshotsCurrent`;
- `VersionMonotonic`: a write of `snap.version + 1` is never below the version it replaces,
  though it may equal it when an accept came in between;
- `ImplementsLifecycle`: `Spec => Lifecycle`, the initial state and each step mapped to a step of
  `RideLifecycle` or a stutter;
- `OneAccepted`: `Spec => []OneAnswerAccepted`, from the invariant that a response is ACCEPTED
  only of the assigned driver; a rejection or timeout that overwrites answers only removes some;
- `WritersKeepTheContract`: `Spec => WritesAsAgreed`, with the status and version of the snapshot as `snap`
  while the holder may still write from it. The proof did not go through at first, for a handler that
  goes on after closing a lapsed batch may read an accepted ride and write that: an accepted ride thus
  allows a batch in `RideWrites`, and `LateAccept` shows where it leads.

`RideOffersProofs` extends it with `OfferInv`, which says for each ride who answers for what. The parts:
`BatchKnown`, the ride's batch is the one its handler read or was closed by an accept, and there is none
while a handler searches and reserves; `AnswersKnown` and `AcceptsKnown`, answers and requests name batches
issued before the one being built, and a request that saw the open batch saw its drivers; `TokensMatch`,
the reservation of a chosen or asked driver names that batch; `TokensCovered` and `EntriesListed`,
each reservation and pending entry belongs to the open batch, to the handler that builds or gives back a
batch, or to a winner that has yet to clear up, unless one of them died. Steps of one ride leave
the others alone (`Untouched`), so each action is looked at for its own ride only. From it:

- `WinnersReadTheirBatch`: `Spec => []AcceptWinsItsBatch`; nothing but the reservation key makes
  it true, for the script compares neither the batch id nor the drivers that the request read;
- `OffersAreReserved`: `Spec => []OfferHoldsReservation`, two rides never ask one driver that stays;
- `ReservationsAreReturned` and `ListsAreClean`: the two cleanliness invariants;
- `DispatchKeepsOffers`: `Spec => OffersAsAgreed`. The script compares the token, so a driver that is
  assigned was reserved; that a search reserves for no ride that is over is `SnapshotsCurrent`: what it
  searches for is dispatching, or was accepted meanwhile.

`RideLifecycleProofs` proves what the abstract module promises, so it holds of dispatch too:
`AssignedIffAcceptedHolds`, `AssignedOnce`, `TerminalKept`.

`DriverStateProofs` has two invariants. `IInv`, about the pools, has a part about the keys
(`KeysOK`) and one about the handlers (`HandlersOK`). The pools alone are not inductive,
because a handler writes what it read earlier: `WriterKnows` adds that what it has read agrees
in status and ride and that a heartbeat which goes on to write found the driver online, and
`RideKnows` that a ride has a driver from the accept on, which is whom the release writes
about. From it:

- `TypeCorrect`, `PoolsStayDisjoint`, `PoolIsScanned` and `StatusAgrees`: types, `PoolsDisjoint`,
  `AvailableIsScanned` and `StatusMatchesRide` are invariants.

The second is `IInv /\ HeldRideIsNamed`: an accept finds the key naming any ride that holds its driver and
marks a handler that has read all it goes by (`AcceptNamed`), one without that mark writes back the ride
that holds the driver (`WriterNames`), and the release at the end of a ride deletes the keys of a driver whom no
other ride holds (`HeldOnce`, `ReleaseNamed`). From it, for any numbers of rides and drivers:

- `HeldNamed`: `Spec => []HeldRideIsNamed`, accepts in the middle of locked handlers included;
- `OneTripEach`: `Spec => []OneTripUnlessUndone`. Writing over an accept, which `DoubleAssignment`
  shows, is thus the only way to two trips of one driver: neither the release of one ride around the
  accept of the next, nor deaths, nor ghosts lead there. Nothing is assumed of when accepts run; what
  the theorem does not say is that handlers do not write over them, for they do.

`DriversKeepOffers` (`Spec => OffersAsAgreed`) follows from the first: a ride that has a seeker is not over,
and a reservation is written by the command that finds none. It holds since the ride's lock is in
the model: without it a ride could end, and its reservations be given back, while a driver was being
reserved for it.

`DispatchJobsProofs` proves `JobsTypeOK`, `NoTimeoutIsEarly` and `FirstJobIsKept`, for any limits. Its invariant takes
the ride, the clock, the queue, the holder of the lock and the scan in turn. No timeout in the queue
may run before its deadline; a holder that is past the check, or the scan's job, found the deadline
over; a holder that searches does so for a ride without a batch. The types alone are not
inductive, since the holder writes the version and the batch it read. `FirstJobIsKept` (`Spec =>
[]FirstJobSurvives`) needs one more fact: until the first trouble, a requested ride has no job but its
first, so nobody else can hold the lock that it needs; and after the death of its worker nothing takes
it before that lock is over.

`CustomerRidesProofs` has one invariant, `IInv`: types, the lock (`InsideHoldsLock`), the
counter (`CounterHasEnd`), the keys and the pointer. The idempotency keys need two facts beside the
property: an accepted key is set or has expired (`KeysUsed`), and two handlers with one key mean that
it expired (`KeysApart`). The pointer needs to know that what a handler read under the lock still
holds (`ReadsHold`: while it looks at a ride no other is live, and at its MULTI none is), and that
only a handler that is through has a ride and only a ride that ended is cleaned up
(`RidesInOrder`). From it:

- `CustomerTypeOK`, `LockProtects`, `ActiveRideIsNamed`, `EventsAreOnce`, `CounterEnds`: `TypeOK`,
  `InsideHoldsLock`, `ActiveRideNamed`, `OneRidePerEvent` and `CounterHasEnd` are invariants for any
  deliveries, keys, limit and deaths, slow handlers included;
- `OneLiveRide`: where no handler outlived its lock and no cleanup overlapped a request, the
  customer has one live ride at most. `SecondRide` shows that the overlap is real.

`CustomerFeedProofs` proves, for any number of servers, versions, lost connections and interruptions
fewer than the servers,

- `FeedTypeOK`: `Spec => []TypeOK`;
- `FeedIsComplete`: `Spec => []CaughtUp`;
- `FeedShowsTheRide`: `Spec => []ScreenIsCurrent`;
- `FeedFollowsTheContract`: `Spec => WritesAsAgreed`, which no run checks. The handlers write from a
  snapshot that an accept may have outdated, as those of `RideDispatch` do.

`CaughtUp` says nothing until all is quiet, so the invariant has to follow a status from its write to
the customer (`Delivery`): `Coming`, a handler has yet to read it back or to announce it under a version
that is not marked; or `Reaching`, the customer was told it, will read it, or it is being sent to it.
For the last, the servers that still carry the status are counted: together with the
interruptions so far they are as many as there are servers, so one is always left. `SnapOK` says that
nothing but one accept comes between a handler's read and its write, which gives the contract; a write
that changes the status after such an accept makes `shared` true, and from then on the invariant
promises types only. `MarksOK` says that the ride's version is marked only when its status is being sent,
which makes the dedupe key harmless until then. `InOrder` says that copies are ordered alike by version
and by progress in the transition table, and `ScreenOK` that, told in order, the customer was told nothing
that is further on than what the app shows; so a status it was told, if it is the ride's, is on the screen.

`RideCopiesProofs` has one invariant, `CopiesInv`: types, that no copy is ahead of the writes (`Sane`),
and, until a run is `spoilt`, one of two pictures. `Alive`, there is a hash: `Ordered`, whatever handlers
and jobs have read is told apart by versions just as by writes, and the hash is the newest;
`JobsReadLater`, a job read a ride no older than the version it is named after, so a sync dropped
because its id is known was not needed (`FinishedSaved` is the same of ids kept after the end);
`Coming`, Mongo has the ride or a job or handler will see to it; `Telling` and `MarksTold`, the
customer knows the status or will, and a version whose key is set was announced or is about
to be. `Gone`, there is none: nothing is under way and Mongo has the last write. From it, for any
numbers of jobs, rebuilders, writes and mishaps:

- `TypeCorrect`, `MongoGetsTheRide`, `CustomerIsTold`, `EndIsFinal`: `TypeOK`, `MongoCatchesUp`,
  `StatusIsTold` and `EndedStaysEnded` are invariants;
- `CopiesFollowTheContract`: `Spec => WritesAsAgreed`. It failed until `GoOn` was added: the read-back of
  a dispatch is not always the end of it.

Every invariant, action property and refinement that a passing run checks is thus proved. Left to TLC are
the six liveness properties, `RecoveryResumes`, `SilentDriversLeave`, `EndIsSaved`, `StaysInformed`,
`LimitEnds` and `ActiveSetDrains`: they rest on fairness, that is on ENABLED, which the prover does not
handle.

## Not modelled

PROJECT.json lists each component with its status and reason. Left out of the modelled ones:

- timeline, billing, positions, and the announcements to drivers: they differ from the customer's
  in name, room and dedupe key;
- `requeueRideAfterDriverLoss`, which nothing calls, though `docs/FLOW_DIAGRAMS.md` (Case B of the
  driver-loss flow) describes it as what a lost driver triggers, while `handleDriverDrop` says
  "DO NOT requeue";
- the drivers' part of persistence and rebuild. `rebuildRedisStateFromMongo` removes a driver from
  `drivers:busy`, a set, with `ZREM`, which Redis answers with WRONGTYPE while the rest of the MULTI
  takes effect;
- the day after which an announcement's dedupe key lapses, and a job that fails all its attempts;
- a failed event whose idempotency key stays set: the client's repetition is refused for a day
  (`CustomerRides` has the key, the repetition is a delivery that ends at the gate);
- acknowledgements: a customer whose own request cancels the ride has the ACK of it, which does not help
  one whose ride is cancelled over HTTP or for want of drivers;
- sessions of drivers on the socket, whose effect on the state is `restoreDriverSession`, a heartbeat of
  `DriverState`;
- weaknesses the models contain but no run is spent on: offline and online again during an offer, a
  driver gets a second one (`OfferHoldsReservation` is about drivers that stay); a heartbeat can
  write back the busy state of a ride that just ended, and the driver stays busy until it goes
  offline.

Pricing, ETA, logging, formatting, authentication and the manual test scripts keep no state that
operations could interleave on. What would be left to model is the drivers' copy in Mongo, with
the structure of `RideCopies`.

## Order of the work

In order of what matters most.

1. `RideLifecycle`, `RideDispatch`, their runs and theorems (done).
2. `DriverState`, its runs and the theorems of the pools and of a single assignment (done).
3. `DispatchJobs`, its runs and theorems (done).
4. `CustomerRides`, its runs and theorems (done).
5. `RideCopies`, its run and theorems (done).
6. `CustomerFeed`, its runs and theorems (done).
7. `RideWrites` and `DriverOffers`, and the theorems that the modules on both sides implement them (done).
8. Left: the drivers' copy in Mongo and the drivers a rebuild finds, with the structure of `RideCopies`.
