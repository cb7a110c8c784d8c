---------------------------- MODULE DispatchJobs ----------------------------
(***************************************************************************)
(* What keeps the dispatch of a ride going: the jobs of the dispatch queue *)
(* (queues/index.js), the worker that runs them (dispatch.worker.js), the  *)
(* calls of dispatch.service.js that queue the next one, and the recovery  *)
(* scan (recoverDispatchingRides).                                         *)
(*                                                                         *)
(* One ride; rides share workers only.  A job is its job id.  BullMQ is    *)
(* modelled from how the code uses it: add does nothing if a job of the    *)
(* same id exists, also a finished one, of which it keeps the last 500.    *)
(* A ride that is accepted, completed or cancelled is "OVER" for dispatch; *)
(* RideDispatch has the rest of the ride.  Batches are numbered.           *)
(***************************************************************************)
EXTENDS Naturals, FiniteSets

CONSTANTS
    MaxRounds,      \* env.dispatch.maxRounds
    InitialRadius,  \* env.dispatch.initialSearchRadiusKm
    MaxRadius,      \* env.dispatch.maxSearchRadiusKm
    Attempts,       \* defaultJobOptions.attempts
    MaxBatches,     \* bound: batches sent; after them nobody is found
    MaxQueued,      \* bound: the scan starts with fewer jobs in the queue
    MaxTrouble      \* bound: errors, deaths and other requests that hold the
                    \* lock

ASSUME DispatchJobsAssumption ==
    /\ {MaxRounds, MaxRadius, MaxBatches, MaxQueued, MaxTrouble} \subseteq Nat
    /\ InitialRadius \in Nat \ {0}
    /\ InitialRadius <= MaxRadius
    /\ Attempts \in Nat \ {0}

VARIABLES
    ride,       \* the ride's hash, as far as dispatch goes by it
    issued,     \* batches sent so far
    lapsed,     \* the latest batch whose deadline has passed
    asking,     \* requestRide has written the ride and has not queued its job
    queued,     \* jobs that wait, are delayed or run
    due,        \* timeouts queued without a delay before their deadline
    delayed,    \* those whose delay outlasts the present holder of the lock
    kept,       \* finished jobs that the queue still keeps, of those that
                \* the recovery scan may queue again
    tries,      \* tries[b]: failed attempts of the timeout job of batch b
    stalled,    \* jobs whose worker died once
    hold,       \* the holder of lock:ride: its next call, its local variables
    scan,       \* the job the recovery scan is about to queue, or NoJob
    trouble     \* of it so far

jobVars == <<queued, due, kept, tries, stalled>>
queueVars == <<queued, due, delayed, kept, tries, stalled>>
vars == <<ride, issued, lapsed, asking, queued, due, delayed, kept, tries, stalled,
          hold, scan, trouble>>

-----------------------------------------------------------------------------

Job(name, at, reason) == [name |-> name, at |-> at, reason |-> reason]
NoJob == Job("none", 0, "none")
Request == Job("request", 0, "none")

\* Job ids: a start is one of a version and a reason, a timeout one of a batch.
Start(version, reason) == Job("start", version, reason)
Timeout(b) == Job("timeout", b, "none")

Free == [who |-> NoJob, pc |-> "free", version |-> 0, batch |-> 0,
         round |-> 0, radius |-> InitialRadius]

\* requestRide has written the ride.
Init ==
    /\ ride = [status |-> "REQUESTED", version |-> 1, batch |-> 0,
               round |-> 0, radius |-> InitialRadius]
    /\ issued = 0
    /\ lapsed = 0
    /\ asking = TRUE
    /\ queued = {}
    /\ due = {}
    /\ delayed = {}
    /\ kept = {}
    /\ tries = [b \in 1..MaxBatches |-> 0]
    /\ stalled = {}
    /\ hold = Free
    /\ scan = NoJob
    /\ trouble = 0

-----------------------------------------------------------------------------
\* The queue.

\* queue.add: a job whose id exists is not added.  It may run now or later.
Add(j, now) ==
    /\ queued' = IF j \in kept THEN queued ELSE queued \union {j}
    /\ due' = IF now /\ j \notin kept \union queued /\ j.name = "timeout" /\ j.at > lapsed
              THEN due \union {j} ELSE due
    /\ delayed' = IF now \/ j \in kept \union queued THEN delayed ELSE delayed \union {j}
    /\ UNCHANGED <<kept, tries, stalled>>

\* Recovery may queue it again.  Others may be forgotten at once.
Wantable(j) ==
    \/ j.reason = "RECOVERY_NO_BATCH" /\ j.at >= ride.version
    \/ j.name = "timeout" /\ j.at = ride.batch

\* The job has returned, or failed for the last time.
Settle(j) ==
    /\ queued' = queued \ {j}
    /\ due' = due \ {j}
    /\ kept' = {k \in kept \union {j} : Wantable(k)}
    /\ tries' = [b \in DOMAIN tries |-> IF j = Timeout(b) THEN 0 ELSE tries[b]]
    /\ stalled' = stalled \ {j}

\* The job has thrown.  The worker swallows the errors of a start; BullMQ runs
\* a timeout again, up to Attempts times.
Throw(j) ==
    IF j.name = "start" \/ tries[j.at] + 1 = Attempts
    THEN Settle(j)
    ELSE /\ tries' = [tries EXCEPT ![j.at] = @ + 1]
         /\ UNCHANGED <<queued, due, kept, stalled>>

\* Later jobs, of other rides, push a finished one out.
Forget(j) ==
    /\ kept' = kept \ {j}
    /\ UNCHANGED <<ride, issued, lapsed, asking, queued, due, delayed, tries, stalled, hold,
                   scan, trouble>>

\* A job may run when its delay is over; that of a timeout is when the deadline
\* of its batch has passed.
Ripe(j) ==
    /\ j \in queued \ delayed
    /\ j.name = "timeout" => j \in due \/ j.at <= lapsed

\* A worker takes a job and its handler the lock of the ride.
Take(j) ==
    /\ Ripe(j)
    /\ hold.pc = "free"
    /\ hold' = [Free EXCEPT !.who = j, !.pc = IF j.name = "start" THEN "enter" ELSE "check"]
    /\ UNCHANGED <<ride, issued, lapsed, asking, queueVars, scan, trouble>>

\* The lock is taken: RIDE_LOCKED.  What is run again is run later.
TakeLocked(j) ==
    /\ Ripe(j)
    /\ hold.pc # "free"
    /\ hold.who # j
    /\ Throw(j)
    /\ delayed' = delayed \union (queued' \intersect {j})
    /\ UNCHANGED <<ride, issued, lapsed, asking, hold, scan, trouble>>

-----------------------------------------------------------------------------
\* The holder of the lock of the ride.

Unlock ==
    /\ hold' = Free
    /\ delayed' = {}

To(pc) == hold' = [hold EXCEPT !.pc = pc]

\* It goes on with what it has just read of the ride.
ToWith(pc) ==
    hold' = [hold EXCEPT !.pc = pc, !.version = ride.version, !.batch = ride.batch,
                         !.round = ride.round, !.radius = ride.radius]

Quiet == UNCHANGED <<asking, queueVars, scan, trouble>>

\* handleBatchTimeout: the ride is read, and must still wait for this batch.
CheckTimeout ==
    /\ hold.pc = "check"
    /\ IF ride.status = "DISPATCHING" /\ ride.batch = hold.who.at
       THEN ToWith("close") ELSE To("done")
    /\ UNCHANGED <<ride, issued, lapsed>>
    /\ Quiet

\* dispatchUnderLock: nothing to do.
EnterIdle ==
    /\ hold.pc = "enter"
    /\ ride.status = "OVER" \/ ride.batch > lapsed
    /\ To("done")
    /\ UNCHANGED <<ride, issued, lapsed>>
    /\ Quiet

\* The first dispatch; the round it goes by is the one before.
EnterRequested ==
    /\ hold.pc = "enter"
    /\ ride.status = "REQUESTED"
    /\ ride' = [ride EXCEPT !.status = "DISPATCHING", !.round = 1, !.radius = InitialRadius,
                            !.version = @ + 1]
    /\ hold' = [hold EXCEPT !.pc = "search", !.version = ride.version + 1,
                            !.round = ride.round, !.radius = ride.radius]
    /\ UNCHANGED <<issued, lapsed>>
    /\ Quiet

\* A batch that has lapsed is closed first.
EnterDispatching ==
    /\ hold.pc = "enter"
    /\ ride.status = "DISPATCHING"
    /\ ride.batch <= lapsed
    /\ ToWith(IF ride.batch = 0 THEN "search" ELSE "close")
    /\ UNCHANGED <<ride, issued, lapsed>>
    /\ Quiet

\* The batch is closed; a timeout then dispatches as a start does.
CloseBatch ==
    /\ hold.pc = "close"
    /\ ride' = [ride EXCEPT !.batch = 0, !.version = hold.version + 1]
    /\ hold' = [hold EXCEPT !.pc = IF hold.who.name = "timeout" THEN "enter" ELSE "search",
                            !.version = hold.version + 1]
    /\ UNCHANGED <<issued, lapsed>>
    /\ Quiet

\* Drivers are found and reserved, and a batch is sent to them.
SendBatch ==
    /\ hold.pc = "search"
    /\ issued < MaxBatches
    /\ issued' = issued + 1
    /\ ride' = [ride EXCEPT !.batch = issued + 1, !.version = hold.version + 1]
    /\ To("sent")
    /\ UNCHANGED lapsed
    /\ Quiet

QueueTimeout ==
    /\ hold.pc = "sent"
    /\ Add(Timeout(issued), FALSE)
    /\ To("done")
    /\ UNCHANGED <<ride, issued, lapsed, asking, scan, trouble>>

\* Mutant: the radius is not capped.
WideRadius(km) == 2 * km

NextRadius(km) == IF 2 * km < MaxRadius THEN 2 * km ELSE MaxRadius

LastSearch == hold.round >= MaxRounds \/ hold.radius >= MaxRadius

ExpandSearch ==
    /\ hold.pc = "search"
    /\ ~LastSearch
    /\ ride' = [ride EXCEPT !.batch = 0, !.version = hold.version + 1,
                            !.round = hold.round + 1, !.radius = NextRadius(hold.radius)]
    /\ hold' = [hold EXCEPT !.pc = "expanded", !.version = hold.version + 1]
    /\ UNCHANGED <<issued, lapsed>>
    /\ Quiet

QueueExpansion ==
    /\ hold.pc = "expanded"
    /\ Add(Start(hold.version, "EXPAND_RADIUS"), FALSE)
    /\ To("done")
    /\ UNCHANGED <<ride, issued, lapsed, asking, scan, trouble>>

\* NO_DRIVERS_AVAILABLE.
GiveUp ==
    /\ hold.pc = "search"
    /\ LastSearch
    /\ ride' = [ride EXCEPT !.status = "OVER", !.batch = 0, !.version = hold.version + 1]
    /\ To("done")
    /\ UNCHANGED <<issued, lapsed>>
    /\ Quiet

\* The rejection of one driver closes the batch if nobody else has still to
\* answer, and then dispatches; or leaves it as it was read.
Reject ==
    /\ hold.pc = "reject"
    /\ \E exhausted \in {TRUE, hold.batch = 0} :
          /\ ride' = [ride EXCEPT !.batch = IF exhausted THEN 0 ELSE hold.batch,
                                  !.version = hold.version + 1]
          /\ To(IF exhausted THEN "enter" ELSE "done")
    /\ UNCHANGED <<issued, lapsed>>
    /\ Quiet

\* withLock returns: a job is done.
Finish ==
    /\ hold.pc = "done"
    /\ Unlock
    /\ IF hold.who = Request THEN UNCHANGED jobVars ELSE Settle(hold.who)
    /\ UNCHANGED <<ride, issued, lapsed, asking, scan, trouble>>

\* The lock of a holder that died expires.
LockExpires ==
    /\ hold.pc = "dead"
    /\ Unlock
    /\ UNCHANGED <<ride, issued, lapsed, asking, jobVars, scan, trouble>>

HolderStep ==
    \/ CheckTimeout \/ EnterIdle \/ EnterRequested \/ EnterDispatching \/ CloseBatch
    \/ SendBatch \/ QueueTimeout \/ ExpandSearch \/ QueueExpansion \/ GiveUp
    \/ Reject \/ Finish \/ LockExpires

-----------------------------------------------------------------------------
\* Customers and drivers.

\* requestRide queues the first job.
RequestQueues ==
    /\ asking
    /\ asking' = FALSE
    /\ Add(Start(1, "REQUESTED"), TRUE)
    /\ UNCHANGED <<ride, issued, lapsed, hold, scan, trouble>>

\* ACCEPT_RIDE_SCRIPT, by a driver of the open batch.
Accept ==
    /\ ride.status = "DISPATCHING"
    /\ ride.batch # 0
    /\ ride' = [ride EXCEPT !.status = "OVER", !.batch = 0, !.version = @ + 1]
    /\ UNCHANGED <<issued, lapsed, asking, queueVars, hold, scan, trouble>>

Cancel ==
    /\ hold.pc = "free"
    /\ ride.status # "OVER"
    /\ ride' = [ride EXCEPT !.status = "OVER", !.version = @ + 1]
    /\ UNCHANGED <<issued, lapsed, asking, queueVars, hold, scan, trouble>>

Troubled ==
    /\ trouble < MaxTrouble
    /\ trouble' = trouble + 1
    /\ UNCHANGED <<ride, issued, lapsed>>

RejectBegins ==
    /\ Troubled
    /\ hold.pc = "free"
    /\ ride.status = "DISPATCHING"
    /\ hold' = [Free EXCEPT !.who = Request, !.pc = "reject", !.version = ride.version,
                            !.batch = ride.batch]
    /\ UNCHANGED <<asking, queueVars, scan>>

-----------------------------------------------------------------------------
\* recoverDispatchingRides.

\* Mutant: the scan does not ask whether the batch has lapsed.
WantedEarly ==
    IF ride.status # "DISPATCHING" THEN NoJob
    ELSE IF ride.batch = 0 THEN Start(ride.version, "RECOVERY_NO_BATCH")
    ELSE Timeout(ride.batch)

\* Mutant: the scan passes over rides without a batch.
WantedBatchOnly ==
    IF ride.status = "DISPATCHING" /\ ride.batch \in 1..lapsed THEN Timeout(ride.batch) ELSE NoJob

\* The job it queues for the ride as it reads it.
Wanted ==
    IF ride.status # "DISPATCHING" \/ ride.batch > lapsed THEN NoJob
    ELSE IF ride.batch = 0 THEN Start(ride.version, "RECOVERY_NO_BATCH")
    ELSE Timeout(ride.batch)

ScanReads ==
    /\ scan = NoJob
    /\ Cardinality(queued) < MaxQueued
    /\ scan' = Wanted
    /\ UNCHANGED <<ride, issued, lapsed, asking, queueVars, hold, trouble>>

ScanQueues ==
    /\ scan # NoJob
    /\ Add(scan, TRUE)
    /\ scan' = NoJob
    /\ UNCHANGED <<ride, issued, lapsed, asking, hold, trouble>>

-----------------------------------------------------------------------------
\* Time and trouble.

\* The deadline of the last batch passes.
Lapse ==
    /\ lapsed < issued
    /\ lapsed' = issued
    /\ UNCHANGED <<ride, issued, asking, queueVars, hold, scan, trouble>>

\* A request holds the lock and changes nothing: a driver rejects what it was
\* not offered, a transition is refused or repeated.
IdleRequest ==
    /\ Troubled
    /\ hold.pc = "free"
    /\ hold' = [Free EXCEPT !.who = Request, !.pc = "done"]
    /\ UNCHANGED <<asking, queueVars, scan>>

\* A call of the holder throws.
HolderThrows ==
    /\ Troubled
    /\ hold.who # NoJob
    /\ Unlock
    /\ IF hold.who = Request THEN UNCHANGED jobVars ELSE Throw(hold.who)
    /\ UNCHANGED <<asking, scan>>

\* Mutant: LOCK_TTL_MS is longer than BullMQ takes to notice a stalled job.
NoticedAtOnce(j) == delayed

\* A stalled job runs again when the lock of its worker has expired.
NoticedLater(j) == delayed \union {j}

\* The process of the holder dies: its lock stays until the TTL ends it.  BullMQ
\* runs a stalled job again, once.
HolderDies ==
    /\ Troubled
    /\ hold.who # NoJob
    /\ hold' = [Free EXCEPT !.pc = "dead"]
    /\ IF hold.who = Request THEN UNCHANGED queueVars
       ELSE IF hold.who \in stalled THEN Settle(hold.who) /\ UNCHANGED delayed
       ELSE /\ stalled' = stalled \union {hold.who}
            /\ delayed' = NoticedLater(hold.who)
            /\ UNCHANGED <<queued, due, kept, tries>>
    /\ UNCHANGED <<asking, scan>>

RequestDies ==
    /\ Troubled
    /\ asking
    /\ asking' = FALSE
    /\ UNCHANGED <<queueVars, hold, scan>>

ScanDies ==
    /\ Troubled
    /\ scan # NoJob
    /\ scan' = NoJob
    /\ UNCHANGED <<asking, queueVars, hold>>

WorkerStep == \E j \in queued : Take(j) \/ TakeLocked(j)
ScanStep == ScanReads \/ ScanQueues

\* Bound: the model stops when the ride is over: no step of this module brings
\* it back, and what jobs do to it after that is in RideDispatch.
Next ==
    /\ ride.status # "OVER"
    /\ \/ WorkerStep \/ HolderStep \/ ScanStep \/ Lapse
       \/ \E j \in kept : Forget(j)
       \/ RequestQueues \/ Accept \/ Cancel \/ RejectBegins
       \/ IdleRequest \/ HolderThrows \/ HolderDies \/ RequestDies \/ ScanDies

Spec == Init /\ [][Next]_vars

\* Workers take jobs, handlers that have begun and requests go on, the scan is
\* repeated and time passes.  Finished jobs need not be forgotten, and nobody
\* need answer an offer.
FairSpec ==
    /\ Spec
    /\ WF_vars(WorkerStep)
    /\ WF_vars(HolderStep)
    /\ WF_vars(ScanStep)
    /\ WF_vars(Lapse)
    /\ WF_vars(RequestQueues)

-----------------------------------------------------------------------------
\* Properties.

Batches == 1..MaxBatches
Reasons == {"none", "REQUESTED", "EXPAND_RADIUS", "RECOVERY_NO_BATCH"}
IsJob(j) ==
    \/ j.name = "start" /\ j.at \in Nat \ {0} /\ j.reason \in Reasons \ {"none"}
    \/ j.name = "timeout" /\ j.at \in Batches /\ j.reason = "none"

\* Every variable keeps its type; the search radius keeps to its cap.
TypeOK ==
    /\ ride \in [status : {"REQUESTED", "DISPATCHING", "OVER"}, version : Nat,
                 batch : {0} \union Batches, round : Nat, radius : 1..MaxRadius]
    /\ issued \in {0} \union Batches
    /\ lapsed \in 0..issued
    /\ asking \in BOOLEAN
    /\ \A j \in queued \union kept : IsJob(j)
    /\ due \union delayed \union stalled \subseteq queued
    /\ queued \intersect kept = {}
    /\ tries \in [Batches -> 0..Attempts - 1]
    /\ hold.pc \in {"free", "check", "enter", "close", "search", "sent", "expanded",
                    "reject", "done", "dead"}
    /\ hold.who \in queued \union {NoJob, Request}
    /\ scan = NoJob \/ IsJob(scan)

\* No job closes a batch before its deadline, although handleBatchTimeout does
\* not look at it and the recovery scan queues timeouts without a delay.
NoEarlyTimeout ==
    [][hold.who.name \in {"start", "timeout"} /\ ride.status = "DISPATCHING"
         /\ ride.batch # 0 /\ ride'.batch # ride.batch /\ ride'.status = "DISPATCHING"
         => ride.batch <= lapsed]_vars

\* As long as nothing goes wrong a requested ride has the job that will dispatch
\* it, and so it has when the worker dies that ran it: the lock which that worker
\* leaves behind costs no job.
FirstJobSurvives ==
    /\ ride.status = "REQUESTED" /\ ~asking
    /\ trouble = 0 \/ (trouble = 1 /\ hold.pc = "dead")
    => Start(1, "REQUESTED") \in queued

Looking(b) == ride.status = "DISPATCHING" /\ ride.batch = b

\* "Dispatch resumes": a ride does not keep looking without a batch, nor with
\* one batch, for ever.
DispatchResumes == \A b \in {0} \union Batches : Looking(b) ~> ~Looking(b)

\* If the job that recovery would queue is forgotten again and again whenever
\* the queue keeps one of the same id, dispatch resumes, whatever fails how
\* often.
RecoveryResumes == []<>(Wanted \notin kept) => DispatchResumes
=============================================================================
