------------------------- MODULE DispatchJobsProofs -------------------------
(***************************************************************************)
(* Proofs about DispatchJobs, for any limits and bounds: its types, that   *)
(* no job closes a batch before its deadline, and that a requested ride    *)
(* keeps its job when a worker dies.                                       *)
(***************************************************************************)
EXTENDS DispatchJobs, TLAPS

-----------------------------------------------------------------------------
\* The inductive invariant, part by part.

JobType == [name : {"none", "request", "start", "timeout"}, at : Nat, reason : Reasons]
Positions == {"free", "check", "enter", "close", "search", "sent", "expanded",
              "reject", "done", "dead"}
RideType == [status : {"REQUESTED", "DISPATCHING", "OVER"}, version : Nat,
             batch : {0} \union Batches, round : Nat, radius : 1..MaxRadius]
HoldType == [who : JobType, pc : Positions, version : Nat, batch : {0} \union Batches,
             round : Nat, radius : 1..MaxRadius]

RideOK ==
    /\ ride \in RideType
    /\ ride.version # 0
    /\ ride.status = "REQUESTED" => ride.batch = 0

ClockOK == issued \in {0} \union Batches /\ lapsed \in 0..issued

\* The queue; no timeout in it was queued to run before its deadline.
JobsOK ==
    /\ queued \subseteq JobType
    /\ \A j \in queued \union kept : IsJob(j)
    /\ due = {}
    /\ stalled \subseteq queued
    /\ queued \intersect kept = {}
    /\ tries \in [Batches -> 0..Attempts - 1]

\* A job that holds the lock is in the queue and not delayed; a timeout runs
\* after its deadline, and so does what closes a batch.
HoldOK ==
    /\ hold \in HoldType
    /\ hold.who \in (queued \ delayed) \union {NoJob, Request}
    /\ hold.who = NoJob <=> hold.pc \in {"free", "dead"}
    /\ hold.pc = "check" => hold.who.name = "timeout" /\ hold.who.at <= lapsed
    /\ hold.pc = "reject" => hold.who = Request
    /\ hold.pc = "sent" => issued # 0
    /\ hold.pc = "expanded" => hold.version # 0
    /\ hold.pc \in {"close", "search", "sent", "expanded", "reject"}
         => ride.status # "REQUESTED"
    /\ ride.status = "DISPATCHING" =>
         /\ hold.pc = "close" => ride.batch <= lapsed
         /\ hold.pc = "search" => ride.batch = 0

ScanOK ==
    \/ scan = NoJob
    \/ scan \in JobType /\ IsJob(scan) /\ (scan.name = "timeout" => scan.at <= lapsed)

IInv ==
    /\ asking \in BOOLEAN
    /\ RideOK /\ ClockOK /\ JobsOK /\ delayed \subseteq queued
    /\ HoldOK /\ ScanOK

LEMMA IInvTypes == IInv => TypeOK
<1> SUFFICES ASSUME IInv PROVE TypeOK
  OBVIOUS
<1>1. asking \in BOOLEAN
  BY DEF IInv
<1>2. ride \in [status : {"REQUESTED", "DISPATCHING", "OVER"}, version : Nat,
                batch : {0} \union Batches, round : Nat, radius : 1..MaxRadius]
  BY DEF IInv, RideOK, RideType
<1>3. /\ issued \in {0} \union Batches /\ lapsed \in 0..issued
      /\ \A j \in queued \union kept : IsJob(j)
      /\ due \union delayed \union stalled \subseteq queued
      /\ queued \intersect kept = {}
      /\ tries \in [Batches -> 0..Attempts - 1]
  BY DEF IInv, ClockOK, JobsOK
<1>4. hold.pc \in Positions /\ hold.who \in queued \union {NoJob, Request}
  BY DEF IInv, HoldOK, HoldType
<1>5. scan = NoJob \/ IsJob(scan)
  BY DEF IInv, ScanOK
<1> QED
  BY <1>1, <1>2, <1>3, <1>4, <1>5, Zenon DEF TypeOK, Positions

-----------------------------------------------------------------------------
\* The queue.

LEMMA JobFacts ==
  /\ NoJob \in JobType /\ Request \in JobType /\ NoJob # Request
  /\ NoJob.name = "none" /\ Request.name = "request"
  /\ ~IsJob(NoJob) /\ ~IsJob(Request)
  BY DEF NoJob, Request, Job, JobType, Reasons, IsJob

LEMMA AddJobs ==
  ASSUME JobsOK, delayed \subseteq queued,
         NEW j \in JobType, IsJob(j), NEW now, Add(j, now),
         now => (j.name = "timeout" => ~(j.at > lapsed))
  PROVE  /\ JobsOK' /\ delayed' \subseteq queued' /\ queued \subseteq queued'
         /\ delayed' \subseteq delayed \union {j}
         /\ j \in queued => delayed' = delayed
<1>1. due' = {}
  BY DEF Add, JobsOK
<1>2. CASE j \in kept
  BY <1>1, <1>2 DEF Add, JobsOK
<1>3. CASE j \notin kept
  <2>1. queued' = queued \union {j} /\ UNCHANGED <<kept, tries, stalled>>
    BY <1>3 DEF Add
  <2>2. delayed' \in {delayed, delayed \union {j}} /\ (j \in queued => delayed' = delayed)
    BY DEF Add
  <2> QED
    BY <1>1, <1>3, <2>1, <2>2 DEF JobsOK
<1> QED
  BY <1>2, <1>3

LEMMA SettleJobs ==
  ASSUME JobsOK, NEW j \in queued, Settle(j)
  PROVE  JobsOK' /\ queued' = queued \ {j}
<1>1. /\ queued' = queued \ {j} /\ due' = {} /\ stalled' = stalled \ {j}
      /\ kept' \subseteq kept \union {j}
  BY DEF Settle, JobsOK
<1>2. tries' \in [Batches -> 0..Attempts - 1]
  BY DispatchJobsAssumption DEF Settle, JobsOK
<1> QED
  BY <1>1, <1>2 DEF JobsOK

LEMMA ThrowJobs ==
  ASSUME JobsOK, NEW j \in queued, Throw(j)
  PROVE  JobsOK' /\ queued' \in {queued, queued \ {j}}
<1>1. CASE j.name = "start" \/ tries[j.at] + 1 = Attempts
  BY <1>1, SettleJobs DEF Throw
<1>2. CASE ~(j.name = "start" \/ tries[j.at] + 1 = Attempts)
  <2>1. j.at \in Batches
    BY <1>2 DEF JobsOK, IsJob
  <2>2. tries' = [tries EXCEPT ![j.at] = @ + 1] /\ UNCHANGED <<queued, due, kept, stalled>>
    BY <1>2 DEF Throw
  <2>3. tries[j.at] + 1 \in 0..Attempts - 1
    BY <1>2, <2>1, DispatchJobsAssumption DEF JobsOK
  <2> QED
    BY <2>1, <2>2, <2>3 DEF JobsOK
<1> QED
  BY <1>1, <1>2

-----------------------------------------------------------------------------

LEMMA JobsInit == Init => IInv
<1> SUFFICES ASSUME Init PROVE IInv
  OBVIOUS
<1>1. asking \in BOOLEAN
  BY Zenon DEF Init
<1>2. RideOK /\ ClockOK
  BY DispatchJobsAssumption DEF Init, RideOK, RideType, ClockOK
<1>3. JobsOK /\ delayed \subseteq queued
  BY DispatchJobsAssumption DEF Init, JobsOK, Batches
<1>4. HoldOK
  BY JobFacts, DispatchJobsAssumption DEF Init, HoldOK, HoldType, Free, Positions
<1>5. ScanOK
  BY DEF Init, ScanOK
<1> QED
  BY <1>1, <1>2, <1>3, <1>4, <1>5 DEF IInv

\* The steps of the holder that leave the queue alone.
LEMMA HolderStays ==
  ASSUME IInv, Quiet,
         CheckTimeout \/ EnterIdle \/ EnterRequested \/ EnterDispatching \/ CloseBatch
           \/ SendBatch \/ ExpandSearch \/ GiveUp \/ Reject
  PROVE  RideOK' /\ ClockOK' /\ HoldOK'
<1> USE DEF IInv, Positions
<1>1. /\ ride \in RideType /\ hold \in HoldType /\ lapsed \in Nat /\ issued \in Nat
      /\ NextRadius(hold.radius) \in 1..MaxRadius /\ InitialRadius \in 1..MaxRadius
      /\ UNCHANGED <<queued, delayed>> /\ 1 \in Nat
      /\ ride.version + 1 \in Nat \ {0} /\ hold.version + 1 \in Nat \ {0}
      /\ hold.round + 1 \in Nat /\ ride.radius \in 1..MaxRadius /\ ride.round \in Nat
  BY DispatchJobsAssumption
     DEF RideType, RideOK, HoldOK, ClockOK, HoldType, NextRadius, Quiet, queueVars, Batches
<1>2. CASE CheckTimeout
  <2>1. hold' \in HoldType
    BY <1>1, <1>2 DEF CheckTimeout, ToWith, To, HoldType, RideType
  <2>2. /\ UNCHANGED <<ride, issued, lapsed>> /\ hold'.who = hold.who /\ hold.pc = "check"
        /\ \/ hold'.pc = "done"
           \/ /\ hold'.pc = "close"
              /\ ride.status = "DISPATCHING" /\ ride.batch = hold.who.at
    BY <1>1, <1>2 DEF CheckTimeout, ToWith, To, HoldType
  <2>3. RideOK' /\ ClockOK'
    BY <2>2 DEF RideOK, ClockOK
  <2> QED
    BY <1>1, <2>1, <2>2, <2>3 DEF HoldOK
<1>3. CASE EnterIdle
  <2>1. hold' \in HoldType
    BY <1>1, <1>3 DEF EnterIdle, To, HoldType
  <2> QED
    BY <1>1, <1>3, <2>1 DEF EnterIdle, To, HoldOK, RideOK, ClockOK, HoldType
<1>4. CASE EnterRequested
  <2>1. /\ hold' \in HoldType
        /\ ride' \in RideType /\ ride'.version # 0
    <3>1. hold' \in HoldType
      BY <1>1, <1>4, Zenon DEF EnterRequested, HoldType, Positions
    <3>2. ride' \in RideType
      BY <1>1, <1>4, Zenon DEF EnterRequested, RideType
    <3> QED
      BY <1>1, <1>4, <3>1, <3>2 DEF EnterRequested, HoldType, RideType
  <2>2. /\ hold'.who = hold.who /\ hold.pc = "enter" /\ hold'.pc = "search"
        /\ ride.status = "REQUESTED" /\ ride'.status = "DISPATCHING"
        /\ ride'.batch = ride.batch /\ UNCHANGED <<issued, lapsed>>
    BY <1>1, <1>4 DEF EnterRequested, HoldType, RideType
  <2>3. RideOK' /\ ClockOK'
    BY <2>1, <2>2 DEF RideOK, ClockOK
  <2> QED
    BY <1>1, <2>1, <2>2, <2>3 DEF HoldOK, RideOK
<1>5. CASE EnterDispatching
  <2>1. hold' \in HoldType
    BY <1>1, <1>5 DEF EnterDispatching, ToWith, HoldType, RideType
  <2> QED
    BY <1>1, <1>5, <2>1 DEF EnterDispatching, ToWith, HoldOK, RideOK, ClockOK, HoldType
<1>6. CASE CloseBatch
  <2>1. /\ hold' \in HoldType
        /\ ride' \in RideType /\ ride'.version # 0
    <3>1. hold' \in HoldType
      BY <1>1, <1>6, Zenon DEF CloseBatch, HoldType, Positions
    <3>2. ride' \in RideType
      BY <1>1, <1>6, Zenon DEF CloseBatch, RideType
    <3> QED
      BY <1>1, <1>6, <3>1, <3>2 DEF CloseBatch, HoldType, RideType
  <2>2. /\ hold'.who = hold.who /\ hold.pc = "close" /\ hold'.pc \in {"enter", "search"}
        /\ ride'.status = ride.status /\ ride'.batch = 0 /\ UNCHANGED <<issued, lapsed>>
    BY <1>1, <1>6 DEF CloseBatch, HoldType, RideType
  <2>3. RideOK' /\ ClockOK'
    BY <2>1, <2>2 DEF RideOK, ClockOK
  <2> QED
    BY <1>1, <2>1, <2>2, <2>3 DEF HoldOK
<1>7. CASE SendBatch
  <2>1. hold' \in HoldType /\ issued + 1 \in Batches
    BY <1>1, <1>7, DispatchJobsAssumption DEF SendBatch, To, HoldType, Batches
  <2>2. ride' \in RideType /\ ride'.version # 0
    BY <1>1, <1>7, <2>1 DEF SendBatch, HoldType, RideType
  <2>3. ClockOK'
    BY <1>7, <2>1 DEF SendBatch, ClockOK, Batches
  <2>4. /\ hold'.who = hold.who /\ hold.pc = "search" /\ hold'.pc = "sent"
        /\ ride'.status = ride.status /\ issued' # 0 /\ lapsed' = lapsed
    BY <1>1, <1>7 DEF SendBatch, To, HoldType, RideType
  <2>5. RideOK'
    BY <2>2, <2>4 DEF RideOK, HoldOK
  <2> QED
    BY <1>1, <2>1, <2>2, <2>3, <2>4, <2>5 DEF HoldOK
<1>8. CASE ExpandSearch
  <2>1. /\ hold' \in HoldType
        /\ ride' \in RideType /\ ride'.version # 0 /\ hold'.version # 0
    <3>1. hold' \in HoldType
      BY <1>1, <1>8, Zenon DEF ExpandSearch, HoldType, Positions
    <3>2. ride' \in RideType
      BY <1>1, <1>8, Zenon DEF ExpandSearch, RideType
    <3> QED
      BY <1>1, <1>8, <3>1, <3>2 DEF ExpandSearch, HoldType, RideType
  <2>2. /\ hold'.who = hold.who /\ hold.pc = "search" /\ hold'.pc = "expanded"
        /\ ride'.status = ride.status /\ ride'.batch = 0 /\ UNCHANGED <<issued, lapsed>>
    BY <1>1, <1>8 DEF ExpandSearch, HoldType, RideType
  <2>3. RideOK' /\ ClockOK'
    BY <2>1, <2>2 DEF RideOK, ClockOK
  <2> QED
    BY <1>1, <2>1, <2>2, <2>3 DEF HoldOK
<1>9. CASE GiveUp
  <2>1. /\ hold' \in HoldType
        /\ ride' \in RideType /\ ride'.version # 0
    <3>1. hold' \in HoldType
      BY <1>1, <1>9, Zenon DEF GiveUp, To, HoldType, Positions
    <3>2. ride' \in RideType
      BY <1>1, <1>9, Zenon DEF GiveUp, To, RideType
    <3> QED
      BY <1>1, <1>9, <3>1, <3>2 DEF GiveUp, To, HoldType, RideType
  <2>2. /\ hold'.who = hold.who /\ hold.pc = "search" /\ hold'.pc = "done"
        /\ ride'.status = "OVER" /\ ride'.batch = 0 /\ UNCHANGED <<issued, lapsed>>
    BY <1>1, <1>9 DEF GiveUp, To, HoldType, RideType
  <2>3. RideOK' /\ ClockOK'
    BY <2>1, <2>2 DEF RideOK, ClockOK
  <2> QED
    BY <1>1, <2>1, <2>2, <2>3 DEF HoldOK
<1>10. CASE Reject
  <2>1. /\ hold' \in HoldType
        /\ ride' \in RideType /\ ride'.version # 0
    <3>1. hold' \in HoldType
      BY <1>1, <1>10, Zenon DEF Reject, To, HoldType, Positions
    <3>2. PICK b \in {0, hold.batch} :
            ride' = [ride EXCEPT !.batch = b, !.version = hold.version + 1]
      BY <1>10 DEF Reject
    <3>3. b \in {0} \union Batches
      BY <1>1 DEF HoldType
    <3>4. ride' \in RideType
      BY <1>1, <3>2, <3>3, Zenon DEF RideType
    <3> QED
      BY <1>1, <1>10, <3>1, <3>4 DEF Reject, To, HoldType, RideType
  <2>2. /\ hold'.who = hold.who /\ hold.pc = "reject" /\ hold'.pc \in {"enter", "done"}
        /\ ride'.status = ride.status /\ UNCHANGED <<issued, lapsed>>
    BY <1>1, <1>10 DEF Reject, To, HoldType, RideType
  <2>3. RideOK' /\ ClockOK'
    BY <2>1, <2>2 DEF RideOK, ClockOK, HoldOK
  <2> QED
    BY <1>1, <2>1, <2>2, <2>3 DEF HoldOK
<1> QED
  BY <1>2, <1>3, <1>4, <1>5, <1>6, <1>7, <1>8, <1>9, <1>10

\* A holder that lets go of the lock leaves nothing behind.
LEMMA FreeOK ==
  ASSUME hold' \in {Free, [Free EXCEPT !.pc = "dead"]}
  PROVE  HoldOK'
  BY JobFacts, DispatchJobsAssumption DEF HoldOK, HoldType, Free, Positions

LEMMA HolderJobs ==
  ASSUME IInv, HolderStep
  PROVE  IInv'
<1> USE DEF Positions
<1>0. /\ ride \in RideType /\ hold \in HoldType /\ RideOK /\ ClockOK /\ JobsOK
      /\ delayed \subseteq queued /\ HoldOK /\ ScanOK /\ asking \in BOOLEAN
      /\ hold.version \in Nat
  BY DEF IInv, RideOK, HoldOK, HoldType
<1>1. CASE Quiet /\ (CheckTimeout \/ EnterIdle \/ EnterRequested \/ EnterDispatching
                       \/ CloseBatch \/ SendBatch \/ ExpandSearch \/ GiveUp \/ Reject)
  <2>1. RideOK' /\ ClockOK' /\ HoldOK'
    BY <1>1, HolderStays
  <2>2. UNCHANGED <<asking, queued, due, delayed, kept, tries, stalled, scan, lapsed>>
    BY <1>1 DEF Quiet, queueVars, CheckTimeout, EnterIdle, EnterRequested,
                EnterDispatching, CloseBatch, SendBatch, ExpandSearch, GiveUp, Reject
  <2>3. JobsOK' /\ delayed' \subseteq queued' /\ ScanOK'
    BY <1>0, <2>2 DEF JobsOK, ScanOK
  <2>4. asking' \in BOOLEAN
    BY <1>0, <2>2, Zenon
  <2> QED
    BY <2>1, <2>3, <2>4, Zenon DEF IInv
<1>2. CASE QueueTimeout \/ QueueExpansion
  <2>1. UNCHANGED <<ride, issued, lapsed, scan>> /\ hold' = [hold EXCEPT !.pc = "done"]
    BY <1>2 DEF QueueTimeout, QueueExpansion, To
  <2>2. asking' \in BOOLEAN
    BY <1>0, <1>2, Zenon DEF QueueTimeout, QueueExpansion
  <2>3. PICK j \in JobType : IsJob(j) /\ Add(j, FALSE) /\ hold.pc \in {"sent", "expanded"}
    <3>1. CASE QueueTimeout
      <4>1. Timeout(issued) \in JobType /\ IsJob(Timeout(issued))
        BY <1>0, <3>1, DispatchJobsAssumption
           DEF QueueTimeout, HoldOK, ClockOK, Batches, Timeout, Job, JobType, IsJob, Reasons
      <4> QED
        BY <3>1, <4>1 DEF QueueTimeout
    <3>2. CASE QueueExpansion
      <4>1. /\ Start(hold.version, "EXPAND_RADIUS") \in JobType
            /\ IsJob(Start(hold.version, "EXPAND_RADIUS"))
        BY <1>0, <3>2
           DEF QueueExpansion, HoldOK, Start, Job, JobType, IsJob, Reasons
      <4> QED
        BY <3>2, <4>1 DEF QueueExpansion
    <3> QED
      BY <1>2, <3>1, <3>2
  <2>4. /\ JobsOK' /\ delayed' \subseteq queued' /\ queued \subseteq queued'
        /\ delayed' \subseteq delayed \union {j}
        /\ j \in queued => delayed' = delayed
    BY <1>0, <2>3, AddJobs
  <2>5. hold.who \in (queued' \ delayed') \union {NoJob, Request}
    BY <1>0, <2>3, <2>4, JobFacts DEF HoldOK
  <2>6. hold' \in HoldType /\ hold'.who = hold.who /\ hold'.pc = "done"
    BY <1>0, <2>1 DEF HoldType
  <2>7. HoldOK'
    BY <1>0, <2>1, <2>3, <2>5, <2>6 DEF HoldOK
  <2>8. RideOK' /\ ClockOK' /\ ScanOK'
    BY <1>0, <2>1 DEF RideOK, ClockOK, ScanOK
  <2> QED
    BY <2>2, <2>4, <2>7, <2>8, Zenon DEF IInv
<1>3. CASE Finish \/ LockExpires
  <2>1. UNCHANGED <<ride, issued, lapsed, scan>> /\ hold' = Free /\ delayed' = {}
    BY <1>3 DEF Finish, LockExpires, Unlock
  <2>2. asking' \in BOOLEAN
    BY <1>0, <1>3, Zenon DEF Finish, LockExpires
  <2>3. JobsOK'
    <3>1. CASE Finish
      <4>1. CASE hold.who = Request
        BY <1>0, <3>1, <4>1 DEF Finish, jobVars, JobsOK
      <4>2. CASE hold.who # Request
        <5>1. hold.who \in queued /\ Settle(hold.who)
          BY <1>0, <3>1, <4>2 DEF Finish, HoldOK
        <5> QED
          BY <1>0, <5>1, SettleJobs
      <4> QED
        BY <4>1, <4>2
    <3>2. CASE LockExpires
      BY <1>0, <3>2 DEF LockExpires, jobVars, JobsOK
    <3> QED
      BY <1>3, <3>1, <3>2
  <2>4. HoldOK'
    BY <2>1, FreeOK
  <2>5. RideOK' /\ ClockOK' /\ ScanOK'
    BY <1>0, <2>1 DEF RideOK, ClockOK, ScanOK
  <2> QED
    BY <2>1, <2>2, <2>3, <2>4, <2>5, Zenon DEF IInv
<1> QED
  BY <1>1, <1>2, <1>3
     DEF HolderStep, CheckTimeout, EnterIdle, EnterRequested, EnterDispatching,
         CloseBatch, SendBatch, ExpandSearch, GiveUp, Reject

LEMMA WorkerJobs ==
  ASSUME IInv, NEW j \in queued, Take(j) \/ TakeLocked(j)
  PROVE  IInv'
<1> USE DEF Positions
<1>0. /\ RideOK /\ ClockOK /\ JobsOK /\ hold \in HoldType
      /\ delayed \subseteq queued /\ HoldOK /\ ScanOK /\ asking \in BOOLEAN
      /\ j \in JobType /\ IsJob(j) /\ j # NoJob /\ j # Request /\ j \notin kept
  BY JobFacts DEF IInv, JobsOK, HoldOK
<1>1. UNCHANGED <<ride, issued, lapsed, scan>>
  BY DEF Take, TakeLocked
<1>2. RideOK' /\ ClockOK' /\ ScanOK'
  BY <1>0, <1>1 DEF RideOK, ClockOK, ScanOK
<1>3. asking' \in BOOLEAN
  BY <1>0, Zenon DEF Take, TakeLocked
<1>4. CASE Take(j)
  <2>1. UNCHANGED <<queued, due, delayed, kept, tries, stalled>>
    BY <1>4 DEF Take, queueVars
  <2>2. JobsOK' /\ delayed' \subseteq queued'
    BY <1>0, <2>1 DEF JobsOK
  <2>3. hold' = [Free EXCEPT !.who = j, !.pc = IF j.name = "start" THEN "enter" ELSE "check"]
    BY <1>4 DEF Take
  <2>4. /\ hold'.who = j /\ hold'.pc = IF j.name = "start" THEN "enter" ELSE "check"
        /\ hold' \in HoldType
    <3>1. Free \in HoldType
      BY JobFacts, DispatchJobsAssumption DEF Free, HoldType
    <3>2. DEFINE p == IF j.name = "start" THEN "enter" ELSE "check"
    <3>3. p \in Positions
      OBVIOUS
    <3> HIDE DEF p
    <3>4. [Free EXCEPT !.who = j, !.pc = p] \in HoldType
          /\ [Free EXCEPT !.who = j, !.pc = p].who = j
          /\ [Free EXCEPT !.who = j, !.pc = p].pc = p
      BY <1>0, <3>1, <3>3, Zenon DEF HoldType
    <3> QED
      BY <2>3, <3>4 DEF p
  <2>5. j \notin delayed /\ (j.name = "timeout" => j.at <= lapsed)
    BY <1>0, <1>4 DEF Take, Ripe, JobsOK
  <2>6. j.name \in {"start", "timeout"}
    BY <1>0 DEF IsJob
  <2>7. HoldOK'
    BY <1>0, <1>1, <2>1, <2>4, <2>5, <2>6 DEF HoldOK
  <2> QED
    BY <1>2, <1>3, <2>2, <2>7, Zenon DEF IInv
<1>5. CASE TakeLocked(j)
  <2>1. /\ hold' = hold /\ Throw(j) /\ delayed' = delayed \union (queued' \intersect {j})
        /\ hold.who # j /\ j \notin delayed
    BY <1>5 DEF TakeLocked, Ripe
  <2>2. JobsOK' /\ queued' \in {queued, queued \ {j}}
    BY <1>0, <2>1, ThrowJobs
  <2>3. delayed' \subseteq queued'
    BY <1>0, <2>1, <2>2
  <2>4. HoldOK'
    BY <1>0, <1>1, <2>1, <2>2 DEF HoldOK
  <2> QED
    BY <1>2, <1>3, <2>2, <2>3, <2>4, Zenon DEF IInv
<1> QED
  BY <1>4, <1>5

\* A job that is added from outside the lock.
LEMMA OutsideAdds ==
  ASSUME IInv, UNCHANGED <<ride, issued, lapsed, hold>>,
         NEW j \in JobType, IsJob(j), Add(j, TRUE),
         j.name = "timeout" => j.at <= lapsed
  PROVE  RideOK' /\ ClockOK' /\ JobsOK' /\ delayed' \subseteq queued' /\ HoldOK'
<1>0. /\ RideOK /\ ClockOK /\ JobsOK /\ delayed \subseteq queued /\ HoldOK
      /\ lapsed \in Nat /\ j.at \in Nat
  BY DEF IInv, ClockOK, JobType
<1>1. j.name = "timeout" => ~(j.at > lapsed)
  BY <1>0
<1>2. JobsOK' /\ delayed' \subseteq queued' /\ queued \subseteq queued'
  BY <1>0, <1>1, AddJobs
<1>3. delayed' = delayed
  BY DEF Add
<1>4. HoldOK'
  BY <1>0, <1>2, <1>3 DEF HoldOK
<1> QED
  BY <1>0, <1>2, <1>4 DEF RideOK, ClockOK

LEMMA ScanJobs == ASSUME IInv, ScanReads \/ ScanQueues \/ ScanDies PROVE IInv'
<1>0. /\ RideOK /\ ClockOK /\ JobsOK
      /\ delayed \subseteq queued /\ HoldOK /\ ScanOK /\ asking \in BOOLEAN
  BY DEF IInv
<1>1. UNCHANGED <<ride, issued, lapsed, hold>>
  BY DEF ScanReads, ScanQueues, ScanDies, Troubled
<1>2. asking' \in BOOLEAN
  BY <1>0, Zenon DEF ScanReads, ScanQueues, ScanDies
<1>3. CASE ScanReads \/ ScanDies
  <2>1. UNCHANGED <<queued, due, delayed, kept, tries, stalled>> /\ scan' \in {Wanted, NoJob}
    BY <1>3 DEF ScanReads, ScanDies, queueVars
  <2>2. Wanted = NoJob \/ (/\ Wanted \in JobType /\ IsJob(Wanted)
                           /\ (Wanted.name = "timeout" => Wanted.at <= lapsed))
    <3>1. CASE ride.status # "DISPATCHING" \/ ride.batch > lapsed
      BY <3>1 DEF Wanted
    <3>2. CASE ~(ride.status # "DISPATCHING" \/ ride.batch > lapsed) /\ ride.batch = 0
      BY <1>0, <3>2 DEF Wanted, Start, Job, JobType, IsJob, Reasons, RideOK, RideType
    <3>3. CASE ~(ride.status # "DISPATCHING" \/ ride.batch > lapsed) /\ ride.batch # 0
      BY <1>0, <3>3, DispatchJobsAssumption
         DEF Wanted, Timeout, Job, JobType, IsJob, Reasons, RideOK, RideType, ClockOK, Batches
    <3> QED
      BY <3>1, <3>2, <3>3
  <2>3. ScanOK'
    BY <1>1, <2>1, <2>2 DEF ScanOK
  <2>4. RideOK' /\ ClockOK' /\ JobsOK' /\ delayed' \subseteq queued' /\ HoldOK'
    BY <1>0, <1>1, <2>1 DEF RideOK, ClockOK, JobsOK, HoldOK
  <2> QED
    BY <1>2, <2>3, <2>4, Zenon DEF IInv
<1>4. CASE ScanQueues
  <2>1. scan # NoJob /\ Add(scan, TRUE) /\ scan' = NoJob
    BY <1>4 DEF ScanQueues
  <2>2. scan \in JobType /\ IsJob(scan) /\ (scan.name = "timeout" => scan.at <= lapsed)
    BY <1>0, <2>1 DEF ScanOK
  <2>3. RideOK' /\ ClockOK' /\ JobsOK' /\ delayed' \subseteq queued' /\ HoldOK'
    BY <1>1, <2>1, <2>2, OutsideAdds
  <2>4. ScanOK'
    BY <2>1 DEF ScanOK
  <2> QED
    BY <1>2, <2>3, <2>4, Zenon DEF IInv
<1> QED
  BY <1>3, <1>4

LEMMA RequestJobs == ASSUME IInv, RequestQueues \/ RequestDies PROVE IInv'
<1>0. /\ RideOK /\ ClockOK /\ JobsOK
      /\ delayed \subseteq queued /\ HoldOK /\ ScanOK
  BY DEF IInv
<1>1. UNCHANGED <<ride, issued, lapsed, hold, scan>>
  BY DEF RequestQueues, RequestDies, Troubled
<1>2. asking' \in BOOLEAN
  BY Zenon DEF RequestQueues, RequestDies
<1>3. ScanOK'
  BY <1>0, <1>1 DEF ScanOK
<1>4. RideOK' /\ ClockOK' /\ JobsOK' /\ delayed' \subseteq queued' /\ HoldOK'
  <2>1. CASE RequestQueues
    <3>1. Start(1, "REQUESTED") \in JobType /\ IsJob(Start(1, "REQUESTED"))
          /\ Start(1, "REQUESTED").name # "timeout"
      BY DEF Start, Job, JobType, IsJob, Reasons
    <3> QED
      BY <1>1, <2>1, <3>1, OutsideAdds DEF RequestQueues
  <2>2. CASE RequestDies
    BY <1>0, <1>1, <2>2 DEF RequestDies, queueVars, RideOK, ClockOK, JobsOK, HoldOK
  <2> QED
    BY <2>1, <2>2
<1> QED
  BY <1>2, <1>3, <1>4, Zenon DEF IInv

\* What leaves the queue and the lock alone.
LEMMA RideJobs ==
  ASSUME IInv, Accept \/ Cancel \/ Lapse \/ \E j \in kept : Forget(j)
  PROVE  IInv'
<1>0. /\ RideOK /\ ClockOK /\ JobsOK
      /\ delayed \subseteq queued /\ HoldOK /\ ScanOK /\ asking \in BOOLEAN
  BY DEF IInv
<1>1. UNCHANGED <<queued, due, delayed, tries, stalled, hold, scan>> /\ kept' \subseteq kept
  BY DEF Accept, Cancel, Lapse, Forget, queueVars
<1>2. asking' \in BOOLEAN
  BY <1>0, Zenon DEF Accept, Cancel, Lapse, Forget
<1>3. JobsOK' /\ delayed' \subseteq queued'
  BY <1>0, <1>1 DEF JobsOK
<1>4. CASE Accept \/ Cancel
  <2>1. ride.version + 1 \in Nat \ {0}
    BY <1>0 DEF RideOK, RideType
  <2>2. ride' \in RideType
    BY <1>0, <1>4, <2>1, Zenon DEF Accept, Cancel, RideOK, RideType
  <2>3. ride'.status = "OVER" /\ ride'.version # 0 /\ UNCHANGED <<issued, lapsed>>
    BY <1>0, <1>4, <2>1 DEF Accept, Cancel, RideOK, RideType
  <2>4. RideOK' /\ ClockOK' /\ HoldOK' /\ ScanOK'
    BY <1>0, <1>1, <2>2, <2>3 DEF RideOK, ClockOK, HoldOK, ScanOK
  <2> QED
    BY <1>2, <1>3, <2>4, Zenon DEF IInv
<1>5. CASE Lapse \/ \E j \in kept : Forget(j)
  <2>1. /\ UNCHANGED <<ride, issued>> /\ lapsed' \in {lapsed, issued}
        /\ lapsed \in Nat /\ issued \in Nat /\ lapsed <= issued
    BY <1>0, <1>5, DispatchJobsAssumption DEF Lapse, Forget, ClockOK, Batches
  <2>2. RideOK' /\ ClockOK'
    BY <1>0, <2>1 DEF RideOK, ClockOK
  <2>3. \A n \in Nat : n <= lapsed => n <= lapsed'
    BY <2>1
  <2>4. ScanOK'
    BY <1>0, <1>1, <2>3 DEF ScanOK, JobType
  <2>5. hold.who.at \in Nat /\ ride.batch \in Nat
    BY <1>0, DispatchJobsAssumption DEF HoldOK, HoldType, JobType, RideOK, RideType, Batches
  <2>6. HoldOK'
    BY <1>0, <1>1, <2>1, <2>3, <2>5 DEF HoldOK
  <2> QED
    BY <1>2, <1>3, <2>2, <2>4, <2>6, Zenon DEF IInv
<1> QED
  BY <1>4, <1>5

LEMMA TroubleJobs ==
  ASSUME IInv, RejectBegins \/ IdleRequest \/ HolderThrows \/ HolderDies
  PROVE  IInv'
<1> USE DEF Positions
<1>0. /\ RideOK /\ ClockOK /\ JobsOK
      /\ delayed \subseteq queued /\ HoldOK /\ ScanOK /\ asking \in BOOLEAN
  BY DEF IInv
<1>1. UNCHANGED <<ride, issued, lapsed, scan>>
  BY DEF RejectBegins, IdleRequest, HolderThrows, HolderDies, Troubled
<1>2. asking' \in BOOLEAN
  BY <1>0, Zenon DEF RejectBegins, IdleRequest, HolderThrows, HolderDies
<1>3. RideOK' /\ ClockOK' /\ ScanOK'
  BY <1>0, <1>1 DEF RideOK, ClockOK, ScanOK
<1>4. CASE RejectBegins \/ IdleRequest
  <2>1. UNCHANGED <<queued, due, delayed, kept, tries, stalled>>
    BY <1>4 DEF RejectBegins, IdleRequest, queueVars
  <2>2. JobsOK' /\ delayed' \subseteq queued'
    BY <1>0, <2>1 DEF JobsOK
  <2>3. Free \in HoldType /\ Request \in JobType /\ ride.version \in Nat
        /\ ride.batch \in {0} \union Batches
    BY <1>0, JobFacts, DispatchJobsAssumption DEF Free, HoldType, RideOK, RideType
  <2>4. hold' \in HoldType /\ hold'.who = Request
    BY <1>4, <2>3, Zenon DEF RejectBegins, IdleRequest, HoldType
  <2>5. hold'.pc \in {"reject", "done"}
        /\ (hold'.pc = "reject" => ride.status = "DISPATCHING")
    BY <1>4, <2>3 DEF RejectBegins, IdleRequest, HoldType
  <2>6. HoldOK'
    BY <1>1, <2>4, <2>5, JobFacts DEF HoldOK
  <2> QED
    BY <1>2, <1>3, <2>2, <2>6, Zenon DEF IInv
<1>5. CASE HolderThrows
  <2>1. /\ hold' = Free /\ delayed' = {}
        /\ IF hold.who = Request THEN UNCHANGED jobVars ELSE Throw(hold.who)
        /\ hold.who # NoJob
    BY <1>5 DEF HolderThrows, Unlock
  <2>2. JobsOK'
    <3>1. CASE hold.who = Request
      BY <1>0, <2>1, <3>1 DEF jobVars, JobsOK
    <3>2. CASE hold.who # Request
      <4>1. hold.who \in queued
        BY <1>0, <2>1, <3>2 DEF HoldOK
      <4> QED
        BY <1>0, <2>1, <3>2, <4>1, ThrowJobs
    <3> QED
      BY <3>1, <3>2
  <2>3. HoldOK'
    BY <2>1, FreeOK
  <2> QED
    BY <1>2, <1>3, <2>1, <2>2, <2>3, Zenon DEF IInv
<1>6. CASE HolderDies
  <2>1. hold' = [Free EXCEPT !.pc = "dead"] /\ hold.who # NoJob
    BY <1>6 DEF HolderDies
  <2>2. HoldOK'
    BY <2>1, FreeOK
  <2>3. JobsOK' /\ delayed' \subseteq queued'
    <3>1. CASE hold.who = Request
      BY <1>0, <1>6, <3>1 DEF HolderDies, queueVars, JobsOK
    <3>2. CASE hold.who # Request /\ hold.who \in stalled
      <4>1. Settle(hold.who) /\ delayed' = delayed
        BY <1>6, <3>2 DEF HolderDies
      <4>2. hold.who \in queued \ delayed
        BY <1>0, <2>1, <3>2 DEF HoldOK
      <4>3. JobsOK' /\ queued' = queued \ {hold.who}
        BY <1>0, <4>1, <4>2, SettleJobs
      <4> QED
        BY <1>0, <4>1, <4>2, <4>3
    <3>3. CASE hold.who # Request /\ hold.who \notin stalled
      <4>1. /\ stalled' = stalled \union {hold.who} /\ delayed' = delayed \union {hold.who}
            /\ UNCHANGED <<queued, due, kept, tries>>
        BY <1>6, <3>3 DEF HolderDies, NoticedLater
      <4>2. hold.who \in queued
        BY <1>0, <2>1, <3>3 DEF HoldOK
      <4> QED
        BY <1>0, <4>1, <4>2 DEF JobsOK
    <3> QED
      BY <3>1, <3>2, <3>3
  <2> QED
    BY <1>2, <1>3, <2>2, <2>3, Zenon DEF IInv
<1> QED
  BY <1>4, <1>5, <1>6

LEMMA JobsStep == IInv /\ [Next]_vars => IInv'
<1> SUFFICES ASSUME IInv, [Next]_vars PROVE IInv'
  OBVIOUS
<1>1. CASE Next
  BY <1>1, HolderJobs, WorkerJobs, ScanJobs, RequestJobs, RideJobs, TroubleJobs
     DEF Next, WorkerStep, ScanStep
<1>2. CASE UNCHANGED vars
  BY <1>2 DEF vars, IInv, RideOK, ClockOK, JobsOK, HoldOK, ScanOK
<1> QED
  BY <1>1, <1>2

\* Every variable keeps its type, for any limits and bounds.
THEOREM JobsTypeOK == Spec => []TypeOK
<1> QED
  BY JobsInit, JobsStep, IInvTypes, PTL DEF Spec

\* Whoever closes a batch for a job found its deadline passed.
LEMMA ClosedOnTime ==
  ASSUME IInv, Next, hold.who.name \in {"start", "timeout"}, ride.status = "DISPATCHING",
         ride.batch # 0, ride'.batch # ride.batch, ride'.status = "DISPATCHING"
  PROVE  ride.batch <= lapsed
<1>1. HoldOK /\ ride \in RideType /\ ride' # ride
  BY DEF IInv, RideOK
<1>2. CASE CloseBatch
  BY <1>1, <1>2 DEF CloseBatch, HoldOK
<1>3. CASE SendBatch \/ ExpandSearch
  BY <1>1, <1>3 DEF SendBatch, ExpandSearch, HoldOK
<1>4. CASE GiveUp \/ Accept \/ Cancel
  BY <1>1, <1>4 DEF GiveUp, Accept, Cancel, RideType
<1>5. CASE Reject
  BY <1>1, <1>5, JobFacts DEF Reject, HoldOK
<1>6. CASE EnterRequested
  BY <1>1, <1>6 DEF EnterRequested, RideType
<1>7. ASSUME ~CloseBatch, ~SendBatch, ~ExpandSearch, ~GiveUp, ~Accept, ~Cancel, ~Reject,
             ~EnterRequested
      PROVE  ride' = ride
  BY <1>7 DEF Next, WorkerStep, ScanStep, HolderStep, Take, TakeLocked, CheckTimeout,
              EnterIdle, EnterDispatching, QueueTimeout, QueueExpansion, Finish,
              LockExpires, ScanReads, ScanQueues, Lapse, Forget, RequestQueues,
              RejectBegins, IdleRequest, HolderThrows, HolderDies, RequestDies,
              ScanDies, Troubled
<1> QED
  BY <1>1, <1>2, <1>3, <1>4, <1>5, <1>6, <1>7

\* No job closes a batch before its deadline: a timeout in the queue is delayed
\* to it, the scan queues one only after it, and what a start closes has lapsed.
THEOREM NoTimeoutIsEarly == Spec => NoEarlyTimeout
<1> DEFINE OnTime ==
      hold.who.name \in {"start", "timeout"} /\ ride.status = "DISPATCHING"
        /\ ride.batch # 0 /\ ride'.batch # ride.batch /\ ride'.status = "DISPATCHING"
        => ride.batch <= lapsed
<1>1. IInv /\ [Next]_vars => [OnTime]_vars
  BY ClosedOnTime
<1> HIDE DEF OnTime
<1>2. Spec => [][OnTime]_vars
  BY <1>1, JobsInit, JobsStep, PTL DEF Spec
<1> QED
  BY <1>2 DEF OnTime, NoEarlyTimeout

-----------------------------------------------------------------------------
\* The first job of a ride.

First == Start(1, "REQUESTED")

\* Nothing has gone wrong, or only the worker of the first job has died.
Calm == ride.status = "REQUESTED" /\ (trouble = 0 \/ (trouble = 1 /\ hold.pc = "dead"))

\* The first job is then the only one there is or has been; it waits, runs, or
\* is delayed until the lock of its dead worker is gone.
FirstOnly ==
    Calm => /\ kept = {} /\ scan = NoJob
            /\ (trouble = 0 => stalled = {})
            /\ asking => queued = {} /\ trouble = 0 /\ hold.pc = "free"
            /\ ~asking => /\ queued = {First}
                          /\ (trouble = 0 => \/ hold.pc = "free"
                                            \/ (hold.pc = "enter" /\ hold.who = First))
                          /\ (trouble = 1 => First \in delayed)

LEMMA FirstFacts == First.name = "start" /\ First # Request /\ First # NoJob
  BY JobFacts DEF First, Start, Job

LEMMA FirstInit == Init => FirstOnly
  BY DEF Init, FirstOnly, Free

LEMMA FreePosition == Free.pc = "free" /\ [Free EXCEPT !.who = Request, !.pc = "done"].pc = "done"
  BY DEF Free

\* The steps that are trouble, and the others.
LEMMA Troubles ==
  ASSUME Next, Troubled, trouble \in Nat
  PROVE  \/ RejectBegins \/ IdleRequest \/ HolderThrows
         \/ HolderDies \/ RequestDies \/ ScanDies
<1>1. trouble' # trouble
  BY DEF Troubled
<1> QED
  BY <1>1 DEF Next, WorkerStep, ScanStep, HolderStep, Take, TakeLocked, CheckTimeout,
              EnterIdle, EnterRequested, EnterDispatching, CloseBatch, SendBatch,
              QueueTimeout, ExpandSearch, QueueExpansion, GiveUp, Reject, Finish,
              LockExpires, ScanReads, ScanQueues, Lapse, Forget, RequestQueues, Accept,
              Cancel, Quiet

LEMMA Quietly ==
  ASSUME Next, ~Troubled
  PROVE  \/ WorkerStep \/ HolderStep \/ RequestQueues \/ ScanReads \/ ScanQueues
         \/ Lapse \/ Accept \/ Cancel \/ \E j \in kept : Forget(j)
  BY DEF Next, ScanStep, RejectBegins, IdleRequest, HolderThrows, HolderDies, RequestDies,
         ScanDies

LEMMA DeadHolder ==
  ASSUME Next, ~Troubled, hold \in HoldType
  PROVE  /\ trouble' = trouble
         /\ hold'.pc = "dead" => hold.pc = "dead" /\ hold' = hold
<1>1. CASE WorkerStep
  BY <1>1 DEF WorkerStep, Take, TakeLocked, Free
<1>2. CASE HolderStep
  <2>1. trouble' = trouble
    BY <1>2 DEF HolderStep, CheckTimeout, EnterIdle, EnterRequested, EnterDispatching,
                CloseBatch, SendBatch, QueueTimeout, ExpandSearch, QueueExpansion, GiveUp,
                Reject, Finish, LockExpires, Quiet
  <2>2. ASSUME NEW pc, pc # "dead", To(pc) \/ ToWith(pc) PROVE hold'.pc # "dead"
    BY <2>2 DEF To, ToWith, HoldType
  <2>3. CASE CheckTimeout \/ EnterIdle \/ EnterDispatching \/ SendBatch \/ QueueTimeout
             \/ QueueExpansion \/ GiveUp \/ Reject
    <3>1. \E pc \in Positions \ {"dead"} : To(pc) \/ ToWith(pc)
      BY <2>3 DEF CheckTimeout, EnterIdle, EnterDispatching, SendBatch, QueueTimeout,
                  QueueExpansion, GiveUp, Reject, Positions
    <3> QED
      BY <2>1, <2>2, <3>1
  <2>4. CASE EnterRequested \/ CloseBatch \/ ExpandSearch
    BY <2>1, <2>4 DEF EnterRequested, CloseBatch, ExpandSearch, HoldType
  <2>5. CASE Finish \/ LockExpires
    BY <2>1, <2>5 DEF Finish, LockExpires, Unlock, Free
  <2> QED
    BY <1>2, <2>3, <2>4, <2>5 DEF HolderStep
<1>3. CASE \/ RequestQueues \/ ScanReads \/ ScanQueues \/ Lapse \/ Accept \/ Cancel
           \/ \E j \in kept : Forget(j)
  BY <1>3 DEF RequestQueues, ScanReads, ScanQueues, Lapse, Accept, Cancel, Forget
<1> QED
  BY <1>1, <1>2, <1>3, Quietly

LEMMA FirstStep ==
  ASSUME IInv, trouble \in Nat, FirstOnly, Next, Calm'
  PROVE  FirstOnly'
<1>1. /\ RideOK /\ HoldOK /\ hold.who \in JobType /\ lapsed \in Nat
      /\ hold \in HoldType
  BY DEF IInv, HoldOK, HoldType, ClockOK
<1>2. /\ trouble' \in {trouble, trouble + 1}
      /\ ride'.status = "REQUESTED" => ride.status = "REQUESTED" /\ ride' = ride
  <2>1. /\ trouble' \in {trouble, trouble + 1}
        /\ \/ ride' = ride \/ Accept \/ Cancel \/ EnterRequested \/ CloseBatch
           \/ SendBatch \/ ExpandSearch \/ GiveUp \/ Reject
    BY DEF Next, WorkerStep, ScanStep, HolderStep, Take, TakeLocked, CheckTimeout, EnterIdle,
           EnterRequested, EnterDispatching, CloseBatch, SendBatch, QueueTimeout, ExpandSearch,
           QueueExpansion, GiveUp, Reject, Finish, LockExpires, ScanReads, ScanQueues, Lapse,
           Forget, RequestQueues, RejectBegins, IdleRequest, HolderThrows, HolderDies,
           RequestDies, ScanDies, Accept, Cancel, Troubled, Quiet
  <2>2. ride \in RideType /\ \A x \in RideType : x.status = "REQUESTED" \/ x.status # "REQUESTED"
    BY <1>1 DEF RideOK
  <2>3. ASSUME Accept \/ Cancel \/ EnterRequested \/ GiveUp PROVE ride'.status # "REQUESTED"
    BY <2>2, <2>3 DEF Accept, Cancel, EnterRequested, GiveUp, RideType
  <2>4. ASSUME CloseBatch \/ SendBatch \/ ExpandSearch \/ Reject
        PROVE  ride'.status = ride.status /\ ride.status # "REQUESTED"
    BY <1>1, <2>2, <2>4 DEF CloseBatch, SendBatch, ExpandSearch, Reject, RideType, HoldOK
  <2> QED
    BY <2>1, <2>3, <2>4
<1>3. ride.status = "REQUESTED" /\ ride' = ride /\ trouble \in {0, 1}
  BY <1>2 DEF Calm
\* A death is calm only if the first job's was the first trouble.
<1>4. CASE HolderDies
  <2>1. /\ trouble' = trouble + 1 /\ hold.who # NoJob /\ asking' = asking /\ scan' = scan
    BY <1>4 DEF HolderDies, Troubled
  <2>2. trouble = 0 /\ Calm
    BY <1>3, <2>1 DEF Calm
  <2>3. /\ hold.who = First /\ ~asking /\ stalled = {} /\ kept = {} /\ queued = {First}
        /\ scan = NoJob
    BY <1>1, <2>1, <2>2 DEF FirstOnly, HoldOK
  <2>4. /\ delayed' = delayed \union {First} /\ queued' = queued /\ kept' = kept
    BY <1>4, <2>3, FirstFacts DEF HolderDies, NoticedLater
  <2> QED
    BY <2>1, <2>2, <2>3, <2>4 DEF FirstOnly
\* No other trouble is.
<1>5. CASE Troubled /\ ~HolderDies
  <2>1. CASE RejectBegins
    BY <1>3, <2>1 DEF RejectBegins
  <2>2. CASE IdleRequest \/ HolderThrows
    <3>1. trouble' # 0 /\ hold'.pc = "dead"
      BY <1>3, <1>5 DEF Calm, Troubled
    <3>2. hold'.pc \in {"free", "done"}
      BY <2>2, FreePosition DEF IdleRequest, HolderThrows, Unlock
    <3> QED
      BY <3>1, <3>2
  <2>3. CASE RequestDies \/ ScanDies
    <3>1. hold' = hold /\ trouble = 0 /\ hold.pc = "dead"
      BY <1>3, <1>5, <2>3 DEF Calm, RequestDies, ScanDies, Troubled
    <3> QED
      BY <1>3, <3>1, FirstFacts DEF FirstOnly, Calm
  <2> QED
    BY <1>5, <2>1, <2>2, <2>3, Troubles
<1>6. CASE ~Troubled
  <2>1. /\ trouble' = trouble
        /\ hold'.pc = "dead" => hold.pc = "dead" /\ hold' = hold
    BY <1>1, <1>6, DeadHolder
  <2>2. /\ Calm /\ kept = {} /\ scan = NoJob /\ ride.batch = 0
        /\ trouble = 0 => stalled = {}
        /\ asking => queued = {} /\ trouble = 0 /\ hold.pc = "free"
        /\ ~asking => queued = {First}
        /\ \/ hold.pc = "free"
           \/ hold.pc = "dead" /\ trouble = 1
           \/ hold.pc = "enter" /\ hold.who = First
    BY <1>1, <1>3, <2>1 DEF Calm, FirstOnly, RideOK
  <2>3. CASE WorkerStep
    <3>1. PICK j \in queued : Take(j) \/ TakeLocked(j)
      BY <2>3 DEF WorkerStep
    <3>2. j = First /\ ~asking
      BY <2>2, <3>1
    <3>3. CASE TakeLocked(j)
      BY <2>2, <3>2, <3>3 DEF TakeLocked, Ripe, FirstOnly, Calm
    <3>4. CASE Take(j)
      <4>1. /\ hold' = [Free EXCEPT !.who = First, !.pc = "enter"]
            /\ UNCHANGED <<asking, queued, delayed, kept, stalled, scan>>
        BY <3>2, <3>4, FirstFacts DEF Take, queueVars
      <4>2. hold'.pc = "enter" /\ hold'.who = First
        BY <4>1 DEF Free
      <4>3. trouble = 0
        BY <2>1, <3>4, <4>2 DEF Calm
      <4> QED
        BY <2>1, <2>2, <3>2, <4>1, <4>2, <4>3 DEF FirstOnly
    <3> QED
      BY <3>1, <3>3, <3>4
  <2>4. CASE HolderStep
    <3>1. hold.pc \in {"free", "enter", "dead"} /\ ~(ride.batch > lapsed)
      BY <1>1, <2>2
    <3>2. CASE LockExpires
      BY <2>1, <2>2, <3>2, FreePosition DEF LockExpires, Unlock, Calm, FirstOnly
    <3>3. ~EnterRequested
      BY <1>1, <1>3 DEF EnterRequested, RideOK, RideType
    <3>4. ~EnterIdle /\ ~EnterDispatching
      BY <1>3, <3>1 DEF EnterIdle, EnterDispatching
    <3>5. /\ ~CheckTimeout /\ ~CloseBatch /\ ~SendBatch /\ ~QueueTimeout /\ ~ExpandSearch
          /\ ~QueueExpansion /\ ~GiveUp /\ ~Reject /\ ~Finish
      BY <3>1 DEF CheckTimeout, CloseBatch, SendBatch, QueueTimeout, ExpandSearch,
                  QueueExpansion, GiveUp, Reject, Finish
    <3> QED
      BY <2>4, <3>2, <3>3, <3>4, <3>5 DEF HolderStep
  <2>5. CASE RequestQueues
    <3>1. /\ queued' = {First} /\ asking' = FALSE
          /\ UNCHANGED <<kept, stalled, hold, scan>>
      BY <2>2, <2>5 DEF RequestQueues, Add, First
    <3> QED
      BY <2>1, <2>2, <2>5, <3>1 DEF FirstOnly, RequestQueues
  <2>6. CASE ScanReads
    <3>1. scan' = NoJob /\ UNCHANGED <<asking, queued, delayed, kept, stalled, hold>>
      BY <1>3, <2>6 DEF ScanReads, Wanted, queueVars
    <3> QED
      BY <2>1, <2>2, <3>1 DEF FirstOnly
  <2>7. CASE Lapse
    <3>1. UNCHANGED <<asking, queued, delayed, kept, stalled, hold, scan>>
      BY <2>7 DEF Lapse, queueVars
    <3> QED
      BY <2>1, <2>2, <3>1 DEF FirstOnly
  <2>8. ~ScanQueues /\ ~Accept /\ ~Cancel /\ ~(\E j \in kept : Forget(j))
    <3>1. ~Cancel
      BY <1>1, <1>3 DEF Cancel, RideOK, RideType
    <3> QED
      BY <1>3, <2>2, <3>1 DEF ScanQueues, Accept
  <2> QED
    BY <1>6, <2>3, <2>4, <2>5, <2>6, <2>7, <2>8, Quietly
<1> QED
  BY <1>4, <1>5, <1>6 DEF HolderDies

\* As long as nothing goes wrong a requested ride has its job in the queue, and
\* so it has after the death of the worker that ran it: that job is run again
\* only when lock:ride has expired, and so is not spent on RIDE_LOCKED
\* (requestRide, dispatch.worker.js).
THEOREM FirstJobIsKept == Spec => []FirstJobSurvives
<1> DEFINE Inv == IInv /\ trouble \in Nat /\ FirstOnly
<1>1. Init => Inv
  BY JobsInit, FirstInit DEF Init
<1>2. Inv /\ [Next]_vars => Inv'
  <2> SUFFICES ASSUME Inv, [Next]_vars PROVE Inv'
    OBVIOUS
  <2>1. IInv'
    BY JobsStep
  <2>2. CASE UNCHANGED vars
    <3>1. FirstOnly'
      BY <2>2 DEF vars, FirstOnly, Calm
    <3> QED
      BY <2>1, <2>2, <3>1 DEF vars
  <2>3. CASE Next
    <3>1. trouble' \in Nat
      BY <2>3, DeadHolder DEF Troubled, IInv, HoldOK
    <3>2. FirstOnly'
      BY <2>3, FirstStep DEF FirstOnly
    <3> QED
      BY <2>1, <3>1, <3>2
  <2> QED
    BY <2>2, <2>3
<1>3. Inv => FirstJobSurvives
  BY DEF FirstOnly, FirstJobSurvives, Calm, First
<1> QED
  BY <1>1, <1>2, <1>3, PTL DEF Spec
=============================================================================
