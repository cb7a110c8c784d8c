---------------------------- MODULE RideLifecycle ----------------------------
(***************************************************************************)
(* What a ride promises to its customer, without dispatch batches, locks   *)
(* or Redis: its status moves along the RideTransitions table, one driver  *)
(* at most is ever assigned to it, and only while it is dispatching.       *)
(*                                                                         *)
(* The two edges of the table that lead back to DISPATCHING belong to      *)
(* requeueRideAfterDriverLoss, which nothing calls: the program promises,  *)
(* and this module states, that they are not taken.                        *)
(***************************************************************************)
EXTENDS RideStatus

VARIABLES
    status,     \* status[r]: the status field of ride r
    driver      \* driver[r]: its driverId, or NoDriver

vars == <<status, driver>>

Init ==
    /\ status = [r \in Rides |-> "REQUESTED"]
    /\ driver = [r \in Rides |-> NoDriver]

\* A driver wins the ride.
Assign(r, d) ==
    /\ status[r] = "DISPATCHING"
    /\ driver[r] = NoDriver
    /\ status' = [status EXCEPT ![r] = "ACCEPTED"]
    /\ driver' = [driver EXCEPT ![r] = d]

\* Any other change of status: the assignment stays as it is.
Advance(r, s) ==
    /\ <<status[r], s>> \in RideTransitions
    /\ s # "ACCEPTED"
    /\ s = "DISPATCHING" => status[r] = "REQUESTED"
    /\ status' = [status EXCEPT ![r] = s]
    /\ UNCHANGED driver

Next ==
    \E r \in Rides :
        \/ \E d \in Drivers : Assign(r, d)
        \/ \E s \in RideStatuses : Advance(r, s)

Spec == Init /\ [][Next]_vars

-----------------------------------------------------------------------------

TypeOK ==
    /\ status \in [Rides -> RideStatuses]
    /\ driver \in [Rides -> Drivers \union {NoDriver}]

\* A ride under way or completed has a driver; one that is requested or
\* dispatching has none (a cancelled one may or may not have had one).
AssignedIffAccepted ==
    \A r \in Rides :
        /\ status[r] \in AssignedStatuses => driver[r] \in Drivers
        /\ status[r] \in UnassignedStatuses => driver[r] = NoDriver

\* No second driver: once assigned, the driver of a ride never changes.
AssignmentIsFinal ==
    [][\A r \in Rides : driver[r] # NoDriver => driver'[r] = driver[r]]_vars

\* A completed or cancelled ride stays as it is.
TerminalIsFinal ==
    [][\A r \in Rides :
          status[r] \in TerminalRideStatuses => status'[r] = status[r]]_vars
=============================================================================
