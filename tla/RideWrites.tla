----------------------------- MODULE RideWrites -----------------------------
(***************************************************************************)
(* Who changes the status and the version of a ride, and from what: the    *)
(* contract between the handlers, which RideDispatch models, and the       *)
(* modules that follow what the handlers wrote, RideCopies to Mongo and    *)
(* CustomerFeed to the customer.                                           *)
(*                                                                         *)
(* The holder of the ride's lock reads the ride and later writes what it   *)
(* set out to do, with the version it read plus one; the accept script     *)
(* takes no lock and increments the version where it is.                   *)
(***************************************************************************)
EXTENDS RideStatus, Naturals

VARIABLES
    ride,       \* ride[r]: status and version of its hash
    snap        \* snap[r]: what the holder of its lock goes by, or Nothing

vars == <<ride, snap>>

Nothing == [status |-> "NONE", version |-> 0]

Init ==
    /\ ride = [r \in Rides |-> [status |-> "REQUESTED", version |-> 1]]
    /\ snap \in [Rides -> {Nothing, [status |-> "REQUESTED", version |-> 1]}]

\* A handler gets hold of the ride, reads it again, or lets go of it.
Read(r) ==
    /\ \E s \in {Nothing, ride[r]} : snap' = [snap EXCEPT ![r] = s]
    /\ UNCHANGED ride

\* Writes the ride; whoever does may read it at once and go on from there.
Becomes(r, new, snaps) ==
    /\ ride' = [ride EXCEPT ![r] = new]
    /\ \E s \in snaps : snap' = [snap EXCEPT ![r] = s]

\* The holder does op, one of what a ride of the status it read allows.
Write(r, op) ==
    LET new == [status |-> IF op = "BATCH" THEN ride[r].status ELSE op,
                version |-> snap[r].version + 1]
    IN  /\ op \in Operations(snap[r].status)
        /\ Becomes(r, new, {Nothing, new})

Accept(r) ==
    LET new == [status |-> "ACCEPTED", version |-> ride[r].version + 1]
    IN  /\ ride[r].status = "DISPATCHING"
        /\ Becomes(r, new, {snap[r], new})

Next ==
    \E r \in Rides :
        \/ Read(r) \/ Accept(r)
        \/ \E op \in RideStatuses \union {"BATCH"} : Write(r, op)

Spec == Init /\ [][Next]_vars
=============================================================================
