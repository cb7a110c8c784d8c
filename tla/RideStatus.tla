----------------------------- MODULE RideStatus -----------------------------
(***************************************************************************)
(* The vocabulary every other module shares: the rides and drivers of an   *)
(* instance, the statuses of a ride and the edges transitionRide allows    *)
(* (src/src/utils/constants.js).                                           *)
(***************************************************************************)

CONSTANTS
    Rides,      \* ride ids
    Drivers,    \* driver ids
    NoDriver    \* the empty driverId of a ride nobody has accepted

ASSUME NoDriverAssumption == NoDriver \notin Drivers

RideStatuses == {"REQUESTED", "DISPATCHING", "ACCEPTED", "ARRIVING",
                 "ONGOING", "COMPLETED", "CANCELLED"}

TerminalRideStatuses == {"COMPLETED", "CANCELLED"}

\* The edges of the RideTransitions table.
RideTransitions ==
    {<<"REQUESTED", "DISPATCHING">>, <<"REQUESTED", "CANCELLED">>,
     <<"DISPATCHING", "ACCEPTED">>, <<"DISPATCHING", "CANCELLED">>,
     <<"ACCEPTED", "ARRIVING">>, <<"ACCEPTED", "DISPATCHING">>,
     <<"ACCEPTED", "CANCELLED">>,
     <<"ARRIVING", "ONGOING">>, <<"ARRIVING", "DISPATCHING">>,
     <<"ARRIVING", "CANCELLED">>,
     <<"ONGOING", "COMPLETED">>, <<"ONGOING", "CANCELLED">>}

\* Statuses of a ride that is still looking for a driver, and of one that a
\* driver is or was carrying out.
UnassignedStatuses == {"REQUESTED", "DISPATCHING"}
AssignedStatuses == {"ACCEPTED", "ARRIVING", "ONGOING", "COMPLETED"}

\* What the holder of a ride's lock may set out to do with a ride it has read
\* in this status: a transition of the table other than the accept and the
\* requeue (which nothing calls), or an update of the batch, which leaves the
\* status.  A search goes on when a driver accepts while a lapsed batch is
\* being closed, and so updates the batch of an accepted ride.
Operations(status) ==
    {s \in RideStatuses \ {"ACCEPTED"} :
        /\ <<status, s>> \in RideTransitions
        /\ s = "DISPATCHING" => status = "REQUESTED"}
    \union (IF status \in {"DISPATCHING", "ACCEPTED"} THEN {"BATCH"} ELSE {})
=============================================================================
