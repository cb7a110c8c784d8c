---------------------------- MODULE DriverOffers ----------------------------
(***************************************************************************)
(* How rides get hold of drivers: the contract between the dispatch of     *)
(* rides (RideDispatch, which knows of a driver only whether it is free)   *)
(* and the state of the drivers (DriverState, which knows of a ride only   *)
(* whether it has a driver and whether it is over).                        *)
(*                                                                         *)
(* A ride that is not over reserves a driver nobody has reserved; any      *)
(* reservation may go at any time; a ride without a driver is assigned to  *)
(* one it still has reserved.                                              *)
(***************************************************************************)
EXTENDS RideStatus

CONSTANT NoRide     \* no reservation

VARIABLES
    reservation,    \* reservation[d]: the ride that driver d is reserved for
    trip            \* trip[r]: is the ride open, assigned (to whom) or over

vars == <<reservation, trip>>

Init ==
    /\ reservation = [d \in Drivers |-> NoRide]
    /\ trip = [r \in Rides |-> [phase |-> "open", driver |-> NoDriver]]

Reserve(r, d) ==
    /\ trip[r].phase # "over"
    /\ reservation[d] = NoRide
    /\ reservation' = [reservation EXCEPT ![d] = r]
    /\ UNCHANGED trip

\* An answer, a timeout, the end of the ride, the expiry of the key, or the
\* driver going offline.
Withdraw(ds) ==
    /\ reservation' = [d \in Drivers |-> IF d \in ds THEN NoRide ELSE reservation[d]]
    /\ UNCHANGED trip

Assign(r, d) ==
    /\ trip[r].phase = "open"
    /\ reservation[d] = r
    /\ trip' = [trip EXCEPT ![r] = [phase |-> "assigned", driver |-> d]]
    /\ reservation' = [reservation EXCEPT ![d] = NoRide]

End(r) ==
    /\ trip[r].phase # "over"
    /\ trip' = [trip EXCEPT ![r].phase = "over"]
    /\ UNCHANGED reservation

Next ==
    \/ \E r \in Rides : End(r) \/ \E d \in Drivers : Reserve(r, d) \/ Assign(r, d)
    \/ \E ds \in SUBSET Drivers : Withdraw(ds)

Spec == Init /\ [][Next]_vars
=============================================================================
