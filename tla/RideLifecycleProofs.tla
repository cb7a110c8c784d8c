------------------------- MODULE RideLifecycleProofs -------------------------
(***************************************************************************)
(* What follows from RideLifecycle, and so, by the theorem                 *)
(* ImplementsLifecycle of RideDispatchProofs, holds of the dispatch.       *)
(***************************************************************************)
EXTENDS RideLifecycle, TLAPS

\* A ride under way or completed has a driver, one requested or dispatching
\* has none (acceptRide assigns it, and nothing takes it away).
THEOREM AssignedIffAcceptedHolds == Spec => []AssignedIffAccepted
<1> DEFINE Inv == TypeOK /\ AssignedIffAccepted
<1>1. Init => Inv
  BY DEF Init, TypeOK, AssignedIffAccepted, RideStatuses, AssignedStatuses
<1>2. Inv /\ [Next]_vars => Inv'
  <2> SUFFICES ASSUME Inv, [Next]_vars
               PROVE  Inv'
    OBVIOUS
  <2>1. CASE UNCHANGED vars
    BY <2>1 DEF vars, TypeOK, AssignedIffAccepted
  <2>2. ASSUME NEW r \in Rides, NEW d \in Drivers, Assign(r, d)
        PROVE  Inv'
    BY <2>2, NoDriverAssumption
       DEF Assign, TypeOK, AssignedIffAccepted, RideStatuses, AssignedStatuses,
           UnassignedStatuses
  <2>3. ASSUME NEW r \in Rides, NEW s \in RideStatuses, Advance(r, s)
        PROVE  Inv'
    <3>1. TypeOK'
      BY <2>3 DEF Advance, TypeOK
    <3>2. /\ s \in AssignedStatuses => status[r] \in AssignedStatuses
          /\ s \in UnassignedStatuses => status[r] \in UnassignedStatuses
      BY <2>3 DEF Advance, RideTransitions, AssignedStatuses, UnassignedStatuses
    <3>3. AssignedIffAccepted'
      BY <2>3, <3>2 DEF Advance, TypeOK, AssignedIffAccepted
    <3> QED
      BY <3>1, <3>3
  <2> QED
    BY <2>1, <2>2, <2>3 DEF Next
<1>3. Inv => AssignedIffAccepted
  OBVIOUS
<1> QED
  BY <1>1, <1>2, <1>3, PTL DEF Spec

LEMMA TypesKept == Spec => []TypeOK
<1>1. Init => TypeOK
  BY DEF Init, TypeOK, RideStatuses
<1>2. TypeOK /\ [Next]_vars => TypeOK'
  BY DEF TypeOK, Next, vars, Assign, Advance, RideStatuses
<1> QED
  BY <1>1, <1>2, PTL DEF Spec

\* Once assigned, the driver of a ride never changes.
THEOREM AssignedOnce == Spec => AssignmentIsFinal
<1>1. TypeOK /\ [Next]_vars =>
        [\A r \in Rides : driver[r] # NoDriver => driver'[r] = driver[r]]_vars
  BY DEF TypeOK, Next, vars, Assign, Advance
<1> QED
  BY <1>1, TypesKept, PTL DEF Spec, AssignmentIsFinal

\* A completed or cancelled ride stays as it is: no edge leaves a terminal
\* status.
THEOREM TerminalKept == Spec => TerminalIsFinal
<1>1. TypeOK /\ [Next]_vars =>
        [\A r \in Rides :
            status[r] \in TerminalRideStatuses => status'[r] = status[r]]_vars
  <2>1. \A s \in RideStatuses, t \in TerminalRideStatuses : <<t, s>> \notin RideTransitions
    BY DEF RideTransitions, TerminalRideStatuses
  <2> QED
    BY <2>1 DEF TypeOK, Next, vars, Assign, Advance, TerminalRideStatuses
<1> QED
  BY <1>1, TypesKept, PTL DEF Spec, TerminalIsFinal
=============================================================================
