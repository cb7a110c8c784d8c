--------------------------- MODULE MCRideDispatch ---------------------------
(* Small instances of RideDispatch for TLC. *)
EXTENDS RideDispatch, TLC

\* Rides are interchangeable, and so are drivers when all or none of them may
\* go offline.
IdSymmetry == Permutations(Rides) \union Permutations(Drivers)
=============================================================================
