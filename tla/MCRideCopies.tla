---------------------------- MODULE MCRideCopies ----------------------------
(* Small instances of RideCopies for TLC. *)
EXTENDS RideCopies

\* Every property of RideCopies excepts spoilt states, and spoilt stays: what
\* comes after such a state need not be explored.
Unspoilt == ~spoilt
=============================================================================
