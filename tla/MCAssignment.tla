---------------------------- MODULE MCAssignment ----------------------------
(***************************************************************************)
(* Model checking the assignment of one hall call among two elevators in   *)
(* every pair of states they can report.                                   *)
(***************************************************************************)
EXTENDS Assignment

TwoElevators == {1, 2}
=============================================================================
