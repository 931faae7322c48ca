------------------------------- MODULE MCLocks ------------------------------
(***************************************************************************)
(* Threads of one process for model checking.                              *)
(***************************************************************************)
EXTENDS Locks

EachItsRole == [t \in Threads |-> t]
=============================================================================
