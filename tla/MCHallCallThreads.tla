--------------------------- MODULE MCHallCallThreads ---------------------------
(***************************************************************************)
(* Calls and limits for model checking the threads of one elevator.        *)
(***************************************************************************)
EXTENDS HallCallThreads

(* The hall calls of a building of two floors.                             *)
BothCalls == {[floor |-> 0, call |-> HALL_UP], [floor |-> 1, call |-> HALL_DOWN]}

(* Two presses, so that one can come while the other is handled.           *)
TwoPresses == [k \in Operations |-> IF k = "press" THEN 2 ELSE 1]
=============================================================================
