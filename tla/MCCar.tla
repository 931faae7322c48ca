------------------------------- MODULE MCCar -------------------------------
(***************************************************************************)
(* Buttons for model checking the elevator on three floors.        *)
(***************************************************************************)
EXTENDS Car

Call(f, t) == [floor |-> f, call |-> t]

(* All cabin buttons, both hall buttons of floor 1, one of floor 2.        *)
MixedButtons == {Call(0, CAB), Call(1, CAB), Call(2, CAB),
                 Call(1, HALL_UP), Call(1, HALL_DOWN), Call(2, HALL_DOWN)}

(* At most two calls for any one floor.                                    *)
TwoPerFloor == {Call(0, CAB), Call(1, CAB), Call(2, CAB),
                Call(1, HALL_UP), Call(2, HALL_DOWN)}
=============================================================================
