----------------------------- MODULE MCMessages ----------------------------
(***************************************************************************)
(* A hall call, two states and a completed call for model checking.        *)
(***************************************************************************)
EXTENDS Messages

(* A timestamp of two digits, a direction of three, queues of no and of    *)
(* two calls, with and without obstruction.                                *)
SomeMessages ==
    {[kind |-> "HALL", floor |-> 2, direction |-> 1, timestamp |-> 16],
     [kind |-> "STATE", id |-> 1, floor |-> 0, direction |-> 255,
      call_buttons |-> <<>>, is_obstructed |-> FALSE],
     [kind |-> "STATE", id |-> 2, floor |-> 3, direction |-> 0,
      call_buttons |-> << <<3, 2>>, <<1, 0>> >>, is_obstructed |-> TRUE],
     [kind |-> "COMPLETED", floor |-> 2, direction |-> 1]}
=============================================================================
