------------------------------ MODULE Control ------------------------------
(***************************************************************************)
(* The values elev.rs defines for one elevator, and the pure functions of  *)
(* control.rs that decide where it goes.  A call is the two-element vector *)
(* [floor, type] of the code, here a record; the queue call_buttons is a   *)
(* sequence, because both "first match" searches and removal by position   *)
(* depend on its order.  A position of 0 stands for the code's None.       *)
(*                                                                         *)
(* An operator named X_Something is the plausible mistake in X that the    *)
(* properties must be able to see; nothing uses it.                        *)
(***************************************************************************)
EXTENDS Integers, Sequences, FiniteSets, SequencesExt

CONSTANT NumFloors      \* main.rs sets elev_num_floors to 4

(* Floors are u8 values, and u8::MAX is the floor poller's "none seen".    *)
ASSUME NumFloorsAssumption == NumFloors \in 2..255

Floors == 0..(NumFloors - 1)

HALL_UP   == 0
HALL_DOWN == 1
CAB       == 2
CallTypes == {HALL_UP, HALL_DOWN, CAB}

DIRN_DOWN == 255        \* u8::MAX
DIRN_STOP == 0
DIRN_UP   == 1
Directions == {DIRN_DOWN, DIRN_STOP, DIRN_UP}

Calls == [floor : Floors, call : CallTypes]
HallCalls == {c \in Calls : c.call # CAB}
CabCalls  == {c \in Calls : c.call = CAB}

(* The buttons the panel has: no UP at the top floor, no DOWN at the       *)
(* bottom one.                                                             *)
Panel == {c \in Calls : /\ c.call = HALL_UP   => c.floor # NumFloors - 1
                        /\ c.call = HALL_DOWN => c.floor # 0}

-----------------------------------------------------------------------------
(* Directions.                                                             *)

hall_call_start_dir_Difference(go_floor, floor) == go_floor - floor

hall_call_start_dir_Swapped(go_floor, floor) ==
    CASE floor < go_floor -> DIRN_DOWN
      [] floor > go_floor -> DIRN_UP
      [] OTHER            -> DIRN_STOP

hall_call_start_dir(go_floor, floor) ==
    CASE floor < go_floor -> DIRN_UP
      [] floor > go_floor -> DIRN_DOWN
      [] OTHER            -> DIRN_STOP

decide_direction_by_call(call) ==
    CASE call = HALL_UP   -> DIRN_UP
      [] call = HALL_DOWN -> DIRN_DOWN
      [] OTHER            -> DIRN_STOP

opposite_dir(dirn) == IF dirn = DIRN_UP THEN DIRN_DOWN ELSE DIRN_UP

(* Floor f lies ahead of an elevator at floor that is heading dirn.        *)
IsAhead(f, floor, dirn) ==
    \/ dirn = DIRN_UP   /\ f > floor
    \/ dirn = DIRN_DOWN /\ f < floor

-----------------------------------------------------------------------------
(* Positions of the queue q.                                               *)

CallsAhead(q, floor, dirn) == {i \in DOMAIN q : IsAhead(q[i].floor, floor, dirn)}

CallsAt(q, floor) == {i \in DOMAIN q : q[i].floor = floor}

is_more_request_in_dir(q, floor, dirn) == CallsAhead(q, floor, dirn) # {}

(* Iterator::find and position: the first of the matching positions.       *)
First(S) == IF S = {} THEN 0 ELSE Min(S)

find_call_button_index(q, c) == First({i \in DOMAIN q : q[i] = c})

decide_next_call_InOrder(q, floor, dirn) == IF q = <<>> THEN 0 ELSE 1

decide_next_call(q, floor, dirn) ==
    IF CallsAhead(q, floor, dirn) # {}
    THEN First(CallsAhead(q, floor, dirn))
    ELSE IF CallsAt(q, floor) # {}
         THEN First(CallsAt(q, floor))
         ELSE IF q = <<>> THEN 0 ELSE 1

(* The call serve_call takes at a floor: one in the direction of travel or *)
(* a cabin call, else, when nothing is left ahead, one the opposite way.   *)
AlongTheWay(q, floor, dirn) ==
    {i \in CallsAt(q, floor) : \/ decide_direction_by_call(q[i].call) = dirn
                               \/ q[i].call = CAB}

TheOtherWay_Never(q, floor, at, dirn) == {}

TheOtherWay(q, floor, at, dirn) ==
    {i \in CallsAt(q, at) :
        /\ ~ is_more_request_in_dir(q, floor, dirn)
        /\ decide_direction_by_call(q[i].call) = opposite_dir(dirn)}

serving_call(q, floor, at, dirn) ==
    IF AlongTheWay(q, at, dirn) # {}
    THEN First(AlongTheWay(q, at, dirn))
    ELSE First(TheOtherWay(q, floor, at, dirn))

-----------------------------------------------------------------------------
(* Changes to the queue.                                                   *)

(* "if !call_buttons.iter().any(|x| x == &callbutton) { push }"            *)
Enqueue_Unchecked(q, c) == Append(q, c)
Enqueue(q, c) == IF Contains(q, c) THEN q ELSE Append(q, c)

(* Vec::remove at a position found by a search: None removes nothing.      *)
RemovePosition_Oldest(q, i) == IF i = 0 THEN q ELSE Tail(q)
RemovePosition(q, i) == IF i = 0 THEN q ELSE RemoveAt(q, i)

RemoveCall_Kept(q, c) == q
RemoveCall(q, c) == RemovePosition(q, find_call_button_index(q, c))

(* No call occurs twice in q.                                              *)
Distinct(q) == \A i, j \in DOMAIN q : q[i] = q[j] => i = j

(* start_elevator changes direction and motor only under this condition.   *)
StartsNow_FirstOnly(q, dirn) == Len(q) = 1
StartsNow(q, dirn) == Len(q) = 1 \/ (Len(q) > 1 /\ dirn = DIRN_STOP)
=============================================================================
