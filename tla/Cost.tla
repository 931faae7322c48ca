-------------------------------- MODULE Cost --------------------------------
(***************************************************************************)
(* calculate_cost of cost.rs, and the order assign_hall_call of system.rs  *)
(* sorts by.  Of an elevator e the cost depends on floor, direction,       *)
(* length of the queue and is_obstructed.                                  *)
(*                                                                         *)
(* An operator named X_Something is the plausible mistake in X that the    *)
(* properties must be able to see; nothing uses it.                        *)
(***************************************************************************)
EXTENDS Control

(* The cost of elevator state e for hall call c.                           *)

ObstructedCost == 2147483647 \div 2         \* i32::MAX / 2

Distance_Signed(e, c) == IF e.floor = c.floor THEN -100 ELSE 10 * (c.floor - e.floor)
Distance(e, c) ==
    IF e.floor = c.floor THEN -100
    ELSE 10 * (IF e.floor > c.floor THEN e.floor - c.floor ELSE c.floor - e.floor)

(* The bonus compares the type of the call, 0 or 1, with a direction.      *)
SameWay(e, c) ==
    \/ e.direction = DIRN_UP   /\ c.floor > e.floor /\ c.call = DIRN_UP
    \/ e.direction = DIRN_DOWN /\ c.floor < e.floor /\ c.call = DIRN_DOWN

MustReverse(e, c) ==
    \/ e.direction = DIRN_UP   /\ c.floor < e.floor
    \/ e.direction = DIRN_DOWN /\ c.floor > e.floor

FreeCost(e, c) ==
    Distance(e, c) + 5 * e.queue
        - (IF e.direction = DIRN_STOP THEN 10 ELSE 0)
        - (IF SameWay(e, c) THEN 20 ELSE 0)
        + (IF MustReverse(e, c) THEN 30 ELSE 0)

calculate_cost_Blind(e, c) == FreeCost(e, c)
calculate_cost(e, c) == IF e.is_obstructed THEN ObstructedCost ELSE FreeCost(e, c)

(* The sort by cost, then by id, of elevators with states st.              *)
Precedes_CostOnly(st, c, i, j) == calculate_cost(st[i], c) <= calculate_cost(st[j], c)
Precedes(st, c, i, j) ==
    \/ calculate_cost(st[i], c) < calculate_cost(st[j], c)
    \/ calculate_cost(st[i], c) = calculate_cost(st[j], c) /\ i <= j
=============================================================================
