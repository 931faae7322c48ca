----------------------------- MODULE Assignment -----------------------------
(***************************************************************************)
(* Which elevator takes a hall call: the choice assign_hall_call of        *)
(* system.rs makes from the costs, by every elevator for itself, when all  *)
(* of them have the same picture of one another.                           *)
(*                                                                         *)
(* An operator named X_Something is the plausible mistake in X that the    *)
(* properties must be able to see; nothing uses it.                        *)
(***************************************************************************)
EXTENDS Cost

CONSTANTS
    Elevators,      \* the ids; only their order matters
    MaxQueue        \* bound: the longest queue an elevator reports

(* A queue without doubles has at most three calls per floor (u8).         *)
ASSUME AssignmentAssumption == Elevators \subseteq Nat /\ MaxQueue \in 0..(3 * 255)

VARIABLES
    state,          \* what everybody knows of each elevator
    call,           \* the hall call to be assigned
    winner          \* whom each elevator has assigned it to

vars == <<state, call, winner>>

Nobody == -1
States == [floor : Floors, direction : Directions, queue : 0..MaxQueue,
           is_obstructed : BOOLEAN]

-----------------------------------------------------------------------------
(* The first of the sorted costs wins.                                     *)
Before(i, j) == Precedes(state, call, i, j)

Init ==
    /\ state \in [Elevators -> States]
    /\ call \in HallCalls \cap Panel
    /\ winner = [n \in Elevators |-> Nobody]

(* Elevator n assigns the call.                                            *)
Assign_CostForId(n) ==
    /\ winner[n] = Nobody
    /\ \E best \in Elevators :
          /\ \A j \in Elevators : Before(best, j)
          /\ winner' = [winner EXCEPT ![n] = calculate_cost(state[best], call)]
    /\ UNCHANGED <<state, call>>

Assign(n) ==
    /\ winner[n] = Nobody
    /\ \E best \in Elevators :
          /\ \A j \in Elevators : Before(best, j)
          /\ winner' = [winner EXCEPT ![n] = best]
    /\ UNCHANGED <<state, call>>

Next == \E n \in Elevators : Assign(n)

Spec == Init /\ [][Next]_vars

-----------------------------------------------------------------------------
(* Properties.                                                             *)

(* Every variable has its type.                                            *)
TypeOK ==
    /\ state \in [Elevators -> States]
    /\ call \in HallCalls \cap Panel
    /\ winner \in [Elevators -> Elevators \cup {Nobody}]

(* The inductive invariant: whoever was chosen comes first in the order.   *)
ChosenIsFirst ==
    \A n \in Elevators : winner[n] # Nobody => \A j \in Elevators : Before(winner[n], j)

Chosen == {winner[n] : n \in Elevators} \ {Nobody}

(* An obstructed elevator gets a call only when all are obstructed:        *)
(* i32::MAX / 2 exceeds whatever distance, queue and penalties add up to   *)
(* (cost.rs:12).                                                           *)
FreeBeforeObstructed ==
    \A w \in Chosen : state[w].is_obstructed => \A i \in Elevators : state[i].is_obstructed

(* Elevators that know the same choose the same, also between equal costs: *)
(* no call is taken twice or left to somebody else (system.rs:452-458).    *)
Agreement == \A v, w \in Chosen : v = w

(* Of two idle elevators with the same queue the nearer one gets the call  *)
(* (cost.rs:18-29).                                                        *)
Away(i) == {state[i].floor, call.floor}
Nearer(i, j) ==
    Max(Away(i)) - Min(Away(i)) < Max(Away(j)) - Min(Away(j))
IdleAlike(i, j) ==
    /\ ~ state[i].is_obstructed /\ state[i].direction = DIRN_STOP
    /\ state[j] = [state[i] EXCEPT !.floor = state[j].floor]
NearestIdle ==
    \A w \in Chosen, i \in Elevators : IdleAlike(w, i) => ~ Nearer(i, w)
=============================================================================
