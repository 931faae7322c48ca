-------------------------- MODULE AssignmentProofs --------------------------
(***************************************************************************)
(* Theorems about the assignment of a hall call, for every number of       *)
(* floors and elevators and every queue without doubles.                   *)
(***************************************************************************)
EXTENDS Assignment, TLAPS

(* The cost of an elevator that is not obstructed is far from the cost of  *)
(* one that is; no term of the i32 sum overflows.                          *)
LEMMA FreeCostBound ==
    ASSUME NEW e \in States, NEW c \in HallCalls
    PROVE  FreeCost(e, c) \in Int /\ FreeCost(e, c) < 6400
<1>1. e.floor \in 0..254 /\ c.floor \in 0..254 /\ e.queue \in 0..765
  BY NumFloorsAssumption, AssignmentAssumption DEF States, HallCalls, Calls, Floors
<1>2. PICK f \in 0..254, g \in 0..254, q \in 0..765 :
          f = e.floor /\ g = c.floor /\ q = e.queue
  BY <1>1
<1>3. PICK d \in Int : d = Distance(e, c) /\ d <= 2540
  <2>1. CASE f = g
    BY <1>2, <2>1 DEF Distance
  <2>2. CASE f > g
    <3>1. Distance(e, c) = 10 * (f - g)
      BY <1>2, <2>2 DEF Distance
    <3> QED  BY <3>1
  <2>3. CASE f < g
    <3>1. Distance(e, c) = 10 * (g - f)
      BY <1>2, <2>3 DEF Distance
    <3> QED  BY <3>1
  <2> QED  BY <2>1, <2>2, <2>3
<1> DEFINE i == IF e.direction = DIRN_STOP THEN 10 ELSE 0
           s == IF SameWay(e, c) THEN 20 ELSE 0
           t == IF MustReverse(e, c) THEN 30 ELSE 0
<1>4. FreeCost(e, c) = d + 5 * q - i - s + t
  BY <1>2, <1>3 DEF FreeCost
<1>5. i \in 0..10 /\ s \in 0..20 /\ t \in 0..30
  OBVIOUS
<1> HIDE DEF i, s, t
<1> QED  BY <1>3, <1>4, <1>5

(* The two kinds of cost, and that the one is always below the other.      *)
LEMMA CostProperties ==
    ASSUME NEW e \in States, NEW c \in HallCalls
    PROVE  /\ calculate_cost(e, c) \in Int
           /\ e.is_obstructed => calculate_cost(e, c) = ObstructedCost
           /\ ~ e.is_obstructed => calculate_cost(e, c) < ObstructedCost
<1>1. ObstructedCost \in Int /\ 6400 < ObstructedCost
  BY SMT DEF ObstructedCost
<1> QED  BY <1>1, FreeCostBound DEF calculate_cost

(* Types, and that whoever was chosen comes first.                         *)
LEMMA Invariant == Spec => [](TypeOK /\ ChosenIsFirst)
<1>1. Init => TypeOK /\ ChosenIsFirst
  BY DEF Init, TypeOK, ChosenIsFirst
<1>2. TypeOK /\ ChosenIsFirst /\ [Next]_vars => (TypeOK /\ ChosenIsFirst)'
  <2> SUFFICES ASSUME TypeOK, ChosenIsFirst, [Next]_vars
               PROVE  (TypeOK /\ ChosenIsFirst)'
    OBVIOUS
  <2>1. ASSUME NEW n \in Elevators, Assign(n)
        PROVE  (TypeOK /\ ChosenIsFirst)'
    <3>1. PICK best \in Elevators :
              /\ \A j \in Elevators : Before(best, j)
              /\ winner' = [winner EXCEPT ![n] = best]
      BY <2>1 DEF Assign
    <3>2. UNCHANGED <<state, call>>
      BY <2>1 DEF Assign
    <3>3. \A i, j \in Elevators : Before(i, j)' <=> Before(i, j)
      BY <3>2 DEF Before, Precedes
    <3>4. TypeOK'
      BY <3>1, <3>2 DEF TypeOK
    <3>5. ChosenIsFirst'
      BY <3>1, <3>2 DEF ChosenIsFirst, TypeOK, Before, Precedes
    <3> QED  BY <3>4, <3>5
  <2>2. CASE UNCHANGED vars
    BY <2>2 DEF vars, TypeOK, ChosenIsFirst, Before, Precedes
  <2> QED  BY <2>1, <2>2 DEF Next
<1> QED  BY <1>1, <1>2, PTL DEF Spec

(* Every variable has its type in every reachable state.                   *)
THEOREM TypeCorrect == Spec => []TypeOK
BY Invariant, PTL

(* An obstructed elevator gets a call only when no other elevator is free, *)
(* however far away the free ones are and however long their queues.       *)
THEOREM ObstructedIsLastResort == Spec => []FreeBeforeObstructed
<1>1. TypeOK /\ ChosenIsFirst => FreeBeforeObstructed
  <2> SUFFICES ASSUME TypeOK, ChosenIsFirst,
                      NEW n \in Elevators, winner[n] # Nobody,
                      state[winner[n]].is_obstructed,
                      NEW i \in Elevators, ~ state[i].is_obstructed
               PROVE  FALSE
    BY DEF FreeBeforeObstructed, Chosen, TypeOK, States
  <2> DEFINE w == winner[n]
  <2>1. w \in Elevators /\ Before(w, i)
    BY DEF TypeOK, ChosenIsFirst
  <2>2. state[w] \in States /\ state[i] \in States /\ call \in HallCalls
    BY <2>1 DEF TypeOK
  <2>3. /\ calculate_cost(state[w], call) = ObstructedCost
        /\ calculate_cost(state[i], call) < ObstructedCost
        /\ calculate_cost(state[i], call) \in Int
        /\ calculate_cost(state[w], call) \in Int
    BY <2>2, CostProperties
  <2> QED  BY <2>1, <2>3 DEF Before, Precedes
<1> QED  BY <1>1, Invariant, PTL

(* Elevators with the same picture of one another choose the same one.     *)
THEOREM EverybodyAgrees == Spec => []Agreement
<1>1. TypeOK /\ ChosenIsFirst => Agreement
  <2> SUFFICES ASSUME TypeOK, ChosenIsFirst, NEW v \in Chosen, NEW w \in Chosen
               PROVE  v = w
    BY DEF Agreement
  <2>1. v \in Elevators /\ w \in Elevators /\ Before(v, w) /\ Before(w, v)
    BY DEF Chosen, TypeOK, ChosenIsFirst
  <2>2. state[v] \in States /\ state[w] \in States /\ call \in HallCalls
    BY <2>1 DEF TypeOK
  <2>3. calculate_cost(state[v], call) \in Int /\ calculate_cost(state[w], call) \in Int
    BY <2>2, CostProperties
  <2>4. v \in Nat /\ w \in Nat
    BY <2>1, AssignmentAssumption
  <2> QED  BY <2>1, <2>3, <2>4 DEF Before, Precedes
<1> QED  BY <1>1, Invariant, PTL

(* How far two floors are apart is also what the cost counts.              *)
LEMMA Spread ==
    ASSUME NEW a \in Int, NEW b \in Int
    PROVE  Max({a, b}) - Min({a, b}) = IF a > b THEN a - b ELSE b - a
<1>1. CASE a > b
  <2>1. Max({a, b}) = a
    BY <1>1 DEF Max
  <2>2. Min({a, b}) = b
    BY <1>1 DEF Min
  <2> QED  BY <1>1, <2>1, <2>2
<1>2. CASE a <= b
  <2>1. Max({a, b}) = b
    BY <1>2 DEF Max
  <2>2. Min({a, b}) = a
    BY <1>2 DEF Min
  <2> QED  BY <1>2, <2>1, <2>2
<1> QED  BY <1>1, <1>2

(* Of two states that are alike, idle and free, the nearer one costs less. *)
LEMMA NearerCostsLess ==
    ASSUME NEW e \in States, NEW d \in States, NEW c \in HallCalls,
           ~ e.is_obstructed, e.direction = DIRN_STOP,
           ~ d.is_obstructed, d.direction = DIRN_STOP, d.queue = e.queue,
           Max({d.floor, c.floor}) - Min({d.floor, c.floor})
             < Max({e.floor, c.floor}) - Min({e.floor, c.floor})
    PROVE  calculate_cost(d, c) < calculate_cost(e, c)
<1>1. PICK f \in Nat, g \in Nat, h \in Nat, q \in Nat :
          f = e.floor /\ g = d.floor /\ h = c.floor /\ q = e.queue /\ q = d.queue
  BY NumFloorsAssumption, AssignmentAssumption DEF States, HallCalls, Calls, Floors
<1>2. (IF g > h THEN g - h ELSE h - g) < (IF f > h THEN f - h ELSE h - f)
  BY <1>1, Spread
<1>3. Distance(e, c) \in Int /\ Distance(d, c) \in Int /\ Distance(d, c) < Distance(e, c)
  BY <1>1, <1>2 DEF Distance
<1>4. /\ ~ SameWay(e, c) /\ ~ MustReverse(e, c)
      /\ ~ SameWay(d, c) /\ ~ MustReverse(d, c)
  BY DEF SameWay, MustReverse, DIRN_STOP, DIRN_UP, DIRN_DOWN
<1>5. /\ calculate_cost(e, c) = Distance(e, c) + 5 * q - 10
      /\ calculate_cost(d, c) = Distance(d, c) + 5 * q - 10
  BY <1>1, <1>3, <1>4 DEF calculate_cost, FreeCost
<1> QED  BY <1>1, <1>3, <1>5

(* Of two idle elevators with equally long queues, none is chosen for a    *)
(* call that is farther from it than the other one.                        *)
THEOREM NearestIsChosen == Spec => []NearestIdle
<1>1. TypeOK /\ ChosenIsFirst => NearestIdle
  <2> SUFFICES ASSUME TypeOK, ChosenIsFirst, NEW w \in Chosen, NEW i \in Elevators,
                      IdleAlike(w, i), Nearer(i, w)
               PROVE  FALSE
    BY DEF NearestIdle
  <2>1. w \in Elevators /\ Before(w, i)
    BY DEF Chosen, TypeOK, ChosenIsFirst
  <2>2. state[w] \in States /\ state[i] \in States /\ call \in HallCalls
    BY <2>1 DEF TypeOK
  <2>3. /\ ~ state[w].is_obstructed /\ state[w].direction = DIRN_STOP
        /\ ~ state[i].is_obstructed /\ state[i].direction = DIRN_STOP
        /\ state[i].queue = state[w].queue
    BY <2>2 DEF IdleAlike, States
  <2>4. calculate_cost(state[i], call) < calculate_cost(state[w], call)
    BY <2>2, <2>3, NearerCostsLess DEF Nearer, Away
  <2>5. calculate_cost(state[w], call) \in Int /\ calculate_cost(state[i], call) \in Int
    BY <2>2, CostProperties
  <2> QED  BY <2>1, <2>4, <2>5 DEF Before, Precedes
<1> QED  BY <1>1, Invariant, PTL
=============================================================================
