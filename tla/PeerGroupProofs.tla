-------------------------- MODULE PeerGroupProofs --------------------------
(***************************************************************************)
(* Theorems about the group of elevators, for any number of elevators,     *)
(* floors, calls, messages and faults.                                     *)
(***************************************************************************)
EXTENDS PeerGroup, ControlLemmas, FiniteSetTheorems

-----------------------------------------------------------------------------
(* Who is best: the order of the costs has a first element.                *)

(* No cost is below all bounds.                                            *)
LEMMA CostBound ==
    ASSUME NEW x \in States, NEW c \in HallCalls
    PROVE  calculate_cost(x, c) \in Int /\ -200 <= calculate_cost(x, c)
<1>1. PICK f \in Nat, g \in Nat, q \in Nat : f = x.floor /\ g = c.floor /\ q = x.queue
  BY NumFloorsAssumption DEF States, HallCalls, Calls, Floors
<1>2. Distance(x, c) \in Int /\ -100 <= Distance(x, c)
  BY <1>1 DEF Distance
<1> DEFINE i == IF x.direction = DIRN_STOP THEN 10 ELSE 0
           s == IF SameWay(x, c) THEN 20 ELSE 0
           t == IF MustReverse(x, c) THEN 30 ELSE 0
<1>3. i \in 0..10 /\ s \in 0..20 /\ t \in 0..30
  OBVIOUS
<1>4. calculate_cost(x, c) = Distance(x, c) + 5 * q - i - s + t
  BY <1>1, <1>2 DEF calculate_cost, FreeCost, States
<1> HIDE DEF i, s, t
<1> QED  BY <1>1, <1>2, <1>3, <1>4

LEMMA LeastExists ==
    ASSUME NEW T \in SUBSET Nat, T # {}
    PROVE  \E x \in T : \A y \in T : x <= y
<1>1. \E x \in T : \A y \in T : ~ (<<y, x>> \in OpToRel(<, Nat))
  BY NatLessThanWellFounded, WFMin
<1>2. ASSUME NEW x \in Nat, NEW y \in Nat, y < x
      PROVE  <<y, x>> \in OpToRel(<, Nat)
  BY <1>2, Zenon DEF OpToRel
<1> DEFINE R == OpToRel(<, Nat)
<1> HIDE DEF R
<1>3. \E x \in T : \A y \in T : ~ (y < x)
  BY <1>1, <1>2 DEF R
<1> QED  BY <1>3

(* What is true of 0 and, if of n, of n + 1, is true of all up to m.       *)
LEMMA UpTo ==
    ASSUME NEW m \in Nat, NEW T, 0 \in T, \A n \in 0..(m - 1) : n \in T => n + 1 \in T
    PROVE  0..m \subseteq T
<1> DEFINE U == {n \in 0..m : n \notin T}
<1> SUFFICES ASSUME U # {} PROVE FALSE
  OBVIOUS
<1>0. U \in SUBSET Nat
  OBVIOUS
<1>1. PICK n \in U : \A y \in U : n <= y
  BY <1>0, LeastExists
<1>2. n # 0 /\ n \in 0..m
  BY <1>1
<1>3. n - 1 \in 0..(m - 1) /\ n - 1 \notin U /\ n = (n - 1) + 1
  BY <1>1, <1>2
<1> QED  BY <1>1, <1>2, <1>3

LEMMA BestExists ==
    ASSUME NEW st, DOMAIN st # {}, DOMAIN st \subseteq Nat,
           \A i \in DOMAIN st : st[i] \in States, NEW c \in HallCalls
    PROVE  \E i \in DOMAIN st : \A j \in DOMAIN st : Precedes(st, c, i, j)
<1> DEFINE cost(i) == calculate_cost(st[i], c)
           costs   == {cost(i) + 200 : i \in DOMAIN st}
<1>1. \A i \in DOMAIN st : cost(i) \in Int /\ -200 <= cost(i)
  BY CostBound
<1> HIDE DEF cost
<1>2. costs \in SUBSET Nat /\ costs # {}
  BY <1>1
<1>3. PICK k \in DOMAIN st : \A j \in DOMAIN st : cost(k) <= cost(j)
  <2>1. PICK x \in costs : \A y \in costs : x <= y
    BY <1>2, LeastExists
  <2> QED  BY <1>1, <2>1
<1> DEFINE firsts == {i \in DOMAIN st : cost(i) = cost(k)}
<1>4. PICK i \in firsts : \A j \in firsts : i <= j
  BY <1>3, LeastExists
<1>5. ASSUME NEW j \in DOMAIN st PROVE cost(i) < cost(j) \/ (cost(i) = cost(j) /\ i <= j)
  BY <1>1, <1>3, <1>4
<1> QED  BY <1>4, <1>5 DEF Precedes, cost

-----------------------------------------------------------------------------
(* The order in which calls are assigned.                                  *)

LEMMA HallCallsFinite == IsFiniteSet(HallCalls)
<1>1. ASSUME NEW c \in HallCalls
      PROVE  /\ c \in [floor : Floors, call : {HALL_UP, HALL_DOWN}]
             /\ c.floor \in 0..254 /\ c.call \in 0..1
  <2>1. c \in [floor : Floors, call : CallTypes] /\ c.call # CAB
    BY DEF HallCalls, Calls
  <2>2. c.call \in {HALL_UP, HALL_DOWN} /\ c.call \in 0..1
    BY <2>1 DEF CallTypes, HALL_UP, HALL_DOWN, CAB
  <2>3. c.floor \in Floors /\ c.floor \in 0..254
    BY <2>1, NumFloorsAssumption DEF Floors
  <2>4. c \in [floor : Floors, call : {HALL_UP, HALL_DOWN}]
    BY <2>1, <2>2
  <2> QED  BY <2>2, <2>3, <2>4
<1> DEFINE number == [c \in HallCalls |-> 3 * c.floor + c.call]
<1>2. ASSUME NEW c \in HallCalls, NEW d \in HallCalls, number[c] = number[d]
      PROVE  c = d
  <2>1. 3 * c.floor + c.call = 3 * d.floor + d.call
    BY <1>2
  <2>2. \A f, g \in 0..254, x, y \in 0..1 : 3 * f + x = 3 * g + y => f = g /\ x = y
    OBVIOUS
  <2>3. c.floor \in 0..254 /\ c.call \in 0..1 /\ d.floor \in 0..254 /\ d.call \in 0..1
    BY <1>1
  <2>4. PICK f \in 0..254, g \in 0..254, x \in 0..1, y \in 0..1 :
            f = c.floor /\ g = d.floor /\ x = c.call /\ y = d.call
    BY <2>3
  <2>5. 3 * f + x = 3 * g + y
    BY <2>1, <2>4
  <2>6. f = g /\ x = y
    BY <2>2, <2>5
  <2>7. c.floor = d.floor /\ c.call = d.call
    BY <2>4, <2>6
  <2>8. /\ c \in [floor : Floors, call : {HALL_UP, HALL_DOWN}]
        /\ d \in [floor : Floors, call : {HALL_UP, HALL_DOWN}]
    BY <1>1
  <2> QED  BY <2>7, <2>8
<1> HIDE DEF number
<1>3. PICK m \in Nat : m = 1000
  OBVIOUS
<1>4. number \in Injection(HallCalls, 0..m)
  <2>1. \A c \in HallCalls : number[c] \in 0..m
    BY <1>1, <1>3 DEF number
  <2> QED  BY <1>2, <2>1 DEF Injection, IsInjective, number
<1>5. IsFiniteSet(0..m)
  <2>1. 0 \in Int /\ m \in Int
    OBVIOUS
  <2> QED  BY <2>1, FS_Interval
<1> QED  BY <1>4, <1>5, FS_Injection

(* An order of the calls S has each of them once.                          *)
LEMMA OrderCovers ==
    ASSUME NEW S \in SUBSET Pressed, NEW order \in SetToSeqs(S)
    PROVE  /\ Len(order) \in Nat /\ DOMAIN order = 1..Len(order)
           /\ \A k \in 1..Len(order) : order[k] \in S
           /\ \A c \in S : \E k \in 1..Len(order) : order[k] = c
<1>1. IsFiniteSet(S) /\ Cardinality(S) \in Nat
  BY HallCallsFinite, GroupAssumption, FS_Subset, FS_CardinalityType
<1> DEFINE n == Cardinality(S)  D == 1..n
<1>2. order \in [D -> S] /\ \A i, j \in D : i # j => order[i] # order[j]
  BY DEF SetToSeqs
<1>3. order \in Seq(S) /\ Len(order) = n
  BY <1>1, <1>2
<1>4. order \in Injection(D, S)
  BY <1>2 DEF Injection, IsInjective
<1>5. Cardinality(D) = n
  BY <1>1, FS_Interval
<1>6. order \in Surjection(D, S)
  BY <1>1, <1>4, <1>5, FS_Injection
<1> QED  BY <1>1, <1>2, <1>3, <1>6 DEF Surjection

-----------------------------------------------------------------------------
(* What an assignment makes of the owners, the queue and the car.          *)

Owners == Elevators \cup {Absent, Unassigned}

Results == [owner : [Pressed -> Owners], queue : Seq(Pressed),
            direction : Directions, motor : Directions]

(* What e knows of the others, when it assigns.                            *)
Picture(e, heard) ==
    /\ DOMAIN heard \subseteq Elevators
    /\ \A d \in DOMAIN heard : heard[d] \in States
    /\ e \in Elevators /\ current_floor[e] \in Floors

(* The calls that have their owner keep it, the others get e or an         *)
(* elevator e has heard of.                                                *)
OwnersFrom(e, heard, before, after) ==
    \A c \in Pressed : IF before[c] # Unassigned THEN after[c] = before[c]
                       ELSE after[c] \in {Unassigned, e} \cup DOMAIN heard

Attached(e, a) == \A c \in Pressed : a.owner[c] = e => Contains(a.queue, c)

(* A car that stands still with calls starts when it gets another.         *)
Ready(e, a) == ~ waiting[e] /\ a.motor = DIRN_STOP /\ a.queue # <<>> => a.direction = DIRN_STOP

LEMMA NotElevators == Absent \notin Elevators /\ Unassigned \notin Elevators /\ Absent # Unassigned
BY GroupAssumption DEF Absent, Unassigned

LEMMA PressedCalls ==
    /\ Pressed \subseteq HallCalls /\ Pressed \subseteq Calls
    /\ \A q \in Seq(Pressed) : q \in Seq(Calls)
BY GroupAssumption DEF HallCalls

LEMMA EnqueuePressed ==
    ASSUME NEW q \in Seq(Pressed), NEW c \in Pressed
    PROVE  /\ Enqueue(q, c) \in Seq(Pressed) /\ Contains(Enqueue(q, c), c)
           /\ \A d \in Pressed : Contains(q, d) => Contains(Enqueue(q, c), d)
           /\ Len(Enqueue(q, c)) \in Nat /\ Enqueue(q, c) # <<>>
           /\ Len(Enqueue(q, c)) # 1 => Len(Enqueue(q, c)) > 1 /\ q # <<>>
<1>1. q \in Seq(Calls) /\ c \in Calls /\ Pressed \subseteq Calls
  BY PressedCalls
<1>2. /\ Contains(Enqueue(q, c), c)
      /\ \A d \in Pressed : Contains(q, d) => Contains(Enqueue(q, c), d)
  BY <1>1, EnqueueProperties
<1>3. Enqueue(q, c) = q \/ Enqueue(q, c) = Append(q, c)
  BY DEF Enqueue
<1>4. Enqueue(q, c) \in Seq(Pressed) /\ Len(Enqueue(q, c)) \in Nat
  BY <1>3
<1>5. Enqueue(q, c) # <<>> /\ Len(Enqueue(q, c)) # 0
  BY <1>2, <1>4 DEF Contains
<1>6. ASSUME Len(Enqueue(q, c)) # 1 PROVE Len(Enqueue(q, c)) > 1 /\ q # <<>>
  <2> DEFINE n == Len(Enqueue(q, c))
  <2>1. n > 1
    <3>1. n \in Nat /\ n # 0 /\ n # 1
      BY <1>4, <1>5, <1>6
    <3> HIDE DEF n
    <3> QED  BY <3>1
  <2>2. q = <<>> => Len(q) = 0 /\ Len(Append(q, c)) = 1
    OBVIOUS
  <2> QED  BY <1>3, <2>1, <2>2
<1> QED  BY <1>2, <1>4, <1>5, <1>6

LEMMA StartDirType ==
    ASSUME NEW f \in Floors, NEW g \in Floors
    PROVE  /\ hall_call_start_dir(f, g) \in Directions
           /\ hall_call_start_dir(f, g) = DIRN_STOP => f = g
BY NumFloorsAssumption
DEF Floors, hall_call_start_dir, Directions, DIRN_UP, DIRN_DOWN, DIRN_STOP

(* One call is assigned: it gets an owner, to e only if e queues it, and   *)
(* nothing happens to the others.                                          *)
LEMMA AssignCallResult ==
    ASSUME NEW e, NEW heard, Picture(e, heard), NEW a \in Results, NEW c \in Pressed,
           NEW b, b = AssignCall(e, heard, a, c)
    PROVE  /\ b \in Results /\ b.owner[c] # Unassigned
           /\ \A d \in Pressed : (d = c => a.owner[d] # Unassigned) => b.owner[d] = a.owner[d]
           /\ a.owner[c] = Unassigned => b.owner[c] \in {e} \cup DOMAIN heard
           /\ Attached(e, a) => Attached(e, b)
           /\ Ready(e, a) => Ready(e, b)
<1> DEFINE own  == [floor |-> current_floor[e], direction |-> a.direction,
                    queue |-> Len(a.queue), is_obstructed |-> FALSE]
           st   == Put(heard, e, own)
           best == CHOOSE i \in DOMAIN st : \A j \in DOMAIN st : Precedes(st, c, i, j)
           q    == Enqueue(a.queue, c)
           dirn == hall_call_start_dir(c.floor, current_floor[e])
           mine == [a EXCEPT !.owner[c] = e, !.queue = q]
<1>1. /\ a.owner \in [Pressed -> Owners] /\ a.queue \in Seq(Pressed)
      /\ a.direction \in Directions /\ a.motor \in Directions
      /\ e \in Owners /\ Elevators \subseteq Owners
      /\ c \in HallCalls /\ c.floor \in Floors /\ current_floor[e] \in Floors
  BY PressedCalls DEF Results, Owners, Picture, HallCalls, Calls
<1>2. best \in {e} \cup DOMAIN heard
  <2>1. own \in States
    BY <1>1 DEF States
  <2>2. DOMAIN st = {e} \cup DOMAIN heard /\ \A i \in DOMAIN st : st[i] \in States
    <3> HIDE DEF own
    <3> QED  BY <2>1 DEF Picture, Put
  <2>3. DOMAIN st \subseteq Nat
    BY <2>2, GroupAssumption DEF Picture
  <2> HIDE DEF st
  <2>4. \E i \in DOMAIN st : \A j \in DOMAIN st : Precedes(st, c, i, j)
    BY <1>1, <2>2, <2>3, BestExists
  <2> QED  BY <2>2, <2>4
<1>3. /\ q \in Seq(Pressed) /\ q # <<>> /\ Contains(q, c)
      /\ \A d \in Pressed : Contains(a.queue, d) => Contains(q, d)
      /\ Len(q) \in Nat /\ Len(q) # 1 => Len(q) > 1 /\ a.queue # <<>>
  BY <1>1, EnqueuePressed
<1>4. dirn \in Directions
  BY <1>1, StartDirType
<1>5. /\ a.owner[c] # Unassigned => b = a
      /\ a.owner[c] = Unassigned /\ best # e => b = [a EXCEPT !.owner[c] = best]
      /\ a.owner[c] = Unassigned /\ best = e /\ StartsNow(q, a.direction)
            => b = [mine EXCEPT !.direction = dirn, !.motor = dirn]
      /\ a.owner[c] = Unassigned /\ best = e /\ ~ StartsNow(q, a.direction) => b = mine
  BY DEF AssignCall
<1> HIDE DEF own, st, best, q, dirn
<1>6. CASE a.owner[c] # Unassigned
  BY <1>5, <1>6
<1>7. CASE a.owner[c] = Unassigned /\ best # e
  <2>1. /\ b.owner = [a.owner EXCEPT ![c] = best] /\ b.queue = a.queue
        /\ b.direction = a.direction /\ b.motor = a.motor
        /\ b \in Results
    BY <1>1, <1>2, <1>5, <1>7 DEF Results, Owners, Picture
  <2> QED  BY <1>1, <1>2, <1>7, <2>1, NotElevators DEF Picture, Attached, Ready
<1>8. CASE a.owner[c] = Unassigned /\ best = e
  <2>1. /\ b.owner = [a.owner EXCEPT ![c] = e] /\ b.queue = q
        /\ b \in Results
        /\ IF StartsNow(q, a.direction) THEN b.direction = dirn /\ b.motor = dirn
           ELSE b.direction = a.direction /\ b.motor = a.motor
    <3>1. /\ mine \in Results /\ mine.owner = [a.owner EXCEPT ![c] = e] /\ mine.queue = q
          /\ mine.direction = a.direction /\ mine.motor = a.motor
      BY <1>1, <1>3 DEF Results
    <3>2. ASSUME StartsNow(q, a.direction)
          PROVE  b = [mine EXCEPT !.direction = dirn, !.motor = dirn]
      BY <1>5, <1>8, <3>2
    <3>3. ASSUME ~ StartsNow(q, a.direction)
          PROVE  b = mine
      BY <1>5, <1>8, <3>3
    <3> HIDE DEF mine
    <3> QED  BY <1>4, <3>1, <3>2, <3>3 DEF Results
  <2>2. Attached(e, a) => Attached(e, b)
    BY <1>1, <1>3, <2>1 DEF Attached
  <2>3. Ready(e, a) => Ready(e, b)
    <3>1. CASE StartsNow(q, a.direction)
      BY <2>1, <3>1 DEF Ready
    <3>2. CASE ~ StartsNow(q, a.direction)
      BY <1>3, <2>1, <3>2 DEF Ready, StartsNow
    <3> QED  BY <3>1, <3>2
  <2> QED  BY <1>1, <1>8, <2>1, <2>2, <2>3, NotElevators DEF Picture
<1> QED  BY <1>6, <1>7, <1>8

-----------------------------------------------------------------------------
(* The recursion over the order is well defined.                           *)

Begins(e, owner) == [owner |-> owner, queue |-> call_buttons[e],
                     direction |-> current_direction[e], motor |-> motor[e]]

(* a is what the first n calls of the order make of it, one after another. *)
Course(e, heard, owner, order, n, a) ==
    a = [k \in 0..n |-> IF k = 0 THEN Begins(e, owner)
                        ELSE AssignCall(e, heard, a[k - 1], order[k])]

LEMMA CourseExists ==
    ASSUME NEW e, NEW heard, NEW owner, NEW order, NEW m \in Nat
    PROVE  \E a : Course(e, heard, owner, order, m, a)
<1> DEFINE T == {n \in 0..m : \E a : Course(e, heard, owner, order, n, a)}
<1>1. 0 \in T
  <2> DEFINE a == [k \in 0..0 |-> Begins(e, owner)]
  <2>1. a = [k \in 0..0 |-> IF k = 0 THEN Begins(e, owner)
                            ELSE AssignCall(e, heard, a[k - 1], order[k])]
    OBVIOUS
  <2> HIDE DEF a
  <2>2. Course(e, heard, owner, order, 0, a)
    BY <2>1 DEF Course
  <2> QED  BY <2>2
<1>2. ASSUME NEW n \in 0..(m - 1), n \in T
      PROVE  n + 1 \in T
  <2>1. PICK a : Course(e, heard, owner, order, n, a)
    BY <1>2
  <2> DEFINE step(k, r) == AssignCall(e, heard, r, order[k])
             b == [k \in 0..(n + 1) |-> IF k = n + 1 THEN step(n + 1, a[n]) ELSE a[k]]
  <2>2. \A k \in 0..n : a[k] = IF k = 0 THEN Begins(e, owner) ELSE step(k, a[k - 1])
    BY <2>1 DEF Course
  <2> HIDE DEF step
  <2>3. \A k \in 0..(n + 1) : b[k] = IF k = 0 THEN Begins(e, owner) ELSE step(k, b[k - 1])
    <3> SUFFICES ASSUME NEW k \in 0..(n + 1)
                 PROVE  b[k] = IF k = 0 THEN Begins(e, owner) ELSE step(k, b[k - 1])
      OBVIOUS
    <3>1. CASE k = n + 1
      <4>1. k # 0 /\ k - 1 = n /\ n \in 0..(n + 1) /\ n # n + 1
        BY <3>1
      <4> QED  BY <3>1, <4>1
    <3>2. CASE k \in 1..n
      <4>1. k # 0 /\ k # n + 1 /\ k - 1 \in 0..(n + 1) /\ k - 1 # n + 1 /\ k \in 0..n
        BY <3>2
      <4> QED  BY <2>2, <4>1
    <3>3. CASE k = 0
      <4>1. k # n + 1 /\ k \in 0..n
        BY <3>3
      <4> QED  BY <2>2, <3>3, <4>1
    <3> QED  BY <3>1, <3>2, <3>3
  <2>4. Course(e, heard, owner, order, n + 1, b)
    <3>1. b = [k \in 0..(n + 1) |-> IF k = 0 THEN Begins(e, owner) ELSE step(k, b[k - 1])]
      BY <2>3
    <3> HIDE DEF b
    <3> QED  BY <3>1 DEF Course, step
  <2> QED  BY <2>4
<1>3. 0..m \subseteq T
  <2> HIDE DEF T
  <2> QED  BY <1>1, <1>2, UpTo
<1> QED  BY <1>3

LEMMA InOrder ==
    ASSUME NEW e, NEW heard, NEW owner, NEW order, Len(order) \in Nat
    PROVE  \E a : /\ a[0] = Begins(e, owner)
                  /\ \A k \in 1..Len(order) : a[k] = AssignCall(e, heard, a[k - 1], order[k])
                  /\ AssignInOrder(e, heard, owner, order) = a[Len(order)]
<1> DEFINE m == Len(order)
           a == CHOOSE a : Course(e, heard, owner, order, m, a)
<1>1. Course(e, heard, owner, order, m, a)
  BY CourseExists
<1>2. AssignInOrder(e, heard, owner, order) = a[m]
  BY DEF AssignInOrder, Course, Begins
<1> HIDE DEF a
<1>3. \A k \in 0..m : a[k] = IF k = 0 THEN Begins(e, owner)
                             ELSE AssignCall(e, heard, a[k - 1], order[k])
  BY <1>1 DEF Course
<1>4. a[0] = Begins(e, owner)
  BY <1>3
<1>5. \A k \in 1..m : a[k] = AssignCall(e, heard, a[k - 1], order[k])
  BY <1>3
<1> QED  BY <1>2, <1>4, <1>5

(* What the calls S are assigned, in any order: those that had an owner    *)
(* keep it, the others get e, which queues them, or one e has heard of.    *)
LEMMA InOrderResult ==
    ASSUME NEW e, NEW heard, Picture(e, heard), NEW owner \in [Pressed -> Owners],
           NEW S \in SUBSET Pressed, NEW order \in SetToSeqs(S),
           call_buttons[e] \in Seq(Pressed), current_direction[e] \in Directions,
           motor[e] \in Directions, NEW r, r = AssignInOrder(e, heard, owner, order)
    PROVE  /\ r \in Results
           /\ OwnersFrom(e, heard, owner, r.owner)
           /\ \A c \in S : r.owner[c] # Unassigned
           /\ Attached(e, Begins(e, owner)) => Attached(e, r)
           /\ Ready(e, Begins(e, owner)) => Ready(e, r)
<1> DEFINE m == Len(order)
<1>1. /\ m \in Nat /\ \A k \in 1..m : order[k] \in S
      /\ \A c \in S : \E k \in 1..m : order[k] = c
  BY OrderCovers
<1>2. PICK a : /\ a[0] = Begins(e, owner)
               /\ \A k \in 1..m : a[k] = AssignCall(e, heard, a[k - 1], order[k])
               /\ r = a[m]
  BY <1>1, InOrder
<1> DEFINE Good(k) ==
             /\ a[k] \in Results
             /\ OwnersFrom(e, heard, owner, a[k].owner)
             /\ \A j \in 1..k : a[k].owner[order[j]] # Unassigned
             /\ Attached(e, Begins(e, owner)) => Attached(e, a[k])
             /\ Ready(e, Begins(e, owner)) => Ready(e, a[k])
           T == {k \in 0..m : Good(k)}
<1>3. Good(0)
  BY <1>2 DEF Begins, Results, OwnersFrom
<1>4. ASSUME NEW k \in 0..(m - 1), Good(k)
      PROVE  Good(k + 1)
  <2> DEFINE b == a[k + 1]  c == order[k + 1]
  <2>1. k + 1 \in 1..m /\ (k + 1) - 1 = k /\ \A j \in 1..(k + 1) : j = k + 1 \/ j \in 1..k
    BY <1>1
  <2>2. b = AssignCall(e, heard, a[k], c) /\ c \in Pressed /\ \A j \in 1..m : order[j] \in Pressed
    BY <1>1, <1>2, <2>1
  <2> HIDE DEF b, c
  <2>3. /\ b \in Results /\ b.owner[c] # Unassigned
        /\ \A d \in Pressed : (d = c => a[k].owner[d] # Unassigned) => b.owner[d] = a[k].owner[d]
        /\ a[k].owner[c] = Unassigned => b.owner[c] \in {e} \cup DOMAIN heard
        /\ Attached(e, a[k]) => Attached(e, b)
        /\ Ready(e, a[k]) => Ready(e, b)
    BY <1>4, <2>2, AssignCallResult
  <2>4. OwnersFrom(e, heard, owner, b.owner)
    BY <1>4, <2>2, <2>3 DEF OwnersFrom
  <2>5. ASSUME NEW j \in 1..(k + 1)
        PROVE  b.owner[order[j]] # Unassigned
    <3>1. CASE j = k + 1
      BY <2>3, <3>1 DEF c
    <3>2. CASE j \in 1..k
      <4>1. a[k].owner[order[j]] # Unassigned /\ order[j] \in Pressed
        BY <1>1, <1>4, <3>2
      <4> QED  BY <2>3, <4>1
    <3> QED  BY <2>1, <3>1, <3>2
  <2> QED  BY <1>4, <2>3, <2>4, <2>5 DEF b
<1>5. Good(m)
  <2> HIDE DEF Good
  <2>1. 0 \in T /\ \A k \in 0..(m - 1) : k \in T => k + 1 \in T
    BY <1>1, <1>3, <1>4
  <2>2. 0..m \subseteq T
    <3> HIDE DEF T
    <3> QED  BY <1>1, <2>1, UpTo
  <2> QED  BY <1>1, <2>2
<1> QED  BY <1>1, <1>2, <1>5

-----------------------------------------------------------------------------
(* The inductive invariant.                                                *)

Messages == [kind : {"HALL"}, call : Pressed, time : 0..MaxTime]
            \cup [kind : {"COMPLETED"}, call : Pressed]
            \cup [kind : {"STATE"}, state : States]

(* TypeOK, and the messages; nobody sends to itself, or expects a          *)
(* heartbeat of itself.                                                    *)
Typed ==
    /\ TypeOK
    /\ network \in [Elevators -> [Elevators -> Seq(Messages)]]
    /\ \A e \in Elevators : network[e][e] = <<>> /\ e \notin last_seen[e]
    /\ elevator_states = [e \in Elevators |-> elevator_states[e]]

(* Whom e gives a call to, other than itself, listener or monitor of e     *)
(* still counts as alive: a timeout will come.                             *)
OwnersKnown(e) ==
    \A c \in Pressed : Owner(e, c) \in {Absent, e} \cup DOMAIN elevator_states[e] \cup last_seen[e]

(* What e takes itself to own, it has queued.                              *)
OwnQueued(e) == \A c \in Pressed : Owner(e, c) = e => Contains(call_buttons[e], c)

(* A car that stands still with calls starts when it gets another.         *)
Startable(e) ==
    ~ waiting[e] /\ motor[e] = DIRN_STOP /\ call_buttons[e] # <<>> => current_direction[e] = DIRN_STOP

Inv == Typed /\ \A e \in Elevators : OwnersKnown(e) /\ OwnQueued(e) /\ Startable(e)

(* A step leaves elevator d alone.                                         *)
Same(d) ==
    /\ assigned_to'[d] = assigned_to[d] /\ call_buttons'[d] = call_buttons[d]
    /\ current_direction'[d] = current_direction[d] /\ motor'[d] = motor[d]
    /\ waiting'[d] = waiting[d]
    /\ elevator_states'[d] = elevator_states[d] /\ last_seen'[d] = last_seen[d]

LEMMA SameKeeps ==
    ASSUME NEW d \in Elevators, Same(d), OwnersKnown(d), OwnQueued(d), Startable(d)
    PROVE  OwnersKnown(d)' /\ OwnQueued(d)' /\ Startable(d)'
BY DEF Same, OwnersKnown, OwnQueued, Startable, Owner

(* A step of e that keeps the types leaves the invariant to show for e.    *)
LEMMA StepOf ==
    ASSUME Inv, NEW e \in Elevators, Typed', \A d \in Elevators \ {e} : Same(d),
           OwnersKnown(e)', OwnQueued(e)', Startable(e)'
    PROVE  Inv'
<1>1. ASSUME NEW d \in Elevators
      PROVE  OwnersKnown(d)' /\ OwnQueued(d)' /\ Startable(d)'
  <2>1. CASE d = e
    BY <2>1
  <2>2. CASE d # e
    BY <2>2, SameKeeps DEF Inv
  <2> QED  BY <2>1, <2>2
<1> QED  BY <1>1 DEF Inv

(* Messages that are sent, and messages that are taken out.                *)
LEMMA SentTyped ==
    ASSUME Typed, NEW e \in Elevators, NEW to \in SUBSET (Elevators \ {e}), NEW m \in Messages,
           network' = Sent(e, to, m)
    PROVE  /\ network' \in [Elevators -> [Elevators -> Seq(Messages)]]
           /\ \A d \in Elevators : network'[d][d] = <<>>
<1>1. \A q \in Seq(Messages) : Append(q, m) \in Seq(Messages)
  OBVIOUS
<1>2. /\ network' = [network EXCEPT ![e] = [d \in Elevators |->
                        IF d \in to THEN Append(network[e][d], m) ELSE network[e][d]]]
      /\ network \in [Elevators -> [Elevators -> Seq(Messages)]]
  BY DEF Sent, Typed
<1> QED  BY <1>1, <1>2 DEF Typed

LEMMA TakenTyped ==
    ASSUME Typed, NEW d \in Elevators, NEW e \in Elevators, NEW i \in DOMAIN network[d][e],
           network' = [network EXCEPT ![d][e] = RemoveAt(@, i)]
    PROVE  /\ network' \in [Elevators -> [Elevators -> Seq(Messages)]]
           /\ \A f \in Elevators : network'[f][f] = <<>>
           /\ network[d][e][i] \in Messages /\ d # e
<1>1. network \in [Elevators -> [Elevators -> Seq(Messages)]] /\ network[d][e] \in Seq(Messages)
  BY DEF Typed
<1>2. RemoveAt(network[d][e], i) \in Seq(Messages)
  BY <1>1, RemoveAtProperties
<1>3. network[d][e][i] \in Messages
  BY <1>1, ElementOfSeq, LenProperties
<1>4. d # e
  <2>1. network[e][e] = <<>> /\ DOMAIN <<>> = {}
    BY DEF Typed
  <2> QED  BY <2>1
<1> QED  BY <1>1, <1>2, <1>3, <1>4 DEF Typed

LEMMA MessageParts ==
    ASSUME NEW m \in Messages
    PROVE  /\ m.kind = "HALL" => m.call \in Pressed /\ m.time \in 0..MaxTime
           /\ m.kind = "COMPLETED" => m.call \in Pressed
           /\ m.kind = "STATE" => m.state \in States
BY DEF Messages

LEMMA MessageTypes ==
    /\ \A c \in Pressed, ts \in 0..MaxTime : HallCall(c, ts) \in Messages
    /\ \A c \in Pressed : CompletedCall(c) \in Messages
    /\ \A s \in States : ElevatorState(s) \in Messages
BY DEF HallCall, CompletedCall, ElevatorState, Messages

LEMMA StateTyped ==
    ASSUME Typed, NEW e \in Elevators
    PROVE  State(e) \in States
BY DEF Typed, TypeOK, State, States

LEMMA PictureTyped ==
    ASSUME Typed, NEW e \in Elevators
    PROVE  Picture(e, elevator_states[e])
BY DEF Typed, TypeOK, Picture

-----------------------------------------------------------------------------
(* What the handlers have in common.                                       *)

(* The variables an assignment changes have their types, and only those of *)
(* e have changed.                                                         *)
CarsTyped(e) ==
    /\ assigned_to' \in [Elevators -> [Pressed -> Elevators \cup {Absent}]]
    /\ call_buttons' \in [Elevators -> Seq(Pressed)]
    /\ current_direction' \in [Elevators -> Directions] /\ motor' \in [Elevators -> Directions]
    /\ \A d \in Elevators \ {e} :
          /\ assigned_to'[d] = assigned_to[d] /\ call_buttons'[d] = call_buttons[d]
          /\ current_direction'[d] = current_direction[d] /\ motor'[d] = motor[d]

LEMMA Assigns ==
    ASSUME Typed, NEW e \in Elevators, NEW heard, Picture(e, heard),
           NEW owner \in [Pressed -> Owners], NEW S \in SUBSET Pressed,
           \A c \in Pressed : owner[c] = Unassigned => c \in S,
           AssignCalls(e, heard, owner, S)
    PROVE  /\ CarsTyped(e)
           /\ \A c \in Pressed : IF owner[c] # Unassigned THEN assigned_to'[e][c] = owner[c]
                                 ELSE assigned_to'[e][c] \in {e} \cup DOMAIN heard
           /\ (\A c \in Pressed : owner[c] = e => Contains(call_buttons[e], c)) => OwnQueued(e)'
           /\ Startable(e) /\ waiting'[e] = waiting[e] => Startable(e)'
<1>1. PICK order \in SetToSeqs(S) :
          LET a == AssignInOrder(e, heard, owner, order)
          IN  /\ assigned_to' = [assigned_to EXCEPT ![e] = a.owner]
              /\ call_buttons' = [call_buttons EXCEPT ![e] = a.queue]
              /\ current_direction' = [current_direction EXCEPT ![e] = a.direction]
              /\ motor' = [motor EXCEPT ![e] = a.motor]
  BY DEF AssignCalls
<1>2. PICK r : r = AssignInOrder(e, heard, owner, order)
  OBVIOUS
<1>3. /\ assigned_to' = [assigned_to EXCEPT ![e] = r.owner]
      /\ call_buttons' = [call_buttons EXCEPT ![e] = r.queue]
      /\ current_direction' = [current_direction EXCEPT ![e] = r.direction]
      /\ motor' = [motor EXCEPT ![e] = r.motor]
  BY <1>1, <1>2
<1>4. /\ assigned_to \in [Elevators -> [Pressed -> Elevators \cup {Absent}]]
      /\ call_buttons \in [Elevators -> Seq(Pressed)]
      /\ current_direction \in [Elevators -> Directions] /\ motor \in [Elevators -> Directions]
  BY DEF Typed, TypeOK
<1>5. /\ r \in Results /\ OwnersFrom(e, heard, owner, r.owner)
      /\ \A c \in S : r.owner[c] # Unassigned
      /\ Attached(e, Begins(e, owner)) => Attached(e, r)
      /\ Ready(e, Begins(e, owner)) => Ready(e, r)
  BY <1>2, <1>4, InOrderResult
<1>6. \A c \in Pressed : IF owner[c] # Unassigned THEN r.owner[c] = owner[c]
                         ELSE r.owner[c] \in {e} \cup DOMAIN heard
  BY <1>5 DEF OwnersFrom
<1>7. r.owner \in [Pressed -> Elevators \cup {Absent}]
  BY <1>5, <1>6 DEF Results, Owners, Picture
<1>8. /\ assigned_to'[e] = r.owner /\ call_buttons'[e] = r.queue
      /\ current_direction'[e] = r.direction /\ motor'[e] = r.motor
  BY <1>3, <1>4
<1>9. CarsTyped(e)
  BY <1>3, <1>4, <1>5, <1>7 DEF CarsTyped, Results
<1>10. (\A c \in Pressed : owner[c] = e => Contains(call_buttons[e], c)) => OwnQueued(e)'
  BY <1>5, <1>8 DEF Attached, Begins, OwnQueued, Owner
<1>11. Startable(e) /\ waiting'[e] = waiting[e] => Startable(e)'
  BY <1>5, <1>8 DEF Ready, Begins, Startable
<1> QED  BY <1>6, <1>8, <1>9, <1>10, <1>11

LEMMA InsertKeeps ==
    ASSUME Inv, NEW e \in Elevators, NEW c \in Pressed, NEW ts \in 0..MaxTime, Insert(e, c, ts),
           waiting' = waiting, elevator_states' = elevator_states, last_seen' = last_seen
    PROVE  /\ CarsTyped(e) /\ timestamp' \in [Elevators -> [Pressed -> 0..MaxTime]]
           /\ OwnersKnown(e)' /\ OwnQueued(e)' /\ Startable(e)'
<1> DEFINE owner == [assigned_to[e] EXCEPT ![c] = Unassigned]
<1>1. /\ assigned_to[e] \in [Pressed -> Elevators \cup {Absent}]
      /\ timestamp \in [Elevators -> [Pressed -> 0..MaxTime]]
      /\ OwnersKnown(e) /\ OwnQueued(e) /\ Startable(e) /\ Picture(e, elevator_states[e])
  BY PictureTyped DEF Inv, Typed, TypeOK
<1>2. owner \in [Pressed -> Owners] /\ \A d \in Pressed : owner[d] = Unassigned <=> d = c
  BY <1>1, NotElevators DEF Owners
<1>3. \A d \in Pressed : d # c => owner[d] = Owner(e, d)
  BY <1>1 DEF Owner
<1>4. AssignCalls(e, elevator_states[e], owner, {c})
  BY DEF Insert
<1> HIDE DEF owner
<1>5. /\ CarsTyped(e)
      /\ \A d \in Pressed : IF owner[d] # Unassigned THEN assigned_to'[e][d] = owner[d]
                            ELSE assigned_to'[e][d] \in {e} \cup DOMAIN elevator_states[e]
      /\ (\A d \in Pressed : owner[d] = e => Contains(call_buttons[e], d)) => OwnQueued(e)'
      /\ Startable(e)'
  BY <1>1, <1>2, <1>4, Assigns DEF Inv
<1>6. OwnQueued(e)'
  BY <1>1, <1>2, <1>3, <1>5, NotElevators DEF OwnQueued
<1>7. OwnersKnown(e)'
  BY <1>1, <1>2, <1>3, <1>5 DEF OwnersKnown, Owner
<1>8. timestamp' \in [Elevators -> [Pressed -> 0..MaxTime]]
  BY <1>1 DEF Insert
<1> QED  BY <1>5, <1>6, <1>7, <1>8

(* The calls that lose their owner d get one of those e still knows.       *)
LEMMA ReassignKeeps ==
    ASSUME Inv, NEW e \in Elevators, NEW d \in Elevators \ {e}, NEW heard, Picture(e, heard),
           Reassign(e, d, heard), waiting' = waiting,
           DOMAIN heard \subseteq DOMAIN elevator_states'[e],
           (DOMAIN elevator_states[e] \cup last_seen[e]) \ {d}
              \subseteq DOMAIN elevator_states'[e] \cup last_seen'[e]
    PROVE  CarsTyped(e) /\ OwnersKnown(e)' /\ OwnQueued(e)' /\ Startable(e)'
<1> DEFINE S == {c \in Pressed : assigned_to[e][c] = d}
           owner == [c \in Pressed |-> IF c \in S THEN Unassigned ELSE assigned_to[e][c]]
<1>1. /\ assigned_to[e] \in [Pressed -> Elevators \cup {Absent}]
      /\ OwnersKnown(e) /\ OwnQueued(e) /\ Startable(e)
  BY DEF Inv, Typed, TypeOK
<1>2. /\ owner \in [Pressed -> Owners] /\ S \in SUBSET Pressed
      /\ \A c \in Pressed : owner[c] = Unassigned <=> Owner(e, c) = d
      /\ \A c \in Pressed : owner[c] = Unassigned => c \in S
      /\ \A c \in Pressed : Owner(e, c) # d => owner[c] = Owner(e, c)
  BY <1>1, NotElevators DEF Owners, Owner
<1>3. AssignCalls(e, heard, owner, S)
  BY DEF Reassign
<1> HIDE DEF owner, S
<1>4. /\ CarsTyped(e)
      /\ \A c \in Pressed : IF owner[c] # Unassigned THEN assigned_to'[e][c] = owner[c]
                            ELSE assigned_to'[e][c] \in {e} \cup DOMAIN heard
      /\ (\A c \in Pressed : owner[c] = e => Contains(call_buttons[e], c)) => OwnQueued(e)'
      /\ Startable(e)'
  BY <1>1, <1>2, <1>3, Assigns DEF Inv
<1>5. OwnQueued(e)'
  BY <1>1, <1>2, <1>4, NotElevators DEF OwnQueued
<1>6. OwnersKnown(e)'
  BY <1>1, <1>2, <1>4 DEF OwnersKnown, Owner
<1> QED  BY <1>4, <1>5, <1>6

-----------------------------------------------------------------------------
(* The invariant holds at first, and after every step.                     *)

LEMMA InitInv ==
    ASSUME Init
    PROVE  Inv
<1>1. 0 \in Floors /\ 0 \in 0..MaxTime /\ DIRN_STOP \in Directions
  BY NumFloorsAssumption, GroupAssumption DEF Floors, Directions
<1>2. /\ up = [e \in Elevators |-> TRUE] /\ call_buttons = [e \in Elevators |-> <<>>]
      /\ current_floor = [e \in Elevators |-> 0] /\ waiting = [e \in Elevators |-> FALSE]
      /\ current_direction = [e \in Elevators |-> DIRN_STOP]
      /\ motor = [e \in Elevators |-> DIRN_STOP]
      /\ assigned_to = [e \in Elevators |-> [c \in Pressed |-> Absent]]
      /\ timestamp = [e \in Elevators |-> [c \in Pressed |-> 0]]
      /\ saved = [e \in Elevators |-> FALSE]
      /\ last_seen = [e \in Elevators |-> Elevators \ {e}]
      /\ network = [e \in Elevators |-> [d \in Elevators |-> <<>>]]
  BY DEF Init
<1>3. elevator_states = [e \in Elevators |-> [d \in Elevators \ {e} |-> State(d)]]
  BY DEF Init
<1>4. \A d \in Elevators : State(d) \in States
  BY <1>1, <1>2 DEF State, States
<1>5. /\ elevator_states = [e \in Elevators |-> elevator_states[e]]
      /\ \A e \in Elevators : \A d \in DOMAIN elevator_states[e] :
            d \in Elevators \ {e} /\ elevator_states[e][d] \in States
  BY <1>3, <1>4
<1>6. Typed
  BY <1>1, <1>2, <1>5 DEF Typed, TypeOK
<1>7. ASSUME NEW e \in Elevators
      PROVE  OwnersKnown(e) /\ OwnQueued(e) /\ Startable(e)
  BY <1>2, <1>7, NotElevators DEF OwnersKnown, OwnQueued, Startable, Owner
<1> QED  BY <1>6, <1>7 DEF Inv

(* The variables CarsTyped does not speak of: they have their types, and   *)
(* only those of e have changed.                                           *)
RestTyped(e) ==
    /\ up' \in [Elevators -> BOOLEAN] /\ waiting' \in [Elevators -> BOOLEAN]
    /\ current_floor' \in [Elevators -> Floors] /\ saved' \in [Elevators -> BOOLEAN]
    /\ timestamp' \in [Elevators -> [Pressed -> 0..MaxTime]]
    /\ \A d \in Elevators \ {e} : waiting'[d] = waiting[d]

PeersTyped(e) ==
    /\ elevator_states' = [d \in Elevators |-> elevator_states'[d]]
    /\ \A d \in DOMAIN elevator_states'[e] :
          d \in Elevators \ {e} /\ elevator_states'[e][d] \in States
    /\ last_seen' \in [Elevators -> SUBSET Elevators] /\ e \notin last_seen'[e]
    /\ \A d \in Elevators \ {e} :
          elevator_states'[d] = elevator_states[d] /\ last_seen'[d] = last_seen[d]

NetworkTyped ==
    /\ network' \in [Elevators -> [Elevators -> Seq(Messages)]]
    /\ \A d \in Elevators : network'[d][d] = <<>>

LEMMA StepKeeps ==
    ASSUME Inv, NEW e \in Elevators, CarsTyped(e), RestTyped(e), PeersTyped(e), NetworkTyped,
           OwnersKnown(e)', OwnQueued(e)', Startable(e)'
    PROVE  Inv'
<1>1. \A d \in Elevators \ {e} : Same(d)
  BY DEF CarsTyped, RestTyped, PeersTyped, Same
<1>2. ASSUME NEW f \in Elevators, NEW d \in DOMAIN elevator_states'[f]
      PROVE  d \in Elevators \ {f} /\ elevator_states'[f][d] \in States
  <2>1. CASE f = e
    BY <2>1, <1>2 DEF PeersTyped
  <2>2. CASE f # e
    <3>1. elevator_states'[f] = elevator_states[f]
      BY <2>2 DEF PeersTyped
    <3> QED  BY <1>2, <3>1 DEF Inv, Typed, TypeOK
  <2> QED  BY <2>1, <2>2
<1>3. \A d \in Elevators : d \notin last_seen'[d]
  BY DEF PeersTyped, Inv, Typed
<1>4. Typed'
  BY <1>2, <1>3 DEF CarsTyped, RestTyped, PeersTyped, NetworkTyped, Typed, TypeOK
<1> QED  BY <1>1, <1>4, StepOf

(* What a step leaves alone.                                               *)
LEMMA RestUnchanged ==
    ASSUME Inv, NEW e \in Elevators
    PROVE  /\ UNCHANGED <<up, current_floor, waiting, timestamp, saved>> => RestTyped(e)
           /\ UNCHANGED peer => PeersTyped(e)
           /\ UNCHANGED network => NetworkTyped
           /\ UNCHANGED <<assigned_to, call_buttons, current_direction, motor>> => CarsTyped(e)
BY DEF Inv, Typed, TypeOK, RestTyped, PeersTyped, NetworkTyped, CarsTyped, peer

LEMMA OthersAre ==
    ASSUME NEW e \in Elevators
    PROVE  Others(e) \in SUBSET (Elevators \ {e})
BY DEF Others

LEMMA PressKeeps ==
    ASSUME Inv, NEW e \in Elevators, NEW c \in Pressed, NEW ts \in 0..MaxTime, Press(e, c, ts)
    PROVE  Inv'
<1>1. /\ Insert(e, c, ts) /\ network' = Sent(e, Others(e), HallCall(c, ts))
      /\ UNCHANGED <<up, current_floor, waiting, saved>> /\ UNCHANGED peer
      /\ elevator_states' = elevator_states /\ last_seen' = last_seen /\ waiting' = waiting
  BY DEF Press, peer
<1>2. /\ CarsTyped(e) /\ timestamp' \in [Elevators -> [Pressed -> 0..MaxTime]]
      /\ OwnersKnown(e)' /\ OwnQueued(e)' /\ Startable(e)'
  BY <1>1, InsertKeeps
<1>3. NetworkTyped
  BY <1>1, MessageTypes, OthersAre, SentTyped DEF NetworkTyped, Inv
<1>4. RestTyped(e)
  BY <1>1, <1>2 DEF RestTyped, Inv, Typed, TypeOK
<1>5. PeersTyped(e)
  BY <1>1, RestUnchanged
<1> QED  BY <1>2, <1>3, <1>4, <1>5, StepKeeps

LEMMA NextFloorType ==
    ASSUME NEW e \in Elevators, Moving(e)
    PROVE  NextFloor(e) \in Floors /\ motor[e] # DIRN_STOP
BY DEF Moving

LEMMA PassKeeps ==
    ASSUME Inv, NEW e \in Elevators, Pass(e)
    PROVE  Inv'
<1>1. /\ NextFloor(e) \in Floors /\ current_floor' = [current_floor EXCEPT ![e] = NextFloor(e)]
      /\ UNCHANGED <<up, waiting, timestamp, saved, assigned_to, call_buttons,
                     current_direction, motor, network>> /\ UNCHANGED peer
  BY NextFloorType DEF Pass, map
<1>2. RestTyped(e)
  BY <1>1 DEF Inv, Typed, TypeOK, RestTyped
<1>3. CarsTyped(e) /\ PeersTyped(e) /\ NetworkTyped
  BY <1>1, RestUnchanged
<1>4. OwnersKnown(e)' /\ OwnQueued(e)' /\ Startable(e)'
  BY <1>1 DEF Inv, OwnersKnown, OwnQueued, Startable, Owner, peer
<1> QED  BY <1>2, <1>3, <1>4, StepKeeps

(* A call at position i of the queue is forgotten and taken out of it.     *)
LEMMA Unqueued ==
    ASSUME Inv, NEW e \in Elevators, NEW i \in DOMAIN call_buttons[e],
           Forget(e, call_buttons[e][i]),
           call_buttons' = [call_buttons EXCEPT ![e] = RemoveAt(@, i)],
           elevator_states' = elevator_states, last_seen' = last_seen
    PROVE  /\ assigned_to' \in [Elevators -> [Pressed -> Elevators \cup {Absent}]]
           /\ call_buttons' \in [Elevators -> Seq(Pressed)]
           /\ timestamp' \in [Elevators -> [Pressed -> 0..MaxTime]]
           /\ \A d \in Elevators \ {e} :
                 assigned_to'[d] = assigned_to[d] /\ call_buttons'[d] = call_buttons[d]
           /\ OwnersKnown(e)' /\ OwnQueued(e)'
           /\ CompletedCall(call_buttons[e][i]) \in Messages
<1> DEFINE c == call_buttons[e][i]
<1>1. /\ assigned_to \in [Elevators -> [Pressed -> Elevators \cup {Absent}]]
      /\ call_buttons \in [Elevators -> Seq(Pressed)] /\ call_buttons[e] \in Seq(Pressed)
      /\ timestamp \in [Elevators -> [Pressed -> 0..MaxTime]] /\ 0 \in 0..MaxTime
      /\ OwnersKnown(e) /\ OwnQueued(e)
  BY GroupAssumption DEF Inv, Typed, TypeOK
<1>2. c \in Pressed /\ RemoveAt(call_buttons[e], i) \in Seq(Pressed)
  BY <1>1, ElementOfSeq, LenProperties, RemoveAtProperties
<1>3. /\ assigned_to' = [assigned_to EXCEPT ![e][c] = Absent]
      /\ timestamp' = [timestamp EXCEPT ![e][c] = 0]
  BY DEF Forget
<1>4. /\ assigned_to'[e] = [assigned_to[e] EXCEPT ![c] = Absent]
      /\ call_buttons'[e] = RemoveAt(call_buttons[e], i)
  BY <1>1, <1>3
<1>5. ASSUME NEW d \in Pressed, Owner(e, d)' = e
      PROVE  Contains(call_buttons[e], d)' 
  <2>1. d # c /\ Owner(e, d) = e
    BY <1>1, <1>2, <1>4, <1>5, NotElevators DEF Owner
  <2>2. Contains(call_buttons[e], d)
    BY <1>1, <2>1 DEF OwnQueued
  <2>3. call_buttons[e] \in Seq(Calls) /\ d \in Calls
    BY <1>1, PressedCalls
  <2>4. Contains(RemoveAt(call_buttons[e], i), d)
    BY <2>1, <2>2, <2>3, RemoveAtKeeps
  <2> QED  BY <1>4, <2>4
<1>6. OwnQueued(e)'
  BY <1>5 DEF OwnQueued
<1>7. OwnersKnown(e)'
  BY <1>1, <1>2, <1>4 DEF OwnersKnown, Owner
<1>8. CompletedCall(c) \in Messages
  BY <1>2, MessageTypes
<1> HIDE DEF c
<1> QED  BY <1>1, <1>2, <1>3, <1>6, <1>7, <1>8 DEF c

LEMMA ServeKeeps ==
    ASSUME Inv, NEW e \in Elevators, Serve(e)
    PROVE  Inv'
<1> DEFINE i == Serving(e)
<1>1. /\ NextFloor(e) \in Floors /\ i # 0
      /\ current_floor' = [current_floor EXCEPT ![e] = NextFloor(e)]
      /\ call_buttons' = [call_buttons EXCEPT ![e] = RemoveAt(@, i)]
      /\ motor' = [motor EXCEPT ![e] = DIRN_STOP] /\ waiting' = [waiting EXCEPT ![e] = TRUE]
      /\ Forget(e, call_buttons[e][i])
      /\ network' = Sent(e, Others(e), CompletedCall(call_buttons[e][i]))
      /\ UNCHANGED <<up, current_direction, saved>> /\ UNCHANGED peer
  BY NextFloorType DEF Serve
<1>2. call_buttons[e] \in Seq(Calls)
  BY PressedCalls DEF Inv, Typed, TypeOK
<1>3. i \in DOMAIN call_buttons[e]
  BY <1>1, <1>2, ServingCallFound DEF Serving
<1> HIDE DEF i
<1>4. elevator_states' = elevator_states /\ last_seen' = last_seen
  BY <1>1 DEF peer
<1>5. /\ assigned_to' \in [Elevators -> [Pressed -> Elevators \cup {Absent}]]
      /\ call_buttons' \in [Elevators -> Seq(Pressed)]
      /\ timestamp' \in [Elevators -> [Pressed -> 0..MaxTime]]
      /\ \A d \in Elevators \ {e} :
            assigned_to'[d] = assigned_to[d] /\ call_buttons'[d] = call_buttons[d]
      /\ OwnersKnown(e)' /\ OwnQueued(e)' /\ CompletedCall(call_buttons[e][i]) \in Messages
  BY <1>1, <1>3, <1>4, Unqueued
<1>6. CarsTyped(e) /\ RestTyped(e)
  BY <1>1, <1>5 DEF Inv, Typed, TypeOK, CarsTyped, RestTyped, Directions
<1>7. NetworkTyped
  BY <1>1, <1>5, OthersAre, SentTyped DEF NetworkTyped, Inv
<1>8. Startable(e)'
  BY <1>1 DEF Startable, Inv, Typed, TypeOK
<1> QED  BY <1>1, <1>5, <1>6, <1>7, <1>8, RestUnchanged, StepKeeps

(* What leaving with direction chosen makes of the car.                    *)
LEMMA LeaveKeeps ==
    ASSUME Inv, NEW e \in Elevators, NEW q \in Seq(Pressed), NEW chosen \in Directions,
           Leave(e, q, chosen)
    PROVE  /\ current_direction' \in [Elevators -> Directions]
           /\ motor' \in [Elevators -> Directions]
           /\ call_buttons' = [call_buttons EXCEPT ![e] = q]
           /\ \A d \in Elevators \ {e} :
                 current_direction'[d] = current_direction[d] /\ motor'[d] = motor[d]
           /\ motor'[e] = current_direction'[e]
<1> DEFINE m    == decide_next_call(q, current_floor[e], current_direction[e])
           dirn == IF m # 0 /\ chosen = DIRN_STOP
                   THEN hall_call_start_dir(q[m].floor, current_floor[e]) ELSE chosen
<1>1. /\ current_direction \in [Elevators -> Directions] /\ motor \in [Elevators -> Directions]
      /\ current_floor[e] \in Floors
  BY DEF Inv, Typed, TypeOK
<1>2. q \in Seq(Calls) /\ m \in DOMAIN q \cup {0}
  BY PressedCalls, NextCallFound
<1>3. /\ call_buttons' = [call_buttons EXCEPT ![e] = q]
      /\ current_direction' = [current_direction EXCEPT ![e] = dirn]
      /\ motor' = [motor EXCEPT ![e] = dirn]
  BY DEF Leave
<1> HIDE DEF m
<1>4. m # 0 => q[m].floor \in Floors
  <2>1. \A j \in DOMAIN q : q[j] \in Calls
    BY <1>2, ElementOfSeq, LenProperties
  <2>2. \A x \in Calls : x.floor \in Floors
    BY DEF Calls
  <2> QED  BY <1>2, <2>1, <2>2
<1>5. dirn \in Directions
  BY <1>1, <1>4, StartDirType
<1> HIDE DEF dirn
<1> QED  BY <1>1, <1>3, <1>5

LEMMA DepartIdleKeeps ==
    ASSUME Inv, NEW e \in Elevators, DepartIdle(e)
    PROVE  Inv'
<1>1. /\ waiting' = [waiting EXCEPT ![e] = FALSE] /\ NextCall(e) = 0
      /\ UNCHANGED <<up, current_floor, timestamp, saved, assigned_to, call_buttons,
                     current_direction, motor, network>> /\ UNCHANGED peer
  BY DEF DepartIdle, Depart, map
<1>2. call_buttons[e] = <<>>
  <2>1. call_buttons[e] \in Seq(Calls)
    BY PressedCalls DEF Inv, Typed, TypeOK
  <2> QED  BY <1>1, <2>1, NextCallFound DEF NextCall
<1>3. CarsTyped(e) /\ PeersTyped(e) /\ NetworkTyped
  BY <1>1, RestUnchanged
<1>4. RestTyped(e)
  BY <1>1 DEF Inv, Typed, TypeOK, RestTyped
<1>5. OwnersKnown(e)' /\ OwnQueued(e)' /\ Startable(e)'
  BY <1>1, <1>2 DEF Inv, OwnersKnown, OwnQueued, Startable, Owner, peer
<1> QED  BY <1>3, <1>4, <1>5, StepKeeps

LEMMA DepartTowardKeeps ==
    ASSUME Inv, NEW e \in Elevators, DepartToward(e)
    PROVE  Inv'
<1> DEFINE c == call_buttons[e][NextCall(e)]
<1>1. /\ waiting' = [waiting EXCEPT ![e] = FALSE] /\ NextCall(e) # 0
      /\ Leave(e, call_buttons[e], hall_call_start_dir(c.floor, current_floor[e]))
      /\ UNCHANGED <<up, current_floor, timestamp, saved, assigned_to, network>>
      /\ UNCHANGED peer
  BY DEF DepartToward, Depart, map
<1>2. /\ call_buttons \in [Elevators -> Seq(Pressed)] /\ call_buttons[e] \in Seq(Calls)
      /\ call_buttons[e] \in Seq(Pressed) /\ current_floor[e] \in Floors
  BY PressedCalls DEF Inv, Typed, TypeOK
<1>3. NextCall(e) \in DOMAIN call_buttons[e]
  BY <1>1, <1>2, NextCallFound DEF NextCall
<1>4. c \in Calls
  BY <1>2, <1>3, ElementOfSeq, LenProperties
<1> HIDE DEF c
<1>5. hall_call_start_dir(c.floor, current_floor[e]) \in Directions
  BY <1>2, <1>4, StartDirType DEF Calls
<1>6. /\ current_direction' \in [Elevators -> Directions] /\ motor' \in [Elevators -> Directions]
      /\ call_buttons' = [call_buttons EXCEPT ![e] = call_buttons[e]]
      /\ \A d \in Elevators \ {e} :
            current_direction'[d] = current_direction[d] /\ motor'[d] = motor[d]
      /\ motor'[e] = current_direction'[e]
  BY <1>1, <1>2, <1>5, LeaveKeeps
<1>7. call_buttons' = call_buttons
  BY <1>2, <1>6
<1>8. CarsTyped(e) /\ RestTyped(e)
  BY <1>1, <1>6, <1>7 DEF Inv, Typed, TypeOK, CarsTyped, RestTyped
<1>9. PeersTyped(e) /\ NetworkTyped
  BY <1>1, RestUnchanged
<1>10. OwnersKnown(e)' /\ OwnQueued(e)' /\ Startable(e)'
  BY <1>1, <1>6, <1>7 DEF Inv, OwnersKnown, OwnQueued, Startable, Owner, peer
<1> QED  BY <1>8, <1>9, <1>10, StepKeeps

LEMMA DepartServingKeeps ==
    ASSUME Inv, NEW e \in Elevators, DepartServing(e)
    PROVE  Inv'
<1> DEFINE i == NextCall(e)  q == RemoveAt(call_buttons[e], i)
<1>1. /\ waiting' = [waiting EXCEPT ![e] = FALSE] /\ i # 0
      /\ Forget(e, call_buttons[e][i]) /\ Leave(e, q, DIRN_STOP)
      /\ network' = Sent(e, Others(e), CompletedCall(call_buttons[e][i]))
      /\ UNCHANGED <<up, current_floor, saved>> /\ UNCHANGED peer
  BY DEF DepartServing, Depart
<1>2. call_buttons[e] \in Seq(Calls) /\ call_buttons[e] \in Seq(Pressed)
  BY PressedCalls DEF Inv, Typed, TypeOK
<1>3. i \in DOMAIN call_buttons[e]
  BY <1>1, <1>2, NextCallFound DEF NextCall
<1>4. q \in Seq(Pressed) /\ DIRN_STOP \in Directions
  BY <1>2, <1>3, RemoveAtProperties DEF Directions
<1> HIDE DEF i
<1>5. /\ current_direction' \in [Elevators -> Directions] /\ motor' \in [Elevators -> Directions]
      /\ call_buttons' = [call_buttons EXCEPT ![e] = q]
      /\ \A d \in Elevators \ {e} :
            current_direction'[d] = current_direction[d] /\ motor'[d] = motor[d]
      /\ motor'[e] = current_direction'[e]
  BY <1>1, <1>4, LeaveKeeps
<1>6. elevator_states' = elevator_states /\ last_seen' = last_seen
  BY <1>1 DEF peer
<1>7. /\ assigned_to' \in [Elevators -> [Pressed -> Elevators \cup {Absent}]]
      /\ call_buttons' \in [Elevators -> Seq(Pressed)]
      /\ timestamp' \in [Elevators -> [Pressed -> 0..MaxTime]]
      /\ \A d \in Elevators \ {e} :
            assigned_to'[d] = assigned_to[d] /\ call_buttons'[d] = call_buttons[d]
      /\ OwnersKnown(e)' /\ OwnQueued(e)' /\ CompletedCall(call_buttons[e][i]) \in Messages
  BY <1>1, <1>3, <1>5, <1>6, Unqueued
<1>8. CarsTyped(e) /\ RestTyped(e)
  BY <1>1, <1>5, <1>7 DEF Inv, Typed, TypeOK, CarsTyped, RestTyped
<1>9. NetworkTyped
  BY <1>1, <1>7, OthersAre, SentTyped DEF NetworkTyped, Inv
<1>10. Startable(e)'
  BY <1>5 DEF Startable
<1> QED  BY <1>1, <1>7, <1>8, <1>9, <1>10, RestUnchanged, StepKeeps

LEMMA Received ==
    ASSUME Inv, NEW e \in Elevators, NEW d \in Elevators, NEW i \in DOMAIN network[d][e],
           Receive(e, d, i)
    PROVE  /\ NetworkTyped /\ network[d][e][i] \in Messages /\ d # e
BY TakenTyped DEF Receive, NetworkTyped, Inv

LEMMA ReceiveHallKeeps ==
    ASSUME Inv, NEW e \in Elevators, NEW d \in Elevators, NEW i \in DOMAIN network[d][e],
           ReceiveHall(e, d, i)
    PROVE  Inv'
<1> DEFINE m == network[d][e][i]
<1>1. Receive(e, d, i) /\ m.kind = "HALL"
  BY DEF ReceiveHall
<1>2. NetworkTyped /\ m.call \in Pressed /\ m.time \in 0..MaxTime
  BY <1>1, Received, MessageParts
<1>3. /\ UNCHANGED <<up, current_floor, waiting, saved>> /\ UNCHANGED peer
      /\ waiting' = waiting /\ elevator_states' = elevator_states /\ last_seen' = last_seen
  BY DEF ReceiveHall, peer
<1>4. \/ Insert(e, m.call, m.time)
      \/ UNCHANGED <<assigned_to, timestamp, call_buttons, current_direction, motor>>
  BY DEF ReceiveHall, map
<1> HIDE DEF m
<1>5. PeersTyped(e)
  BY <1>3, RestUnchanged
<1>6. CASE Insert(e, m.call, m.time)
  <2>1. /\ CarsTyped(e) /\ timestamp' \in [Elevators -> [Pressed -> 0..MaxTime]]
        /\ OwnersKnown(e)' /\ OwnQueued(e)' /\ Startable(e)'
    BY <1>2, <1>3, <1>6, InsertKeeps
  <2>2. RestTyped(e)
    BY <1>3, <2>1 DEF RestTyped, Inv, Typed, TypeOK
  <2> QED  BY <1>2, <1>5, <2>1, <2>2, StepKeeps
<1>7. CASE UNCHANGED <<assigned_to, timestamp, call_buttons, current_direction, motor>>
  <2>1. CarsTyped(e) /\ RestTyped(e)
    BY <1>3, <1>7, RestUnchanged
  <2>2. OwnersKnown(e)' /\ OwnQueued(e)' /\ Startable(e)'
    BY <1>3, <1>7 DEF Inv, OwnersKnown, OwnQueued, Startable, Owner
  <2> QED  BY <1>2, <1>5, <2>1, <2>2, StepKeeps
<1> QED  BY <1>4, <1>6, <1>7

LEMMA ReceiveCompletedKeeps ==
    ASSUME Inv, NEW e \in Elevators, NEW d \in Elevators, NEW i \in DOMAIN network[d][e],
           ReceiveCompleted(e, d, i)
    PROVE  Inv'
<1> DEFINE c    == network[d][e][i].call
           ours == assigned_to[e][c] = e /\ Contains(call_buttons[e], c)
<1>1. /\ Receive(e, d, i) /\ network[d][e][i].kind = "COMPLETED" /\ Forget(e, c)
      /\ call_buttons' = IF ours THEN [call_buttons EXCEPT ![e] = RemoveCall(@, c)]
                         ELSE call_buttons
      /\ saved' = [saved EXCEPT ![e] = @ \/ ours]
      /\ UNCHANGED <<up, current_floor, current_direction, motor, waiting>> /\ UNCHANGED peer
  BY DEF ReceiveCompleted, car
<1>2. NetworkTyped /\ c \in Pressed
  BY <1>1, Received, MessageParts
<1> HIDE DEF c
<1>3. /\ assigned_to \in [Elevators -> [Pressed -> Elevators \cup {Absent}]]
      /\ call_buttons \in [Elevators -> Seq(Pressed)] /\ call_buttons[e] \in Seq(Pressed)
      /\ timestamp \in [Elevators -> [Pressed -> 0..MaxTime]] /\ 0 \in 0..MaxTime
      /\ saved \in [Elevators -> BOOLEAN]
      /\ OwnersKnown(e) /\ OwnQueued(e) /\ Startable(e)
  BY GroupAssumption DEF Inv, Typed, TypeOK
<1>4. call_buttons[e] \in Seq(Calls) /\ c \in Calls
  BY <1>2, <1>3, PressedCalls
<1>5. RemoveCall(call_buttons[e], c) \in Seq(Pressed)
  <2>1. CASE find_call_button_index(call_buttons[e], c) = 0
    BY <1>3, <2>1 DEF RemoveCall, RemovePosition
  <2>2. CASE find_call_button_index(call_buttons[e], c) # 0
    <3>1. find_call_button_index(call_buttons[e], c) \in DOMAIN call_buttons[e]
      BY <1>4, <2>2, IndexFound
    <3> QED  BY <1>3, <2>2, <3>1, RemoveAtProperties DEF RemoveCall, RemovePosition
  <2> QED  BY <2>1, <2>2
<1>6. /\ assigned_to' = [assigned_to EXCEPT ![e][c] = Absent]
      /\ timestamp' = [timestamp EXCEPT ![e][c] = 0]
  BY <1>1 DEF Forget
<1>7. \/ call_buttons'[e] = RemoveCall(call_buttons[e], c)
      \/ call_buttons'[e] = call_buttons[e]
  BY <1>1, <1>3
<1>8. ours \in BOOLEAN
  OBVIOUS
<1>9. saved' \in [Elevators -> BOOLEAN]
  <2> HIDE DEF ours
  <2> QED  BY <1>1, <1>3, <1>8
<1>10. /\ call_buttons' \in [Elevators -> Seq(Pressed)]
       /\ \A f \in Elevators \ {e} : call_buttons'[f] = call_buttons[f]
  <2> HIDE DEF ours
  <2> QED  BY <1>1, <1>3, <1>5
<1> HIDE DEF ours
<1>11. CarsTyped(e) /\ RestTyped(e)
  BY <1>1, <1>2, <1>3, <1>6, <1>9, <1>10 DEF Inv, Typed, TypeOK, CarsTyped, RestTyped
<1>12. PeersTyped(e)
  BY <1>1, RestUnchanged
<1>13. assigned_to'[e] = [assigned_to[e] EXCEPT ![c] = Absent]
  BY <1>3, <1>6
<1>14. OwnersKnown(e)'
  BY <1>1, <1>2, <1>3, <1>13 DEF OwnersKnown, Owner, peer
<1>15. ASSUME NEW x \in Pressed, Owner(e, x)' = e
       PROVE  Contains(call_buttons[e], x)'
  <2>1. x # c /\ Owner(e, x) = e
    BY <1>2, <1>3, <1>13, <1>15, NotElevators DEF Owner
  <2>2. Contains(call_buttons[e], x) /\ x \in Calls
    BY <1>3, <2>1, PressedCalls DEF OwnQueued
  <2>3. Contains(RemoveCall(call_buttons[e], c), x)
    BY <1>4, <2>1, <2>2, RemoveCallKeeps
  <2> QED  BY <1>7, <2>2, <2>3
<1>16. Startable(e)'
  <2>1. call_buttons[e] = <<>> => RemoveCall(call_buttons[e], c) = <<>>
    <3>1. ASSUME call_buttons[e] = <<>> PROVE ~ Contains(call_buttons[e], c)
      BY <3>1 DEF Contains
    <3> QED  BY <1>4, <3>1, IndexFound DEF RemoveCall, RemovePosition
  <2> QED  BY <1>1, <1>3, <1>7, <2>1 DEF Startable
<1>17. OwnQueued(e)'
  BY <1>15 DEF OwnQueued
<1> QED  BY <1>2, <1>11, <1>12, <1>14, <1>16, <1>17, StepKeeps

(* A map of others' states, with one more.                                 *)
LEMMA PutTyped ==
    ASSUME Inv, NEW e \in Elevators, NEW d \in Elevators \ {e}, NEW s \in States, NEW f,
           f = Put(elevator_states[e], d, s)
    PROVE  /\ DOMAIN f = DOMAIN elevator_states[e] \cup {d}
           /\ \A x \in DOMAIN f : x \in Elevators \ {e} /\ f[x] \in States
           /\ Picture(e, f)
<1>1. /\ current_floor[e] \in Floors
      /\ \A x \in DOMAIN elevator_states[e] :
            x \in Elevators \ {e} /\ elevator_states[e][x] \in States
  BY DEF Inv, Typed, TypeOK
<1>2. DOMAIN f = DOMAIN elevator_states[e] \cup {d}
  BY DEF Put
<1>3. ASSUME NEW x \in DOMAIN f
      PROVE  x \in Elevators \ {e} /\ f[x] \in States
  BY <1>1 DEF Put
<1> QED  BY <1>1, <1>2, <1>3 DEF Picture

LEMMA ReceiveStateKeeps ==
    ASSUME Inv, NEW e \in Elevators, NEW d \in Elevators, NEW i \in DOMAIN network[d][e],
           ReceiveState(e, d, i)
    PROVE  Inv'
<1> DEFINE s == network[d][e][i].state
           S == {c \in Pressed : assigned_to[e][c] # Absent}
<1>1. /\ Receive(e, d, i) /\ network[d][e][i].kind = "STATE"
      /\ elevator_states' = [elevator_states EXCEPT ![e] = Put(@, d, s)]
      /\ last_seen' = [last_seen EXCEPT ![e] = @ \cup {d}]
      /\ AssignCalls(e, elevator_states'[e], assigned_to[e], S)
      /\ UNCHANGED <<up, current_floor, waiting, timestamp, saved>> /\ waiting' = waiting
  BY DEF ReceiveState
<1>2. NetworkTyped /\ s \in States /\ d \in Elevators \ {e}
  BY <1>1, Received, MessageParts
<1> HIDE DEF s
<1>3. /\ assigned_to[e] \in [Pressed -> Elevators \cup {Absent}]
      /\ elevator_states = [f \in Elevators |-> elevator_states[f]]
      /\ last_seen \in [Elevators -> SUBSET Elevators] /\ e \notin last_seen[e]
      /\ OwnersKnown(e) /\ OwnQueued(e) /\ Startable(e)
  BY DEF Inv, Typed, TypeOK
<1>4. /\ elevator_states'[e] = Put(elevator_states[e], d, s)
      /\ last_seen'[e] = last_seen[e] \cup {d}
  BY <1>1, <1>3
<1>5. /\ DOMAIN elevator_states'[e] = DOMAIN elevator_states[e] \cup {d}
      /\ \A x \in DOMAIN elevator_states'[e] :
            x \in Elevators \ {e} /\ elevator_states'[e][x] \in States
      /\ Picture(e, elevator_states'[e])
  BY <1>2, <1>4, PutTyped
<1>6. /\ assigned_to[e] \in [Pressed -> Owners]
      /\ \A c \in Pressed : assigned_to[e][c] # Unassigned
  BY <1>3, NotElevators DEF Owners
<1>7. S \in SUBSET Pressed
  OBVIOUS
<1>8. /\ CarsTyped(e) /\ \A c \in Pressed : assigned_to'[e][c] = assigned_to[e][c]
      /\ (\A c \in Pressed : assigned_to[e][c] = e => Contains(call_buttons[e], c))
            => OwnQueued(e)'
      /\ Startable(e)'
  <2> HIDE DEF S
  <2>1. PICK heard : heard = elevator_states'[e]
    OBVIOUS
  <2>2. PICK owner : owner = assigned_to[e]
    OBVIOUS
  <2>3. Picture(e, heard) /\ AssignCalls(e, heard, owner, S)
    BY <1>1, <1>5, <2>1, <2>2
  <2> QED  BY <1>1, <1>3, <1>6, <1>7, <2>2, <2>3, Assigns DEF Inv
<1>9. OwnQueued(e)'
  BY <1>3, <1>8 DEF OwnQueued, Owner
<1>10. OwnersKnown(e)'
  BY <1>3, <1>4, <1>5, <1>8 DEF OwnersKnown, Owner
<1>11. RestTyped(e)
  BY <1>1, RestUnchanged
<1>12. PeersTyped(e)
  BY <1>1, <1>2, <1>3, <1>5 DEF PeersTyped
<1> QED  BY <1>2, <1>8, <1>9, <1>10, <1>11, <1>12, StepKeeps

LEMMA HeartbeatKeeps ==
    ASSUME Inv, NEW e \in Elevators, Heartbeat(e)
    PROVE  Inv'
<1>1. PICK to \in SUBSET Others(e) : network' = Sent(e, to, ElevatorState(State(e)))
  BY DEF Heartbeat
<1>2. /\ UNCHANGED <<up, current_floor, waiting, timestamp, saved, assigned_to, call_buttons,
                     current_direction, motor>> /\ UNCHANGED peer
  BY DEF Heartbeat, car, map
<1>3. NetworkTyped
  <2>1. to \in SUBSET (Elevators \ {e}) /\ ElevatorState(State(e)) \in Messages
    BY StateTyped, MessageTypes, OthersAre DEF Inv
  <2> QED  BY <1>1, <2>1, SentTyped DEF NetworkTyped, Inv
<1>4. CarsTyped(e) /\ RestTyped(e) /\ PeersTyped(e)
  BY <1>2, RestUnchanged
<1>5. OwnersKnown(e)' /\ OwnQueued(e)' /\ Startable(e)'
  BY <1>2 DEF Inv, OwnersKnown, OwnQueued, Startable, Owner, peer
<1> QED  BY <1>3, <1>4, <1>5, StepKeeps

LEMMA TimeoutKeeps ==
    ASSUME Inv, NEW e \in Elevators, NEW d \in Elevators, Timeout(e, d)
    PROVE  Inv'
<1>1. /\ d \in DOMAIN elevator_states[e]
      /\ elevator_states' = [elevator_states EXCEPT ![e] = Restrict(@, DOMAIN @ \ {d})]
      /\ Reassign(e, d, elevator_states'[e])
      /\ UNCHANGED <<up, current_floor, waiting, timestamp, saved>>
      /\ UNCHANGED network /\ last_seen' = last_seen /\ waiting' = waiting
  BY DEF Timeout
<1>2. /\ elevator_states = [f \in Elevators |-> elevator_states[f]]
      /\ last_seen \in [Elevators -> SUBSET Elevators] /\ e \notin last_seen[e]
      /\ \A x \in DOMAIN elevator_states[e] :
            x \in Elevators \ {e} /\ elevator_states[e][x] \in States
      /\ current_floor[e] \in Floors
  BY DEF Inv, Typed, TypeOK
<1>3. elevator_states'[e] = Restrict(elevator_states[e], DOMAIN elevator_states[e] \ {d})
  BY <1>1, <1>2
<1>4. PICK heard : heard = elevator_states'[e]
  OBVIOUS
<1>5. /\ DOMAIN heard = DOMAIN elevator_states[e] \ {d}
      /\ \A x \in DOMAIN heard : x \in Elevators \ {e} /\ heard[x] \in States
  BY <1>2, <1>3, <1>4 DEF Restrict
<1>6. Picture(e, heard) /\ d \in Elevators \ {e}
  BY <1>1, <1>2, <1>5 DEF Picture
<1>7. CarsTyped(e) /\ OwnersKnown(e)' /\ OwnQueued(e)' /\ Startable(e)'
  BY <1>1, <1>4, <1>5, <1>6, ReassignKeeps
<1>8. RestTyped(e) /\ NetworkTyped
  BY <1>1, RestUnchanged
<1>9. PeersTyped(e)
  BY <1>1, <1>2, <1>4, <1>5 DEF PeersTyped
<1> QED  BY <1>7, <1>8, <1>9, StepKeeps

LEMMA ExpiryKeeps ==
    ASSUME Inv, NEW e \in Elevators, NEW d \in Elevators, Expiry(e, d)
    PROVE  Inv'
<1>1. /\ d \in last_seen[e] /\ last_seen' = [last_seen EXCEPT ![e] = @ \ {d}]
      /\ Reassign(e, d, elevator_states[e])
      /\ UNCHANGED <<up, current_floor, waiting, timestamp, saved>>
      /\ UNCHANGED network /\ elevator_states' = elevator_states /\ waiting' = waiting
  BY DEF Expiry
<1>2. /\ last_seen \in [Elevators -> SUBSET Elevators] /\ e \notin last_seen[e]
      /\ elevator_states = [f \in Elevators |-> elevator_states[f]]
      /\ \A x \in DOMAIN elevator_states[e] :
            x \in Elevators \ {e} /\ elevator_states[e][x] \in States
  BY DEF Inv, Typed, TypeOK
<1>3. Picture(e, elevator_states[e]) /\ d \in Elevators \ {e}
  BY <1>1, <1>2, PictureTyped DEF Inv
<1>4. last_seen'[e] = last_seen[e] \ {d}
  BY <1>1, <1>2
<1>5. CarsTyped(e) /\ OwnersKnown(e)' /\ OwnQueued(e)' /\ Startable(e)'
  BY <1>1, <1>3, <1>4, ReassignKeeps
<1>6. RestTyped(e) /\ NetworkTyped
  BY <1>1, RestUnchanged
<1>7. PeersTyped(e)
  BY <1>1, <1>2, <1>4 DEF PeersTyped
<1> QED  BY <1>5, <1>6, <1>7, StepKeeps

LEMMA LoseKeeps ==
    ASSUME Inv, NEW e \in Elevators, NEW d \in Elevators, NEW i \in DOMAIN network[d][e],
           Lose(e, d, i)
    PROVE  Inv'
<1>1. /\ network' = [network EXCEPT ![d][e] = RemoveAt(@, i)]
      /\ UNCHANGED <<up, current_floor, waiting, timestamp, saved, assigned_to, call_buttons,
                     current_direction, motor>> /\ UNCHANGED peer
  BY DEF Lose, car, map
<1>2. NetworkTyped
  BY <1>1, TakenTyped DEF NetworkTyped, Inv
<1>3. CarsTyped(e) /\ RestTyped(e) /\ PeersTyped(e)
  BY <1>1, RestUnchanged
<1>4. OwnersKnown(e)' /\ OwnQueued(e)' /\ Startable(e)'
  BY <1>1 DEF Inv, OwnersKnown, OwnQueued, Startable, Owner, peer
<1> QED  BY <1>2, <1>3, <1>4, StepKeeps

LEMMA CrashKeeps ==
    ASSUME Inv, NEW e \in Elevators, Crash(e)
    PROVE  Inv'
<1>1. /\ up' = [up EXCEPT ![e] = FALSE] /\ call_buttons' = [call_buttons EXCEPT ![e] = <<>>]
      /\ current_floor' = [current_floor EXCEPT ![e] = 0]
      /\ current_direction' = [current_direction EXCEPT ![e] = DIRN_STOP]
      /\ motor' = [motor EXCEPT ![e] = DIRN_STOP] /\ waiting' = [waiting EXCEPT ![e] = FALSE]
      /\ assigned_to' = [assigned_to EXCEPT ![e] = [c \in Pressed |-> Absent]]
      /\ timestamp' = [timestamp EXCEPT ![e] = [c \in Pressed |-> 0]]
      /\ elevator_states' = [elevator_states EXCEPT ![e] = <<>>]
      /\ last_seen' = [last_seen EXCEPT ![e] = {}]
      /\ network' = [d \in Elevators |-> [network[d] EXCEPT ![e] = <<>>]]
      /\ saved' = saved
  BY DEF Crash
<1>2. 0 \in Floors /\ 0 \in 0..MaxTime /\ DIRN_STOP \in Directions
  BY NumFloorsAssumption, GroupAssumption DEF Floors, Directions
<1>3. CarsTyped(e) /\ RestTyped(e)
  BY <1>1, <1>2 DEF Inv, Typed, TypeOK, CarsTyped, RestTyped
<1>4. /\ elevator_states = [d \in Elevators |-> elevator_states[d]]
      /\ last_seen \in [Elevators -> SUBSET Elevators]
      /\ network \in [Elevators -> [Elevators -> Seq(Messages)]]
      /\ \A d \in Elevators : network[d][d] = <<>>
      /\ assigned_to \in [Elevators -> [Pressed -> Elevators \cup {Absent}]]
      /\ call_buttons \in [Elevators -> Seq(Pressed)]
  BY DEF Inv, Typed, TypeOK
<1>5. elevator_states'[e] = <<>> /\ DOMAIN <<>> = {}
  BY <1>1, <1>4
<1>6. PeersTyped(e)
  BY <1>1, <1>4, <1>5 DEF PeersTyped
<1>7. NetworkTyped
  BY <1>1, <1>4 DEF NetworkTyped
<1>8. assigned_to'[e] = [c \in Pressed |-> Absent] /\ call_buttons'[e] = <<>>
  BY <1>1, <1>4
<1>9. OwnersKnown(e)' /\ OwnQueued(e)' /\ Startable(e)'
  BY <1>8, NotElevators DEF OwnersKnown, OwnQueued, Startable, Owner
<1> QED  BY <1>3, <1>6, <1>7, <1>9, StepKeeps

LEMMA RestartKeeps ==
    ASSUME Inv, NEW e \in Elevators, Restart(e)
    PROVE  Inv'
<1>1. /\ up' = [up EXCEPT ![e] = TRUE]
      /\ UNCHANGED <<current_floor, waiting, timestamp, saved, assigned_to, call_buttons,
                     current_direction, motor, network>> /\ UNCHANGED peer
  BY DEF Restart, car, map
<1>2. RestTyped(e)
  BY <1>1 DEF Inv, Typed, TypeOK, RestTyped
<1>3. CarsTyped(e) /\ NetworkTyped /\ PeersTyped(e)
  BY <1>1, RestUnchanged
<1>4. OwnersKnown(e)' /\ OwnQueued(e)' /\ Startable(e)'
  BY <1>1 DEF Inv, OwnersKnown, OwnQueued, Startable, Owner, peer
<1> QED  BY <1>2, <1>3, <1>4, StepKeeps

LEMMA NextKeeps ==
    ASSUME Inv, Next
    PROVE  Inv'
<1>1. ASSUME NEW e \in Elevators,
             \/ \E c \in Pressed, ts \in 0..MaxTime : Press(e, c, ts)
             \/ Pass(e) \/ Serve(e) \/ DepartIdle(e) \/ DepartToward(e) \/ DepartServing(e)
             \/ Heartbeat(e) \/ Crash(e) \/ Restart(e)
             \/ \E d \in Elevators : Timeout(e, d) \/ Expiry(e, d)
      PROVE  Inv'
  BY <1>1, PressKeeps, PassKeeps, ServeKeeps, DepartIdleKeeps, DepartTowardKeeps,
     DepartServingKeeps, HeartbeatKeeps, CrashKeeps, RestartKeeps, TimeoutKeeps, ExpiryKeeps
<1>2. ASSUME NEW e \in Elevators, NEW d \in Elevators, NEW i \in DOMAIN network[d][e],
             ReceiveHall(e, d, i) \/ ReceiveCompleted(e, d, i) \/ ReceiveState(e, d, i)
                \/ Lose(e, d, i)
      PROVE  Inv'
  BY <1>2, ReceiveHallKeeps, ReceiveCompletedKeeps, ReceiveStateKeeps, LoseKeeps
<1> QED  BY <1>1, <1>2 DEF Next

LEMMA StutterKeeps ==
    ASSUME Inv, UNCHANGED vars
    PROVE  Inv'
<1>1. /\ up' = up /\ call_buttons' = call_buttons /\ current_floor' = current_floor
      /\ current_direction' = current_direction /\ motor' = motor /\ waiting' = waiting
      /\ assigned_to' = assigned_to /\ timestamp' = timestamp /\ saved' = saved
      /\ elevator_states' = elevator_states /\ last_seen' = last_seen /\ network' = network
  BY DEF vars, car, map, peer
<1> QED  BY <1>1 DEF Inv, Typed, TypeOK, OwnersKnown, OwnQueued, Startable, Owner

LEMMA Invariance == Spec => []Inv
<1>1. Init => Inv
  BY InitInv
<1>2. Inv /\ [Next]_vars => Inv'
  BY NextKeeps, StutterKeeps
<1> QED  BY <1>1, <1>2, PTL DEF Spec

-----------------------------------------------------------------------------
(* The theorems.                                                           *)

(* No elevator's state, and no message, ever has a form the code does not  *)
(* give it: no call is left without an owner after a handler, and every    *)
(* owner is an elevator (system.rs:230-318).                               *)
THEOREM TypeCorrect == Spec => []TypeOK
<1>1. Inv => TypeOK
  BY DEF Inv, Typed
<1> QED  BY <1>1, Invariance, PTL

(* When all has settled, every known call has an owner that is up: owners  *)
(* are heard of or expected to be, so that a timeout takes their calls     *)
(* away (system.rs:367-425, fault_handler.rs:102-150).                     *)
LEMMA SettledOwners ==
    ASSUME Inv, Quiet, NEW e \in Elevators, NEW c \in Pressed, up[e], Owner(e, c) # Absent
    PROVE  up[Owner(e, c)] /\ Owner(e, c) \in Elevators
<1>1. /\ elevator_states[e] = [d \in Others(e) |-> State(d)] /\ last_seen[e] = Others(e)
  BY DEF Quiet
<1>2. Owner(e, c) \in {Absent, e} \cup Others(e)
  BY <1>1 DEF Inv, OwnersKnown
<1> QED  BY <1>2 DEF Others

THEOREM DeadOwnersAreReplaced == Spec => []TakenOver
<1>1. Inv => TakenOver
  BY SettledOwners DEF TakenOver
<1> QED  BY <1>1, Invariance, PTL

(* When all has settled, a call that is known and not served is left to an *)
(* elevator that does not have it, or queued at a car that the next call   *)
(* assigned to it starts: no elevator forgets to queue what it owns, and   *)
(* no car with calls stands with a direction it does not drive in          *)
(* (control.rs:20, system.rs:299-312).                                     *)
THEOREM LostOnlyInTwoWays == Spec => []LostInTwoWays
<1>1. ASSUME Inv, Quiet, NEW e \in Elevators, NEW c \in Pressed, up[e], Owner(e, c) # Absent
      PROVE  Disowned(e, c) \/ Stranded(e, c)
  <2> DEFINE o == Owner(e, c)
  <2>1. up[o] /\ o \in Elevators
    BY <1>1, SettledOwners
  <2>2. ~ waiting[o] /\ OwnQueued(o) /\ Startable(o)
    BY <1>1, <2>1 DEF Quiet, Inv
  <2>3. CASE ~ Contains(call_buttons[o], c)
    <3>1. o # e
      BY <1>1, <2>3 DEF Inv, OwnQueued
    <3> QED  BY <2>3, <3>1 DEF Disowned
  <2>4. CASE Contains(call_buttons[o], c)
    <3>1. call_buttons[o] # <<>>
      BY <2>4 DEF Contains
    <3>2. motor[o] = DIRN_STOP => current_direction[o] = DIRN_STOP
      BY <2>2, <3>1 DEF Startable
    <3> QED  BY <2>4, <3>2 DEF Stranded
  <2> QED  BY <2>3, <2>4
<1>2. Inv => LostInTwoWays
  BY <1>1 DEF LostInTwoWays
<1> QED  BY <1>2, Invariance, PTL
=============================================================================
