--------------------------- MODULE ControlLemmas ---------------------------
(***************************************************************************)
(* What the searches in the queue find, and what pushing and removing do   *)
(* to it.                                                                  *)
(***************************************************************************)
EXTENDS Control, SequenceTheorems, WellFoundedInduction, TLAPS

(* A search over positions returns a matching one, or 0 when there is none *)
(* (Iterator::position and find in control.rs).                            *)
LEMMA FirstFound ==
    ASSUME NEW S \in SUBSET Nat
    PROVE  /\ S # {} => First(S) \in S
           /\ S = {} => First(S) = 0
<1>1. CASE S = {}
  BY <1>1 DEF First
<1>2. CASE S # {}
  <2>1. \E x \in S : \A y \in S : ~ (<<y, x>> \in OpToRel(<, Nat))
    BY <1>2, NatLessThanWellFounded, WFMin
  <2>2. ASSUME NEW x \in Nat, NEW y \in Nat, y < x
        PROVE  <<y, x>> \in OpToRel(<, Nat)
    BY <2>2, Zenon DEF OpToRel
  <2> DEFINE R == OpToRel(<, Nat)
  <2> HIDE DEF R
  <2>3. \E x \in S : \A y \in S : ~ (y < x)
    BY <2>1, <2>2 DEF R
  <2>4. \E x \in S : \A y \in S : x =< y
    BY <2>3
  <2>5. Min(S) \in S
    BY <2>4 DEF Min
  <2> QED  BY <1>2, <2>5 DEF First
<1> QED  BY <1>1, <1>2

(* Vec::remove at a position of the queue: one call less, the others in    *)
(* their order.                                                            *)
LEMMA RemoveAtProperties ==
    ASSUME NEW T, NEW q \in Seq(T), NEW i \in DOMAIN q
    PROVE  /\ RemoveAt(q, i) \in Seq(T)
           /\ Len(RemoveAt(q, i)) = Len(q) - 1
           /\ \A j \in 1..(Len(q) - 1) :
                 RemoveAt(q, i)[j] = IF j < i THEN q[j] ELSE q[j + 1]
<1> DEFINE s1 == SubSeq(q, 1, i - 1)
           s2 == SubSeq(q, i + 1, Len(q))
<1>1. i \in 1..Len(q) /\ Len(q) \in Nat
  BY LenProperties
<1>2. \A j \in 1..Len(q) : q[j] \in T
  BY ElementOfSeq
<1>3. /\ s1 \in Seq(T) /\ Len(s1) = i - 1
      /\ \A j \in 1..(i - 1) : s1[j] = q[j]
  <2>1. \A j \in 1..(i - 1) : q[j] \in T
    BY <1>1, <1>2
  <2>2. 1 \in Int /\ i - 1 \in Int
    BY <1>1
  <2>3. /\ s1 \in Seq(T) /\ Len(s1) = (IF 1 <= i - 1 THEN i - 1 - 1 + 1 ELSE 0)
        /\ \A j \in 1..(i - 1 - 1 + 1) : s1[j] = q[1 + j - 1]
    BY <2>1, <2>2, SubSeqProperties
  <2> HIDE DEF s1
  <2> QED  BY <1>1, <2>3
<1>4. /\ s2 \in Seq(T) /\ Len(s2) = Len(q) - i
      /\ \A j \in 1..(Len(q) - i) : s2[j] = q[i + j]
  <2>1. \A j \in (i + 1)..Len(q) : q[j] \in T
    BY <1>1, <1>2
  <2>2. i + 1 \in Int /\ Len(q) \in Int
    BY <1>1
  <2>3. /\ s2 \in Seq(T)
        /\ Len(s2) = (IF i + 1 <= Len(q) THEN Len(q) - (i + 1) + 1 ELSE 0)
        /\ \A j \in 1..(Len(q) - (i + 1) + 1) : s2[j] = q[i + 1 + j - 1]
    BY <2>1, <2>2, SubSeqProperties
  <2> HIDE DEF s2
  <2> QED  BY <1>1, <2>3
<1>5. RemoveAt(q, i) = s1 \o s2
  BY DEF RemoveAt
<1> HIDE DEF s1, s2
<1>6. /\ s1 \o s2 \in Seq(T) /\ Len(s1 \o s2) = Len(s1) + Len(s2)
      /\ \A j \in 1..(Len(s1) + Len(s2)) :
            (s1 \o s2)[j] = IF j <= Len(s1) THEN s1[j] ELSE s2[j - Len(s1)]
  BY <1>3, <1>4, ConcatProperties
<1>7. Len(s1) + Len(s2) = Len(q) - 1
  BY <1>1, <1>3, <1>4
<1>8. ASSUME NEW j \in 1..(Len(q) - 1)
      PROVE  RemoveAt(q, i)[j] = IF j < i THEN q[j] ELSE q[j + 1]
  <2>1. CASE j < i
    <3>1. j <= Len(s1) /\ j \in 1..(i - 1)
      BY <1>1, <1>3, <2>1
    <3> QED  BY <1>3, <1>5, <1>6, <1>7, <2>1, <3>1
  <2>2. CASE ~ (j < i)
    <3>1. ~ (j <= Len(s1)) /\ j - Len(s1) = j - i + 1
          /\ j - i + 1 \in 1..(Len(q) - i) /\ i + (j - i + 1) = j + 1
      BY <1>1, <1>3, <2>2
    <3>2. s2[j - i + 1] = q[j + 1]
      BY <1>4, <3>1
    <3> QED  BY <1>5, <1>6, <1>7, <2>2, <3>1, <3>2
  <2> QED  BY <2>1, <2>2
<1> QED  BY <1>5, <1>6, <1>7, <1>8

(* The queue r holds some of the calls of q, and none of them more often:  *)
(* what every removal leaves.                                              *)
Within(r, q) ==
    /\ r \in Seq(Calls)
    /\ \A c \in Calls : Contains(r, c) => Contains(q, c)
    /\ Distinct(q) => Distinct(r)

(* Removing by position (control.rs:103, :221) only takes calls away.      *)
LEMMA RemoveAtWithin ==
    ASSUME NEW q \in Seq(Calls), NEW i \in DOMAIN q
    PROVE  Within(RemoveAt(q, i), q)
<1> DEFINE r == RemoveAt(q, i)
           old(j) == IF j < i THEN j ELSE j + 1
<1>1. /\ Len(q) \in Nat /\ i \in 1..Len(q) /\ DOMAIN q = 1..Len(q)
      /\ r \in Seq(Calls) /\ Len(r) = Len(q) - 1 /\ DOMAIN r = 1..(Len(q) - 1)
      /\ \A j \in 1..(Len(q) - 1) : r[j] = IF j < i THEN q[j] ELSE q[j + 1]
  BY RemoveAtProperties, LenProperties
<1> HIDE DEF r
<1>2. \A j \in DOMAIN r : old(j) \in DOMAIN q /\ r[j] = q[old(j)]
  BY <1>1
<1>3. \A j, k \in DOMAIN r : old(j) = old(k) => j = k
  BY <1>1
<1> HIDE DEF old
<1>4. \A c \in Calls : Contains(r, c) => Contains(q, c)
  <2> SUFFICES ASSUME NEW c \in Calls, NEW j \in 1..Len(r), r[j] = c
               PROVE  Contains(q, c)
    BY DEF Contains
  <2>1. j \in DOMAIN r
    BY <1>1
  <2>2. old(j) \in 1..Len(q) /\ q[old(j)] = c
    BY <1>1, <1>2, <2>1
  <2> QED  BY <2>2 DEF Contains
<1>5. Distinct(q) => Distinct(r)
  BY <1>2, <1>3 DEF Distinct
<1> QED  BY <1>1, <1>4, <1>5 DEF Within, r

(* find_call_button_index finds the call exactly when the queue holds it.  *)
LEMMA IndexFound ==
    ASSUME NEW q \in Seq(Calls), NEW c \in Calls
    PROVE  /\ find_call_button_index(q, c) \in DOMAIN q \cup {0}
           /\ find_call_button_index(q, c) # 0 => q[find_call_button_index(q, c)] = c
           /\ find_call_button_index(q, c) = 0 <=> ~ Contains(q, c)
<1> DEFINE S == {i \in DOMAIN q : q[i] = c}
<1>1. DOMAIN q = 1..Len(q) /\ Len(q) \in Nat
  BY LenProperties
<1>2. S \in SUBSET Nat /\ 0 \notin S
  BY <1>1
<1>3. S = {} <=> ~ Contains(q, c)
  BY <1>1 DEF Contains
<1>4. (S # {} => First(S) \in S) /\ (S = {} => First(S) = 0)
  BY <1>2, FirstFound
<1>5. First(S) \in DOMAIN q \cup {0} /\ (First(S) # 0 => q[First(S)] = c)
      /\ (First(S) = 0 <=> ~ Contains(q, c))
  BY <1>2, <1>3, <1>4
<1> QED  BY <1>5 DEF find_call_button_index

(* Removing a call by value, present or not.                               *)
LEMMA RemoveCallWithin ==
    ASSUME NEW q \in Seq(Calls), NEW c \in Calls
    PROVE  Within(RemoveCall(q, c), q)
<1>1. CASE find_call_button_index(q, c) = 0
  <2>1. RemoveCall(q, c) = q
    BY <1>1 DEF RemoveCall, RemovePosition
  <2> QED  BY <2>1 DEF Within
<1>2. CASE find_call_button_index(q, c) # 0
  <2>1. find_call_button_index(q, c) \in DOMAIN q
    BY <1>2, IndexFound
  <2>2. RemoveCall(q, c) = RemoveAt(q, find_call_button_index(q, c))
    BY <1>2 DEF RemoveCall, RemovePosition
  <2> QED  BY <2>1, <2>2, RemoveAtWithin
<1> QED  BY <1>1, <1>2

(* Removing a call by value from a queue without doubles removes it.       *)
LEMMA RemoveCallRemoves ==
    ASSUME NEW q \in Seq(Calls), NEW c \in Calls, Distinct(q)
    PROVE  ~ Contains(RemoveCall(q, c), c)
<1> DEFINE i == find_call_button_index(q, c)
<1>1. CASE i = 0
  <2>1. RemoveCall(q, c) = q
    BY <1>1 DEF RemoveCall, RemovePosition
  <2> QED  BY <1>1, <2>1, IndexFound
<1>2. CASE i # 0
  <2>1. i \in DOMAIN q /\ q[i] = c
    BY <1>2, IndexFound
  <2>2. RemoveCall(q, c) = RemoveAt(q, i)
    BY <1>2 DEF RemoveCall, RemovePosition
  <2> HIDE DEF i
  <2>3. /\ Len(q) \in Nat /\ i \in 1..Len(q) /\ DOMAIN q = 1..Len(q)
        /\ Len(RemoveAt(q, i)) = Len(q) - 1
        /\ \A j \in 1..(Len(q) - 1) :
              RemoveAt(q, i)[j] = IF j < i THEN q[j] ELSE q[j + 1]
    BY <2>1, RemoveAtProperties, LenProperties
  <2>4. \A j \in 1..Len(q) : j # i => q[j] # c
    BY <2>1, <2>3 DEF Distinct
  <2>5. \A j \in 1..(Len(q) - 1) : RemoveAt(q, i)[j] # c
    <3> SUFFICES ASSUME NEW j \in 1..(Len(q) - 1) PROVE RemoveAt(q, i)[j] # c
      OBVIOUS
    <3>1. CASE j < i
      BY <2>3, <2>4, <3>1
    <3>2. CASE ~ (j < i)
      BY <2>3, <2>4, <3>2
    <3> QED  BY <3>1, <3>2
  <2> QED  BY <2>2, <2>3, <2>5 DEF Contains
<1> QED  BY <1>1, <1>2

(* Pushing a call that may be there already (main.rs:236, system.rs:484):  *)
(* the queue holds it, holds nothing else that is new, and has no doubles. *)
LEMMA EnqueueProperties ==
    ASSUME NEW q \in Seq(Calls), NEW c \in Calls
    PROVE  /\ Enqueue(q, c) \in Seq(Calls)
           /\ \A d \in Calls : Contains(Enqueue(q, c), d) <=> d = c \/ Contains(q, d)
           /\ Distinct(q) => Distinct(Enqueue(q, c))
<1>0. Len(q) \in Nat /\ DOMAIN q = 1..Len(q)
  BY LenProperties
<1>1. CASE Contains(q, c)
  BY <1>1 DEF Enqueue
<1>2. CASE ~ Contains(q, c)
  <2> DEFINE r == Append(q, c)
  <2>1. Enqueue(q, c) = r
    BY <1>2 DEF Enqueue
  <2>2. /\ r \in Seq(Calls) /\ Len(r) = Len(q) + 1
        /\ \A j \in 1..Len(q) : r[j] = q[j]
        /\ r[Len(q) + 1] = c
    BY AppendProperties
  <2>3. DOMAIN r = 1..(Len(q) + 1)
    BY <2>2, LenProperties
  <2> HIDE DEF r
  <2>4. \A d \in Calls : Contains(r, d) <=> d = c \/ Contains(q, d)
    BY <1>0, <2>2 DEF Contains
  <2>5. \A j \in 1..Len(q) : q[j] # c
    BY <1>2 DEF Contains
  <2>6. Distinct(q) => Distinct(r)
    BY <1>0, <2>2, <2>3, <2>5 DEF Distinct
  <2> QED  BY <2>1, <2>2, <2>4, <2>6
<1> QED  BY <1>1, <1>2

(* decide_next_call returns a call of the queue, and one whenever there is *)
(* one.                                                                    *)
LEMMA NextCallFound ==
    ASSUME NEW q \in Seq(Calls), NEW f, NEW d
    PROVE  /\ decide_next_call(q, f, d) \in DOMAIN q \cup {0}
           /\ decide_next_call(q, f, d) = 0 <=> q = <<>>
<1>1. DOMAIN q = 1..Len(q) /\ Len(q) \in Nat /\ (q # <<>> => 1 \in DOMAIN q)
  BY LenProperties, EmptySeq
<1>2. /\ CallsAhead(q, f, d) \in SUBSET (DOMAIN q) /\ CallsAt(q, f) \in SUBSET (DOMAIN q)
      /\ 0 \notin DOMAIN q /\ DOMAIN q \in SUBSET Nat
  BY <1>1 DEF CallsAhead, CallsAt
<1>3. q = <<>> => DOMAIN q = {}
  BY <1>1, EmptySeq
<1>4. /\ CallsAhead(q, f, d) # {} => First(CallsAhead(q, f, d)) \in DOMAIN q
      /\ CallsAt(q, f) # {} => First(CallsAt(q, f)) \in DOMAIN q
  BY <1>2, FirstFound
<1> QED  BY <1>1, <1>2, <1>3, <1>4 DEF decide_next_call

(* serve_call takes a call for the floor it was called with, or none.      *)
LEMMA ServingCallFound ==
    ASSUME NEW q \in Seq(Calls), NEW f, NEW g, NEW d
    PROVE  /\ serving_call(q, f, g, d) \in DOMAIN q \cup {0}
           /\ serving_call(q, f, g, d) # 0 => q[serving_call(q, f, g, d)].floor = g
<1>1. DOMAIN q \in SUBSET Nat /\ 0 \notin DOMAIN q
  BY LenProperties
<1>2. /\ AlongTheWay(q, g, d) \in SUBSET CallsAt(q, g)
      /\ TheOtherWay(q, f, g, d) \in SUBSET CallsAt(q, g)
      /\ CallsAt(q, g) \in SUBSET (DOMAIN q)
  BY DEF AlongTheWay, TheOtherWay, CallsAt
<1>3. \A S \in SUBSET CallsAt(q, g) :
        First(S) \in CallsAt(q, g) \cup {0}
  BY <1>1, <1>2, FirstFound
<1>4. serving_call(q, f, g, d) \in CallsAt(q, g) \cup {0}
  BY <1>2, <1>3 DEF serving_call
<1> QED  BY <1>1, <1>2, <1>4 DEF CallsAt

-----------------------------------------------------------------------------
(* What stays in the queue, and which way its calls lie.                   *)

(* Removing by position takes away the call there and no other.            *)
LEMMA RemoveAtKeeps ==
    ASSUME NEW q \in Seq(Calls), NEW i \in DOMAIN q, NEW d \in Calls, Contains(q, d)
    PROVE  d = q[i] \/ Contains(RemoveAt(q, i), d)
<1>1. /\ Len(q) \in Nat /\ i \in 1..Len(q)
      /\ Len(RemoveAt(q, i)) = Len(q) - 1
      /\ \A j \in 1..(Len(q) - 1) :
            RemoveAt(q, i)[j] = IF j < i THEN q[j] ELSE q[j + 1]
  BY RemoveAtProperties, LenProperties
<1>2. PICK k \in 1..Len(q) : q[k] = d
  BY DEF Contains
<1> DEFINE r == RemoveAt(q, i)
<1> HIDE DEF r
<1>3. CASE k < i
  <2>1. k \in 1..Len(r) /\ r[k] = d
    BY <1>1, <1>2, <1>3 DEF r
  <2> QED  BY <2>1 DEF Contains, r
<1>4. CASE k > i
  <2>1. k - 1 \in 1..Len(r) /\ r[k - 1] = d
    BY <1>1, <1>2, <1>4 DEF r
  <2> QED  BY <2>1 DEF Contains, r
<1> QED  BY <1>1, <1>2, <1>3, <1>4

(* From a queue without doubles the call at the position is gone.          *)
LEMMA RemoveAtRemoves ==
    ASSUME NEW q \in Seq(Calls), NEW i \in DOMAIN q, Distinct(q)
    PROVE  ~ Contains(RemoveAt(q, i), q[i])
<1>1. /\ Len(q) \in Nat /\ i \in 1..Len(q) /\ DOMAIN q = 1..Len(q)
      /\ Len(RemoveAt(q, i)) = Len(q) - 1
      /\ \A j \in 1..(Len(q) - 1) :
            RemoveAt(q, i)[j] = IF j < i THEN q[j] ELSE q[j + 1]
  BY RemoveAtProperties, LenProperties
<1>2. \A j \in 1..Len(q) : j # i => q[j] # q[i]
  BY <1>1 DEF Distinct
<1>3. ASSUME NEW j \in 1..(Len(q) - 1)
      PROVE  RemoveAt(q, i)[j] # q[i]
  <2>1. CASE j < i
    BY <1>1, <1>2, <2>1
  <2>2. CASE ~ (j < i)
    BY <1>1, <1>2, <2>2
  <2> QED  BY <2>1, <2>2
<1> QED  BY <1>1, <1>3 DEF Contains

(* Removing a call by value takes away no other call.                      *)
LEMMA RemoveCallKeeps ==
    ASSUME NEW q \in Seq(Calls), NEW c \in Calls, NEW d \in Calls, Contains(q, d)
    PROVE  d = c \/ Contains(RemoveCall(q, c), d)
BY IndexFound, RemoveAtKeeps DEF RemoveCall, RemovePosition

(* A queue of one call just pushed to is that call.                        *)
LEMMA EnqueueSingle ==
    ASSUME NEW q \in Seq(Calls), NEW c \in Calls, Len(Enqueue(q, c)) = 1,
           NEW d \in Calls, Contains(Enqueue(q, c), d)
    PROVE  d = c
<1>1. Contains(Enqueue(q, c), c)
  BY EnqueueProperties
<1> QED  BY <1>1 DEF Contains

(* is_more_request_in_dir looks for a call of the queue that lies ahead.   *)
LEMMA MoreRequests ==
    ASSUME NEW q \in Seq(Calls), NEW f, NEW d
    PROVE  is_more_request_in_dir(q, f, d)
             <=> \E c \in Calls : Contains(q, c) /\ IsAhead(c.floor, f, d)
BY LenProperties, ElementOfSeq DEF is_more_request_in_dir, CallsAhead, Contains

(* A floor lies ahead in the direction hall_call_start_dir gives for it,   *)
(* and in no other (control.rs:57-63).                                     *)
LEMMA StartDirection ==
    ASSUME NEW g \in Floors, NEW f \in Floors, NEW d \in Directions
    PROVE  IsAhead(g, f, d) <=> d # DIRN_STOP /\ hall_call_start_dir(g, f) = d
BY NumFloorsAssumption DEF Floors, Directions, IsAhead, hall_call_start_dir,
   DIRN_UP, DIRN_DOWN, DIRN_STOP

(* The opposite direction is a direction to drive in, and another one.     *)
LEMMA OppositeDirection ==
    ASSUME NEW d \in Directions
    PROVE  /\ opposite_dir(d) \in Directions \ {DIRN_STOP, d}
           /\ d # DIRN_STOP => \A e \in Directions : e \in {DIRN_STOP, d, opposite_dir(d)}
BY DEF Directions, opposite_dir, DIRN_UP, DIRN_DOWN, DIRN_STOP

(* decide_next_call prefers a call that lies ahead (control.rs:27-36).     *)
LEMMA NextCallAhead ==
    ASSUME NEW q \in Seq(Calls), NEW f, NEW d, is_more_request_in_dir(q, f, d)
    PROVE  /\ decide_next_call(q, f, d) \in DOMAIN q
           /\ IsAhead(q[decide_next_call(q, f, d)].floor, f, d)
<1>1. CallsAhead(q, f, d) \in SUBSET Nat
  BY LenProperties DEF CallsAhead
<1>2. First(CallsAhead(q, f, d)) \in CallsAhead(q, f, d)
  BY <1>1, FirstFound DEF is_more_request_in_dir
<1>3. decide_next_call(q, f, d) = First(CallsAhead(q, f, d))
  BY DEF decide_next_call, is_more_request_in_dir
<1> QED  BY <1>2, <1>3 DEF CallsAhead

(* serve_call leaves a call for the floor it is at only when the car goes  *)
(* on to another call in its direction (control.rs:74-98).                 *)
LEMMA PassedBy ==
    ASSUME NEW q \in Seq(Calls), NEW f, NEW d \in Directions \ {DIRN_STOP},
           serving_call(q, f, f, d) = 0, NEW c \in Calls, Contains(q, c), c.floor = f
    PROVE  is_more_request_in_dir(q, f, d)
<1>1. DOMAIN q = 1..Len(q) /\ Len(q) \in Nat
  BY LenProperties
<1>2. PICK i \in DOMAIN q : q[i] = c
  BY <1>1 DEF Contains
<1>3. /\ AlongTheWay(q, f, d) \in SUBSET Nat /\ 0 \notin AlongTheWay(q, f, d)
      /\ TheOtherWay(q, f, f, d) \in SUBSET Nat /\ 0 \notin TheOtherWay(q, f, f, d)
  BY <1>1 DEF AlongTheWay, TheOtherWay, CallsAt
<1>4. AlongTheWay(q, f, d) = {} /\ TheOtherWay(q, f, f, d) = {}
  BY <1>3, FirstFound DEF serving_call
<1>5. i \in CallsAt(q, f) /\ c.call \in CallTypes
  BY <1>2 DEF CallsAt, Calls
<1>6. c.call # CAB /\ decide_direction_by_call(c.call) # d
  BY <1>2, <1>4, <1>5 DEF AlongTheWay
<1>7. decide_direction_by_call(c.call) = opposite_dir(d)
  BY <1>5, <1>6 DEF decide_direction_by_call, opposite_dir, CallTypes, Directions,
     CAB, HALL_UP, HALL_DOWN, DIRN_UP, DIRN_DOWN, DIRN_STOP
<1> QED  BY <1>2, <1>4, <1>5, <1>7 DEF TheOtherWay
=============================================================================
