----------------------------- MODULE LockProofs -----------------------------
(***************************************************************************)
(* Proofs about Locks, for any number of threads with any of the roles.    *)
(* The argument is an order of the mutexes: a thread takes only mutexes    *)
(* that come after all it holds.  It is shown row by row, once for each    *)
(* function, wherever that is called.  In the same way every row is shown  *)
(* to go on at a row, with nothing held at the end of an operation.        *)
(***************************************************************************)
EXTENDS Locks, TLAPS

Rank == [elevator |-> 1, monitor |-> 1,
         hall_calls |-> 2, elevator_states |-> 2, peers |-> 2, active |-> 2,
         streams |-> 3, socket |-> 3]

Map == {"hall_calls", "elevator_states"}

(* A mutex m may be taken by a thread that holds those of held.            *)
After(m, held) == m \in Mutexes /\ held \subseteq Mutexes /\ held \cap Map = {}
                  /\ \A k \in held : Rank[k] < Rank[m]

(* The rows of R respect the order, the map is only ever released, and an  *)
(* operation that is at its end is over.                                   *)
Sound(R) == \A r \in R : /\ r.kind = "take" => After(r.mutex, r.at[4])
                         /\ r.at[4] \cap Map # {} => r.kind = "drop"
                         /\ r.at[2] # "end"

LEMMA SoundTake ==
    ASSUME NEW f, NEW n, NEW held, NEW m, NEW names, n # "end", After(m, held)
    PROVE  Sound(Take(f, n, held, m, names))
BY DEF Sound, Take, Row, After

LEMMA SoundDrop ==
    ASSUME NEW f, NEW n, NEW held, NEW m, NEW names, n # "end"
    PROVE  Sound(Drop(f, n, held, m, names))
BY DEF Sound, Drop, Row

LEMMA SoundSection ==
    ASSUME NEW f, NEW n, NEW held, NEW m, NEW names, n # "end", After(m, held)
    PROVE  Sound(Section(f, n, held, m, names))
BY DEF Sound, Section, Row, After

LEMMA SoundWait ==
    ASSUME NEW f, NEW n, NEW held, NEW names, n # "end", held \cap Map = {}
    PROVE  Sound(Wait(f, n, held, names))
BY DEF Sound, Wait, Row

LEMMA SoundHardware ==
    ASSUME NEW f, NEW n, NEW held, NEW names, n # "end", After("socket", held)
    PROVE  Sound(Hardware(f, n, held, names))
BY SoundSection DEF Hardware

LEMMA SoundConnect ==
    ASSUME NEW f, NEW n, NEW names, n # "end"
    PROVE  Sound(connect_to_peer(f, n, names))
BY DEF Sound, connect_to_peer, Row, After, Mutexes, Map, Rank

LEMMA SoundBroadcast ==
    ASSUME NEW f, NEW n, NEW names, n # "end"
    PROVE  /\ Sound(broadcast_message(f, n, {}, names))
           /\ Sound(broadcast_message(f, n, {"elevator"}, names))
BY DEF Sound, broadcast_message, Row, After, Mutexes, Map, Rank

LEMMA SoundAssign ==
    ASSUME NEW f, NEW n, NEW names, n # "end"
    PROVE  Sound(assign_hall_call(f, n, names))
BY DEF Sound, assign_hall_call, Row, After, Mutexes, Map, Rank

(* What the functions above are used with.                                 *)
LEMMA Afters ==
    /\ \A m \in Mutexes : After(m, {})
    /\ After("socket", {"elevator"}) /\ After("hall_calls", {"elevator"})
    /\ After("active", {"monitor"})
    /\ {"elevator"} \cap Map = {} /\ {} \cap Map = {}
BY DEF After, Mutexes, Map, Rank

LEMMA SoundUnion == ASSUME NEW R, NEW S, Sound(R), Sound(S) PROVE Sound(R \cup S)
BY DEF Sound

LEMMA SoundState ==
    ASSUME NEW f, NEW n, NEW sending, NEW sent, NEW names,
           n # "end", sending # "end", sent # "end"
    PROVE  Sound(broadcast_state(f, n, sending, sent, names))
BY Afters, SoundUnion, SoundTake, SoundDrop, SoundBroadcast DEF broadcast_state, Mutexes

LEMMA SoundEstablish ==
    ASSUME NEW f, NEW names
    PROVE  Sound(establish_bidirectional_connection(f, names))
BY Afters, SoundUnion, SoundTake, SoundDrop, SoundSection, SoundWait, SoundConnect
DEF establish_bidirectional_connection, add_peer, Mutexes

LEMMA SoundComplete ==
    ASSUME NEW f, NEW n, NEW sending, NEW names, n # "end", sending # "end"
    PROVE  Sound(complete_call(f, n, sending, names))
BY Afters, SoundUnion, SoundSection, SoundBroadcast DEF complete_call, Mutexes

LEMMA SoundCode == Sound(Code)
<1> USE Afters, SoundUnion, SoundTake, SoundDrop, SoundSection, SoundWait,
        SoundHardware, SoundConnect, SoundBroadcast, SoundAssign, SoundState,
        SoundEstablish, SoundComplete
    DEF add_peer, Mutexes
<1>1. Sound(start_listener)
  BY DEF start_listener
<1>2. Sound(handle_client)
  BY DEF handle_client
<1>3. Sound(start_up)
  BY DEF start_up
<1>4. Sound(cab_button)
  BY DEF cab_button
<1>5. Sound(process_hall_call)
  BY DEF process_hall_call
<1>6. Sound(floor_sensor) /\ Sound(serve_call) /\ Sound(serve_next)
  BY DEF floor_sensor, serve_call, serve_next
<1>7. Sound(stop_button)
  BY DEF stop_button
<1>8. Sound(obstruction)
  BY DEF obstruction
<1>9. Sound(handle_hall_call_message)
  BY DEF handle_hall_call_message
<1>10. Sound(handle_elevator_state_message)
  BY DEF handle_elevator_state_message
<1>11. Sound(handle_completed_call_message)
  BY DEF handle_completed_call_message
<1>12. Sound(timeout)
  BY DEF timeout
<1>13. Sound(health_monitoring)
  BY DEF health_monitoring
<1>14. Sound(start_reconnection_service)
  BY DEF start_reconnection_service
<1>15. Sound(greet)
  BY DEF greet
<1>16. Sound(poll)
  BY DEF poll
<1> QED  BY <1>1, <1>2, <1>3, <1>4, <1>5, <1>6, <1>7, <1>8, <1>9, <1>10, <1>11, <1>12, <1>13, <1>14, <1>15, <1>16 DEF Code, Sound

(* A thread that waits for a mutex holds only such that come before it.    *)
LEMMA WaitsUpward ==
    ASSUME NEW t, NEW m, Waits(t, m)
    PROVE  m \in Mutexes /\ \A k \in Held(t) : k \in Mutexes /\ Rank[k] < Rank[m]
<1>1. PICK r \in Rows(t) : r.kind = "take" /\ r.mutex = m
  BY DEF Waits
<1>2. r \in Code /\ r.at = pc[t]
  BY DEF Rows, RowsAt
<1> QED  BY <1>1, <1>2, SoundCode DEF Sound, After, Held

(* Whatever points the threads are at, no circle of waiting threads is     *)
(* closed: each holder waits for a mutex of a higher rank, and there are   *)
(* three ranks.                                                            *)
LEMMA NoCircle == NoCircularWait
<1> SUFFICES ASSUME NEW S \in (SUBSET Threads) \ {{}},
                    \A t \in S : \E u \in S : \E m \in Held(u) : Waits(t, m)
             PROVE  FALSE
  BY DEF NoCircularWait
<1>1. ASSUME NEW u \in S, NEW k \in Held(u)
      PROVE  \E v \in S : \E m \in Held(v) : m \in Mutexes /\ k \in Mutexes /\ Rank[k] < Rank[m]
  BY <1>1, WaitsUpward
<1>2. PICK u1 \in S : \E m \in Held(u1) : m \in Mutexes
  BY WaitsUpward
<1>3. PICK u2 \in S : \E m \in Held(u2) : m \in Mutexes /\ Rank[m] > 1
  BY <1>1, <1>2 DEF Mutexes, Rank
<1>4. PICK u3 \in S : \E m \in Held(u3) : m \in Mutexes /\ Rank[m] > 2
  BY <1>1, <1>3 DEF Mutexes, Rank
<1>5. PICK u4 \in S : \E m \in Held(u4) : m \in Mutexes /\ Rank[m] > 3
  BY <1>1, <1>4 DEF Mutexes, Rank
<1> QED  BY <1>5 DEF Mutexes, Rank

(* The threads of a process, however many connections and pollers it has,  *)
(* never wait for each other's mutexes in a circle.                        *)
THEOREM DeadlockFree == Spec => []NoCircularWait
<1>1. NoCircularWait
  BY NoCircle
<1> QED  BY <1>1, PTL

LEMMA MapReleased == MapIsNeverHeldUp
<1> SUFFICES ASSUME NEW t \in Threads, Held(t) \cap Map # {}, NEW r \in Rows(t)
             PROVE  r.kind = "drop"
  BY DEF MapIsNeverHeldUp, Map
<1>1. r \in Code /\ r.at = pc[t]
  BY DEF Rows, RowsAt
<1> QED  BY <1>1, SoundCode DEF Sound, Held

(* Whoever holds the hall-call map or the known states releases it next.   *)
THEOREM MapIsFree == Spec => []MapIsNeverHeldUp
<1>1. MapIsNeverHeldUp
  BY MapReleased
<1> QED  BY <1>1, PTL

-----------------------------------------------------------------------------
(* Every point at which the code goes on has rows, and holds what the row  *)
(* before it says.                                                         *)

At(f, n, held) == <<f, n, "call", held>>

(* A thread may stand at p.                                                *)
Known(p) == p \in DOMAIN RowsAt \/ (p[2] = "end" /\ p[4] = {})

InCode(R) == R \subseteq Code

(* The rows of R lead to known points, with the mutexes a thread should    *)
(* hold there.                                                             *)
Steps(R) ==
    \A r \in R : \A p \in r.next :
        /\ Known(p)
        /\ r.kind = "take" => p[4] = r.at[4] \cup {r.mutex}
        /\ r.kind # "take" => p[4] \subseteq r.at[4]

LEMMA EndKnown == \A f : Known(At(f, "end", {}))
BY DEF Known, At

LEMMA RowKnown ==
    ASSUME NEW R, InCode(R), NEW p, \E r \in R : r.at = p
    PROVE  Known(p)
BY DEF InCode, Known, RowsAt

LEMMA InCodeParts ==
    ASSUME NEW R, NEW S, InCode(R \cup S) PROVE InCode(R) /\ InCode(S)
BY DEF InCode

LEMMA StepsUnion == ASSUME NEW R, NEW S, Steps(R), Steps(S) PROVE Steps(R \cup S)
BY DEF Steps

(* Where a thread enters each function.                                    *)
LEMMA TakeKnown ==
    ASSUME NEW f, NEW n, NEW held, NEW m, NEW names, InCode(Take(f, n, held, m, names))
    PROVE  Known(At(f, n, held))
<1>1. \E r \in Take(f, n, held, m, names) : r.at = At(f, n, held)
  BY DEF Take, Row, At
<1> QED  BY <1>1, RowKnown

LEMMA DropKnown ==
    ASSUME NEW f, NEW n, NEW held, NEW m, NEW names, InCode(Drop(f, n, held, m, names))
    PROVE  Known(At(f, n, held))
<1>1. \E r \in Drop(f, n, held, m, names) : r.at = At(f, n, held)
  BY DEF Drop, Row, At
<1> QED  BY <1>1, RowKnown

LEMMA SectionKnown ==
    ASSUME NEW f, NEW n, NEW held, NEW m, NEW names, InCode(Section(f, n, held, m, names))
    PROVE  Known(At(f, n, held))
<1>1. \E r \in Section(f, n, held, m, names) : r.at = At(f, n, held)
  BY DEF Section, Row, At
<1> QED  BY <1>1, RowKnown

LEMMA WaitKnown ==
    ASSUME NEW f, NEW n, NEW held, NEW names, InCode(Wait(f, n, held, names))
    PROVE  Known(At(f, n, held))
<1>1. \E r \in Wait(f, n, held, names) : r.at = At(f, n, held)
  BY DEF Wait, Row, At
<1> QED  BY <1>1, RowKnown

LEMMA HardwareKnown ==
    ASSUME NEW f, NEW n, NEW held, NEW names, InCode(Hardware(f, n, held, names))
    PROVE  Known(At(f, n, held))
<1>1. \E r \in Hardware(f, n, held, names) : r.at = At(f, n, held)
  BY DEF Hardware, Section, Row, At
<1> QED  BY <1>1, RowKnown

LEMMA ConnectKnown ==
    ASSUME NEW f, NEW n, NEW names, InCode(connect_to_peer(f, n, names))
    PROVE  Known(At(f, n, {}))
<1>1. \E r \in connect_to_peer(f, n, names) : r.at = At(f, n, {})
  BY DEF connect_to_peer, Row, At
<1> QED  BY <1>1, RowKnown

LEMMA BroadcastKnown ==
    ASSUME NEW f, NEW n, NEW held, NEW names, InCode(broadcast_message(f, n, held, names))
    PROVE  Known(At(f, n, held))
<1>1. \E r \in broadcast_message(f, n, held, names) : r.at = At(f, n, held)
  BY DEF broadcast_message, Row, At
<1> QED  BY <1>1, RowKnown

LEMMA AssignKnown ==
    ASSUME NEW f, NEW n, NEW names, InCode(assign_hall_call(f, n, names))
    PROVE  Known(At(f, n, {}))
<1>1. \E r \in assign_hall_call(f, n, names) : r.at = At(f, n, {})
  BY DEF assign_hall_call, Row, At
<1> QED  BY <1>1, RowKnown

(* What leads to known points only: rows that lead to one another, and to  *)
(* known points.                                                           *)
LEMMA StepsWithin ==
    ASSUME NEW R, InCode(R),
           \A r \in R : \A p \in r.next :
               /\ Known(p) \/ \E s \in R : s.at = p
               /\ r.kind = "take" => p[4] = r.at[4] \cup {r.mutex}
               /\ r.kind # "take" => p[4] \subseteq r.at[4]
    PROVE  Steps(R)
BY RowKnown DEF Steps

(* The rows of each function, where the places after it are known.         *)
LEMMA StepsTake ==
    ASSUME NEW f, NEW n, NEW m, NEW names, \A x \in names : Known(At(f, x, {m}))
    PROVE  Steps(Take(f, n, {}, m, names))
BY DEF Steps, Take, Row, Into, At

LEMMA StepsDrop ==
    ASSUME NEW f, NEW n, NEW m, NEW names, \A x \in names : Known(At(f, x, {}))
    PROVE  Steps(Drop(f, n, {m}, m, names))
BY DEF Steps, Drop, Row, Into, At

LEMMA StepsWait ==
    ASSUME NEW f, NEW n, NEW held, NEW names, \A x \in names : Known(At(f, x, held))
    PROVE  Steps(Wait(f, n, held, names))
BY DEF Steps, Wait, Row, Into, At

LEMMA StepsSection ==
    ASSUME NEW f, NEW n, NEW held, NEW m, NEW names, InCode(Section(f, n, held, m, names)),
           \A x \in names : Known(At(f, x, held))
    PROVE  Steps(Section(f, n, held, m, names))
<1> SUFFICES ASSUME NEW r \in Section(f, n, held, m, names), NEW p \in r.next
             PROVE  /\ Known(p) \/ \E s \in Section(f, n, held, m, names) : s.at = p
                    /\ r.kind = "take" => p[4] = r.at[4] \cup {r.mutex}
                    /\ r.kind # "take" => p[4] \subseteq r.at[4]
  BY StepsWithin
<1>1. (\E x \in names : p = At(f, x, held)) \/ \E s \in Section(f, n, held, m, names) : s.at = p
  BY DEF Section, Row, Into, At
<1>2. /\ r.kind = "take" => p[4] = r.at[4] \cup {r.mutex}
      /\ r.kind # "take" => p[4] \subseteq r.at[4]
  BY DEF Section, Row, Into
<1> QED  BY <1>1, <1>2

LEMMA StepsHardware ==
    ASSUME NEW f, NEW n, NEW held, NEW names, InCode(Hardware(f, n, held, names)),
           \A x \in names : Known(At(f, x, held))
    PROVE  Steps(Hardware(f, n, held, names))
BY StepsSection, HardwareKnown DEF Hardware

LEMMA StepsConnect ==
    ASSUME NEW f, NEW n, NEW names, InCode(connect_to_peer(f, n, names)),
           \A x \in names : Known(At(f, x, {}))
    PROVE  Steps(connect_to_peer(f, n, names))
<1> SUFFICES ASSUME NEW r \in connect_to_peer(f, n, names), NEW p \in r.next
             PROVE  /\ Known(p) \/ \E s \in connect_to_peer(f, n, names) : s.at = p
                    /\ r.kind = "take" => p[4] = r.at[4] \cup {r.mutex}
                    /\ r.kind # "take" => p[4] \subseteq r.at[4]
  BY StepsWithin
<1>1. (\E x \in names : p = At(f, x, {})) \/ \E s \in connect_to_peer(f, n, names) : s.at = p
  BY DEF connect_to_peer, Row, Into, At
<1>2. /\ r.kind = "take" => p[4] = r.at[4] \cup {r.mutex}
      /\ r.kind # "take" => p[4] \subseteq r.at[4]
  BY DEF connect_to_peer, Row, Into
<1> QED  BY <1>1, <1>2

LEMMA StepsBroadcast ==
    ASSUME NEW f, NEW n, NEW held, NEW names, InCode(broadcast_message(f, n, held, names)),
           \A x \in names : Known(At(f, x, held))
    PROVE  Steps(broadcast_message(f, n, held, names))
<1> SUFFICES ASSUME NEW r \in broadcast_message(f, n, held, names), NEW p \in r.next
             PROVE  /\ Known(p) \/ \E s \in broadcast_message(f, n, held, names) : s.at = p
                    /\ r.kind = "take" => p[4] = r.at[4] \cup {r.mutex}
                    /\ r.kind # "take" => p[4] \subseteq r.at[4]
  BY StepsWithin
<1>1. (\E x \in names : p = At(f, x, held)) \/ \E s \in broadcast_message(f, n, held, names) : s.at = p
  BY DEF broadcast_message, Row, Into, At
<1>2. /\ r.kind = "take" => p[4] = r.at[4] \cup {r.mutex}
      /\ r.kind # "take" => p[4] \subseteq r.at[4]
  BY DEF broadcast_message, Row, Into
<1> QED  BY <1>1, <1>2

LEMMA StepsAssign ==
    ASSUME NEW f, NEW n, NEW names, InCode(assign_hall_call(f, n, names)),
           \A x \in names : Known(At(f, x, {}))
    PROVE  Steps(assign_hall_call(f, n, names))
<1> SUFFICES ASSUME NEW r \in assign_hall_call(f, n, names), NEW p \in r.next
             PROVE  /\ Known(p) \/ \E s \in assign_hall_call(f, n, names) : s.at = p
                    /\ r.kind = "take" => p[4] = r.at[4] \cup {r.mutex}
                    /\ r.kind # "take" => p[4] \subseteq r.at[4]
  BY StepsWithin
<1>1. (\E x \in names : p = At(f, x, {})) \/ \E s \in assign_hall_call(f, n, names) : s.at = p
  BY DEF assign_hall_call, Row, Into, At
<1>2. /\ r.kind = "take" => p[4] = r.at[4] \cup {r.mutex}
      /\ r.kind # "take" => p[4] \subseteq r.at[4]
  BY DEF assign_hall_call, Row, Into
<1> QED  BY <1>1, <1>2

LEMMA StateKnown ==
    ASSUME NEW f, NEW n, NEW sending, NEW sent, NEW names,
           InCode(broadcast_state(f, n, sending, sent, names))
    PROVE  Known(At(f, n, {}))
BY InCodeParts, TakeKnown DEF broadcast_state

LEMMA StepsState ==
    ASSUME NEW f, NEW n, NEW sending, NEW sent, NEW names,
           InCode(broadcast_state(f, n, sending, sent, names)),
           \A x \in names : Known(At(f, x, {}))
    PROVE  Steps(broadcast_state(f, n, sending, sent, names))
<1> DEFINE take == Take(f, n, {}, "elevator", {sending})
           send == broadcast_message(f, sending, {"elevator"}, {sent})
           drop == Drop(f, sent, {"elevator"}, "elevator", names)
<1>1. broadcast_state(f, n, sending, sent, names) = (take \cup send) \cup drop
  BY DEF broadcast_state
<1> HIDE DEF take, send, drop
<1>2. InCode(take) /\ InCode(send) /\ InCode(drop)
  BY <1>1, InCodeParts
<1> USE DEF take, send, drop
<1>3. Known(At(f, n, {})) /\ Known(At(f, sending, {"elevator"})) /\ Known(At(f, sent, {"elevator"}))
  BY <1>2, TakeKnown, BroadcastKnown, DropKnown
<1>4. Steps(take) /\ Steps(send) /\ Steps(drop)
  BY <1>2, <1>3, StepsTake, StepsBroadcast, StepsDrop
<1> HIDE DEF take, send, drop
<1> QED  BY <1>1, <1>3, <1>4, StepsUnion

LEMMA CompleteKnown ==
    ASSUME NEW f, NEW n, NEW sending, NEW names,
           InCode(complete_call(f, n, sending, names))
    PROVE  Known(At(f, n, {}))
BY InCodeParts, SectionKnown DEF complete_call

LEMMA StepsComplete ==
    ASSUME NEW f, NEW n, NEW sending, NEW names,
           InCode(complete_call(f, n, sending, names)),
           \A x \in names : Known(At(f, x, {}))
    PROVE  Steps(complete_call(f, n, sending, names))
<1>1. /\ InCode(Section(f, n, {}, "hall_calls", {sending}))
      /\ InCode(broadcast_message(f, sending, {}, names))
  BY InCodeParts DEF complete_call
<1>2. Known(At(f, n, {})) /\ Known(At(f, sending, {}))
  BY <1>1, SectionKnown, BroadcastKnown
<1>3. /\ Steps(Section(f, n, {}, "hall_calls", {sending}))
      /\ Steps(broadcast_message(f, sending, {}, names))
  BY <1>1, <1>2, StepsSection, StepsBroadcast
<1> QED  BY <1>2, <1>3, StepsUnion DEF complete_call

LEMMA EstablishKnown ==
    ASSUME NEW f, NEW names, InCode(establish_bidirectional_connection(f, names))
    PROVE  Known(At(f, "dial", {}))
<1> DEFINE dial == Wait(f, "dial", {}, {"list"} \cup names)
           list == add_peer(f, "list", {"connect"})
           link == connect_to_peer(f, "connect", {"state"})
           take == Take(f, "state", {}, "elevator", {"tell"})
           tell == Wait(f, "tell", {"elevator"}, {"told"})
           drop == Drop(f, "told", {"elevator"}, "elevator", names)
<1>1. establish_bidirectional_connection(f, names)
         = dial \cup list \cup link \cup take \cup tell \cup drop
  BY DEF establish_bidirectional_connection
<1> HIDE DEF dial, list, link, take, tell, drop
<1>2. InCode(dial)
  BY <1>1, InCodeParts
<1> QED  BY <1>2, WaitKnown DEF dial

LEMMA StepsEstablish ==
    ASSUME NEW f, NEW names, InCode(establish_bidirectional_connection(f, names)),
           \A x \in names : Known(At(f, x, {}))
    PROVE  Steps(establish_bidirectional_connection(f, names))
<1> DEFINE dial == Wait(f, "dial", {}, {"list"} \cup names)
           list == add_peer(f, "list", {"connect"})
           link == connect_to_peer(f, "connect", {"state"})
           take == Take(f, "state", {}, "elevator", {"tell"})
           tell == Wait(f, "tell", {"elevator"}, {"told"})
           drop == Drop(f, "told", {"elevator"}, "elevator", names)
<1>0. establish_bidirectional_connection(f, names)
         = dial \cup list \cup link \cup take \cup tell \cup drop
  BY DEF establish_bidirectional_connection
<1> HIDE DEF dial, list, link, take, tell, drop
<1>1. InCode(dial) /\ InCode(list) /\ InCode(link) /\ InCode(take) /\ InCode(tell) /\ InCode(drop)
  BY <1>0, InCodeParts
<1> USE DEF dial, list, link, take, tell, drop
<1>2. /\ Known(At(f, "dial", {})) /\ Known(At(f, "list", {}))
      /\ Known(At(f, "connect", {})) /\ Known(At(f, "state", {}))
      /\ Known(At(f, "tell", {"elevator"})) /\ Known(At(f, "told", {"elevator"}))
  BY <1>1, WaitKnown, SectionKnown, ConnectKnown, TakeKnown, DropKnown DEF add_peer
<1>3. /\ Steps(dial) /\ Steps(list) /\ Steps(link) /\ Steps(take) /\ Steps(tell) /\ Steps(drop)
  <2>1. Steps(dial) /\ Steps(tell)
    BY <1>2, StepsWait
  <2>2. Steps(list) /\ Steps(link)
    BY <1>1, <1>2, StepsSection, StepsConnect DEF add_peer
  <2>3. Steps(take) /\ Steps(drop)
    BY <1>2, StepsTake, StepsDrop
  <2> QED  BY <2>1, <2>2, <2>3
<1> HIDE DEF dial, list, link, take, tell, drop
<1> QED  BY <1>0, <1>2, <1>3, StepsUnion

-----------------------------------------------------------------------------
(* The operations.                                                         *)
LEMMA StepsListener ==
    ASSUME InCode(start_listener)
    PROVE  Steps(start_listener) /\ Known(At("accept", "start", {}))
<1> USE InCodeParts DEF start_listener
<1>1. /\ Known(At("accept", "start", {})) /\ Known(At("accept", "add", {}))
  BY SectionKnown, WaitKnown
<1>2. Steps(Section("accept", "add", {}, "streams", {"end"}))
  BY <1>1, EndKnown, StepsSection
<1>3. Steps(Wait("accept", "start", {}, {"add"}))
  BY <1>1, EndKnown, StepsWait
<1> QED  BY <1>1, <1>2, <1>3, StepsUnion

LEMMA StepsClient ==
    ASSUME InCode(handle_client)
    PROVE  Steps(handle_client) /\ Known(At("client", "start", {}))
<1> USE InCodeParts DEF handle_client
<1>1. /\ Known(At("client", "start", {})) /\ Known(At("client", "remove", {}))
  BY SectionKnown, WaitKnown
<1>2. Steps(Section("client", "remove", {}, "streams", {"end"}))
  BY <1>1, EndKnown, StepsSection
<1>3. Steps(Wait("client", "start", {}, {"end", "remove"}))
  BY <1>1, EndKnown, StepsWait
<1> QED  BY <1>1, <1>2, <1>3, StepsUnion

LEMMA StepsStartUp ==
    ASSUME InCode(start_up)
    PROVE  Steps(start_up) /\ Known(At("start_up", "start", {}))
<1> DEFINE f == "start_up"
<1> USE InCodeParts DEF start_up
<1>1. /\ Known(At(f, "start", {})) /\ Known(At(f, "register", {}))
      /\ Known(At(f, "active", {"monitor"})) /\ Known(At(f, "registered", {"monitor"}))
      /\ Known(At(f, "dial", {})) /\ Known(At(f, "home", {})) /\ Known(At(f, "floor", {}))
  BY TakeKnown, DropKnown, SectionKnown, WaitKnown, HardwareKnown, StateKnown, EstablishKnown
<1>2. Steps(Take(f, "register", {}, "monitor", {"active"}))
  BY <1>1, EndKnown, StepsTake
<1>3. Steps(Drop(f, "registered", {"monitor"}, "monitor", {"dial"}))
  BY <1>1, EndKnown, StepsDrop
<1>4. Steps(Section(f, "active", {"monitor"}, "active", {"registered"}))
  BY <1>1, EndKnown, StepsSection
<1>5. Steps(Wait(f, "floor", {}, {"home", "end"}))
  BY <1>1, EndKnown, StepsWait
<1>6. Steps(Hardware(f, "home", {}, {"floor"}))
  BY <1>1, EndKnown, StepsHardware
<1>7. Steps(broadcast_state(f, "start", "sending", "sent", {"register"}))
  BY <1>1, EndKnown, StepsState
<1>8. Steps(establish_bidirectional_connection(f, {"dial", "home"}))
  BY <1>1, EndKnown, StepsEstablish
<1> QED  BY <1>1, <1>2, <1>3, <1>4, <1>5, <1>6, <1>7, <1>8, StepsUnion

LEMMA StepsCab ==
    ASSUME InCode(cab_button)
    PROVE  Steps(cab_button) /\ Known(At("cab", "start", {}))
<1> USE InCodeParts DEF cab_button
<1>1. /\ Known(At("cab", "start", {})) /\ Known(At("cab", "lamp", {"elevator"}))
      /\ Known(At("cab", "done", {"elevator"}))
  BY TakeKnown, DropKnown, HardwareKnown
<1>2. Steps(Take("cab", "start", {}, "elevator", {"lamp"}))
  BY <1>1, EndKnown, StepsTake
<1>3. Steps(Drop("cab", "done", {"elevator"}, "elevator", {"end"}))
  BY <1>1, EndKnown, StepsDrop
<1>4. Steps(Hardware("cab", "lamp", {"elevator"}, {"done"}))
  BY <1>1, EndKnown, StepsHardware
<1> QED  BY <1>1, <1>2, <1>3, <1>4, StepsUnion

LEMMA StepsPress ==
    ASSUME InCode(process_hall_call)
    PROVE  Steps(process_hall_call) /\ Known(At("press", "start", {}))
<1> USE InCodeParts DEF process_hall_call
<1>1. /\ Known(At("press", "start", {})) /\ Known(At("press", "lamp", {"elevator"}))
      /\ Known(At("press", "lit", {"elevator"})) /\ Known(At("press", "insert", {}))
      /\ Known(At("press", "send", {})) /\ Known(At("press", "assign", {}))
  BY TakeKnown, DropKnown, SectionKnown, HardwareKnown, BroadcastKnown, AssignKnown
<1>2. Steps(Take("press", "start", {}, "elevator", {"lamp"}))
  BY <1>1, EndKnown, StepsTake
<1>3. Steps(Drop("press", "lit", {"elevator"}, "elevator", {"insert"}))
  BY <1>1, EndKnown, StepsDrop
<1>4. Steps(Section("press", "insert", {}, "hall_calls", {"send"}))
  BY <1>1, EndKnown, StepsSection
<1>5. Steps(Hardware("press", "lamp", {"elevator"}, {"lit"}))
  BY <1>1, EndKnown, StepsHardware
<1>6. Steps(broadcast_message("press", "send", {}, {"assign"}))
  BY <1>1, EndKnown, StepsBroadcast
<1>7. Steps(assign_hall_call("press", "assign", {"end"}))
  BY <1>1, EndKnown, StepsAssign
<1> QED  BY <1>1, <1>2, <1>3, <1>4, <1>5, <1>6, <1>7, StepsUnion

LEMMA StepsFloor ==
    ASSUME InCode(floor_sensor), InCode(serve_call), InCode(serve_next)
    PROVE  Steps(floor_sensor) /\ Steps(serve_call) /\ Steps(serve_next)
           /\ Known(At("floor", "start", {}))
<1> DEFINE f == "floor"  E == {"elevator"}
<1> USE InCodeParts DEF floor_sensor, serve_call, serve_next
<1>1. /\ Known(At(f, "start", {})) /\ Known(At(f, "indicator", E))
      /\ Known(At(f, "arrived", E)) /\ Known(At(f, "serve", {}))
      /\ Known(At(f, "stop", E)) /\ Known(At(f, "served", E))
      /\ Known(At(f, "complete", {})) /\ Known(At(f, "again", {}))
      /\ Known(At(f, "door", E)) /\ Known(At(f, "wait", E)) /\ Known(At(f, "sleep", {}))
      /\ Known(At(f, "glance", {})) /\ Known(At(f, "leave", E))
      /\ Known(At(f, "depart", {})) /\ Known(At(f, "next", E))
      /\ Known(At(f, "complete_next", {})) /\ Known(At(f, "regain", {}))
      /\ Known(At(f, "remove", E)) /\ Known(At(f, "pause", E)) /\ Known(At(f, "shut", E))
  BY TakeKnown, DropKnown, SectionKnown, WaitKnown, HardwareKnown, CompleteKnown
<1>2. /\ Steps(Take(f, "start", {}, "elevator", {"indicator"}))
      /\ Steps(Take(f, "serve", {}, "elevator", {"leave", "stop"}))
      /\ Steps(Take(f, "again", {}, "elevator", {"door"}))
  BY <1>1, EndKnown, StepsTake
<1>3. /\ Steps(Take(f, "depart", {}, "elevator", {"next", "remove", "pause", "shut"}))
      /\ Steps(Take(f, "regain", {}, "elevator", {"remove"}))
  BY <1>1, EndKnown, StepsTake
<1>4. /\ Steps(Drop(f, "arrived", E, "elevator", {"serve"}))
      /\ Steps(Drop(f, "served", E, "elevator", {"complete"}))
      /\ Steps(Drop(f, "wait", E, "elevator", {"sleep"}))
  BY <1>1, EndKnown, StepsDrop
<1>5. /\ Steps(Drop(f, "leave", E, "elevator", {"end"}))
      /\ Steps(Drop(f, "next", E, "elevator", {"complete_next"}))
  BY <1>1, EndKnown, StepsDrop
<1>6. Steps(Section(f, "glance", {}, "elevator", {"sleep", "depart", "end"}))
  BY <1>1, EndKnown, StepsSection
<1>7. /\ Steps(Wait(f, "sleep", {}, {"glance"})) /\ Steps(Wait(f, "pause", E, {"shut"}))
  BY <1>1, EndKnown, StepsWait
<1>8. /\ Steps(Hardware(f, "indicator", E, {"arrived"}))
      /\ Steps(Hardware(f, "stop", E, {"served", "door", "leave"}))
      /\ Steps(Hardware(f, "door", E, {"leave", "wait"}))
  BY <1>1, EndKnown, StepsHardware
<1>9. /\ Steps(Hardware(f, "remove", E, {"pause", "shut"}))
      /\ Steps(Hardware(f, "shut", E, {"leave"}))
  BY <1>1, EndKnown, StepsHardware
<1>10. /\ Steps(complete_call(f, "complete", "completing", {"again"}))
      /\ Steps(complete_call(f, "complete_next", "completing_next", {"regain"}))
  BY <1>1, EndKnown, StepsComplete
<1> QED  BY <1>1, <1>2, <1>3, <1>4, <1>5, <1>6, <1>7, <1>8, <1>9, <1>10, StepsUnion

LEMMA StepsStop ==
    ASSUME InCode(stop_button)
    PROVE  Steps(stop_button) /\ Known(At("stop", "start", {}))
<1> DEFINE f == "stop"  E == {"elevator"}
<1> USE InCodeParts DEF stop_button
<1>1. /\ Known(At(f, "start", {})) /\ Known(At(f, "halt", E))
      /\ Known(At(f, "collect", E)) /\ Known(At(f, "sensor", E))
      /\ Known(At(f, "open", E)) /\ Known(At(f, "close", E)) /\ Known(At(f, "release", E))
      /\ Known(At(f, "reassign", {})) /\ Known(At(f, "tell", {}))
  BY TakeKnown, DropKnown, SectionKnown, WaitKnown, HardwareKnown, StateKnown, AssignKnown
<1>2. Steps(Take(f, "start", {}, "elevator", {"halt"}))
  BY <1>1, EndKnown, StepsTake
<1>3. Steps(Drop(f, "release", E, "elevator", {"reassign", "tell"}))
  BY <1>1, EndKnown, StepsDrop
<1>4. Steps(Section(f, "collect", E, "hall_calls", {"sensor"}))
  BY <1>1, EndKnown, StepsSection
<1>5. Steps(Wait(f, "open", E, {"close"}))
  BY <1>1, EndKnown, StepsWait
<1>6. /\ Steps(Hardware(f, "halt", E, {"collect"}))
      /\ Steps(Hardware(f, "sensor", E, {"open", "release"}))
      /\ Steps(Hardware(f, "close", E, {"release"}))
  BY <1>1, EndKnown, StepsHardware
<1>7. Steps(broadcast_state(f, "tell", "telling", "told", {"end"}))
  BY <1>1, EndKnown, StepsState
<1>8. Steps(assign_hall_call(f, "reassign", {"reassign", "tell"}))
  BY <1>1, EndKnown, StepsAssign
<1> QED  BY <1>1, <1>2, <1>3, <1>4, <1>5, <1>6, <1>7, <1>8, StepsUnion

LEMMA StepsLever ==
    ASSUME InCode(obstruction)
    PROVE  Steps(obstruction) /\ Known(At("lever", "start", {}))
<1> DEFINE f == "lever"  E == {"elevator"}
<1> USE InCodeParts DEF obstruction
<1>1. /\ Known(At(f, "start", {})) /\ Known(At(f, "sensor", E))
      /\ Known(At(f, "release", E)) /\ Known(At(f, "find", {}))
      /\ Known(At(f, "mark", {})) /\ Known(At(f, "reassign", {}))
      /\ Known(At(f, "regain", {})) /\ Known(At(f, "leave", E))
  BY TakeKnown, DropKnown, SectionKnown, HardwareKnown, AssignKnown
<1>2. /\ Steps(Take(f, "start", {}, "elevator", {"sensor"}))
      /\ Steps(Take(f, "regain", {}, "elevator", {"leave"}))
  BY <1>1, EndKnown, StepsTake
<1>3. /\ Steps(Drop(f, "release", E, "elevator", {"find"}))
      /\ Steps(Drop(f, "leave", E, "elevator", {"end"}))
  BY <1>1, EndKnown, StepsDrop
<1>4. /\ Steps(Section(f, "find", {}, "hall_calls", {"mark", "regain"}))
      /\ Steps(Section(f, "mark", {}, "hall_calls", {"reassign"}))
  BY <1>1, EndKnown, StepsSection
<1>5. Steps(Hardware(f, "sensor", E, {"leave", "release"}))
  BY <1>1, EndKnown, StepsHardware
<1>6. Steps(assign_hall_call(f, "reassign", {"mark", "regain"}))
  BY <1>1, EndKnown, StepsAssign
<1> QED  BY <1>1, <1>2, <1>3, <1>4, <1>5, <1>6, StepsUnion

LEMMA StepsHallMessage ==
    ASSUME InCode(handle_hall_call_message)
    PROVE  Steps(handle_hall_call_message) /\ Known(At("hall_msg", "start", {}))
<1> DEFINE f == "hall_msg"  E == {"elevator"}
<1> USE InCodeParts DEF handle_hall_call_message, add_peer
<1>1. /\ Known(At(f, "start", {})) /\ Known(At(f, "light", {})) /\ Known(At(f, "lamp", E))
      /\ Known(At(f, "lit", E)) /\ Known(At(f, "update", {}))
      /\ Known(At(f, "assign", {}))
  BY TakeKnown, DropKnown, SectionKnown, HardwareKnown, AssignKnown
<1>2. Steps(Take(f, "light", {}, "elevator", {"lamp"}))
  BY <1>1, EndKnown, StepsTake
<1>3. Steps(Drop(f, "lit", E, "elevator", {"update"}))
  BY <1>1, EndKnown, StepsDrop
<1>4. /\ Steps(add_peer(f, "start", {"light"}))
      /\ Steps(Section(f, "update", {}, "hall_calls", {"assign", "end"}))
  BY <1>1, EndKnown, StepsSection
<1>5. Steps(Hardware(f, "lamp", E, {"lit"}))
  BY <1>1, EndKnown, StepsHardware
<1>6. Steps(assign_hall_call(f, "assign", {"end"}))
  BY <1>1, EndKnown, StepsAssign
<1> QED  BY <1>1, <1>2, <1>3, <1>4, <1>5, <1>6, StepsUnion

LEMMA StepsStateMessage ==
    ASSUME InCode(handle_elevator_state_message)
    PROVE  Steps(handle_elevator_state_message) /\ Known(At("state_msg", "start", {}))
<1> DEFINE f == "state_msg"
<1> USE InCodeParts DEF handle_elevator_state_message, add_peer
<1>1. /\ Known(At(f, "start", {})) /\ Known(At(f, "active", {"monitor"}))
      /\ Known(At(f, "recorded", {"monitor"})) /\ Known(At(f, "list", {}))
      /\ Known(At(f, "state", {})) /\ Known(At(f, "calls", {}))
      /\ Known(At(f, "assign", {}))
  BY TakeKnown, DropKnown, SectionKnown, AssignKnown
<1>2. Steps(Take(f, "start", {}, "monitor", {"active"}))
  BY <1>1, EndKnown, StepsTake
<1>3. Steps(Drop(f, "recorded", {"monitor"}, "monitor", {"list"}))
  BY <1>1, EndKnown, StepsDrop
<1>4. /\ Steps(Section(f, "active", {"monitor"}, "active", {"recorded"}))
      /\ Steps(add_peer(f, "list", {"state"}))
      /\ Steps(Section(f, "state", {}, "elevator_states", {"calls"}))
  BY <1>1, EndKnown, StepsSection
<1>5. Steps(Section(f, "calls", {}, "hall_calls", {"assign", "end"}))
  BY <1>1, EndKnown, StepsSection
<1>6. Steps(assign_hall_call(f, "assign", {"assign", "end"}))
  BY <1>1, EndKnown, StepsAssign
<1> QED  BY <1>1, <1>2, <1>3, <1>4, <1>5, <1>6, StepsUnion

LEMMA StepsCompletedMessage ==
    ASSUME InCode(handle_completed_call_message)
    PROVE  Steps(handle_completed_call_message) /\ Known(At("completed_msg", "start", {}))
<1> DEFINE f == "completed_msg"  E == {"elevator"}
<1> USE InCodeParts DEF handle_completed_call_message, add_peer
<1>1. /\ Known(At(f, "start", {})) /\ Known(At(f, "entry", {}))
      /\ Known(At(f, "light", {})) /\ Known(At(f, "lamp", E)) /\ Known(At(f, "dark", E))
      /\ Known(At(f, "queue", {}))
  BY TakeKnown, DropKnown, SectionKnown, HardwareKnown
<1>2. Steps(Take(f, "light", {}, "elevator", {"lamp"}))
  BY <1>1, EndKnown, StepsTake
<1>3. Steps(Drop(f, "dark", E, "elevator", {"queue", "end"}))
  BY <1>1, EndKnown, StepsDrop
<1>4. /\ Steps(add_peer(f, "start", {"entry"}))
      /\ Steps(Section(f, "entry", {}, "hall_calls", {"light"}))
      /\ Steps(Section(f, "queue", {}, "elevator", {"end"}))
  BY <1>1, EndKnown, StepsSection
<1>5. Steps(Hardware(f, "lamp", E, {"dark"}))
  BY <1>1, EndKnown, StepsHardware
<1> QED  BY <1>1, <1>2, <1>3, <1>4, <1>5, StepsUnion

LEMMA StepsTimeout ==
    ASSUME InCode(timeout)
    PROVE  Steps(timeout) /\ Known(At("timeout", "start", {}))
<1> DEFINE f == "timeout"
<1> USE InCodeParts DEF timeout
<1>1. /\ Known(At(f, "start", {})) /\ Known(At(f, "forget", {}))
      /\ Known(At(f, "find", {})) /\ Known(At(f, "mark", {}))
      /\ Known(At(f, "reassign", {})) /\ Known(At(f, "unassigned", {}))
      /\ Known(At(f, "sweep", {})) /\ Known(At(f, "tell", {}))
  BY SectionKnown, StateKnown, AssignKnown
<1>2. /\ Steps(Section(f, "start", {}, "elevator_states", {"forget", "unassigned"}))
      /\ Steps(Section(f, "forget", {}, "elevator_states", {"find"}))
      /\ Steps(Section(f, "find", {}, "hall_calls", {"mark"}))
  BY <1>1, EndKnown, StepsSection
<1>3. /\ Steps(Section(f, "mark", {}, "hall_calls", {"reassign", "unassigned"}))
      /\ Steps(Section(f, "unassigned", {}, "hall_calls", {"sweep", "tell"}))
  BY <1>1, EndKnown, StepsSection
<1>4. Steps(broadcast_state(f, "tell", "telling", "told", {"end"}))
  BY <1>1, EndKnown, StepsState
<1>5. /\ Steps(assign_hall_call(f, "reassign", {"reassign", "unassigned"}))
      /\ Steps(assign_hall_call(f, "sweep", {"sweep", "tell"}))
  BY <1>1, EndKnown, StepsAssign
<1> QED  BY <1>1, <1>2, <1>3, <1>4, <1>5, StepsUnion

LEMMA StepsExpiry ==
    ASSUME InCode(health_monitoring)
    PROVE  Steps(health_monitoring) /\ Known(At("expiry", "start", {}))
<1> DEFINE f == "expiry"
<1> USE InCodeParts DEF health_monitoring
<1>1. /\ Known(At(f, "start", {})) /\ Known(At(f, "active", {"monitor"}))
      /\ Known(At(f, "checked", {"monitor"})) /\ Known(At(f, "find", {}))
      /\ Known(At(f, "mark", {})) /\ Known(At(f, "reassign", {}))
  BY TakeKnown, DropKnown, SectionKnown, AssignKnown
<1>2. Steps(Take(f, "start", {}, "monitor", {"active", "checked"}))
  BY <1>1, EndKnown, StepsTake
<1>3. Steps(Drop(f, "checked", {"monitor"}, "monitor", {"find", "end"}))
  BY <1>1, EndKnown, StepsDrop
<1>4. /\ Steps(Section(f, "active", {"monitor"}, "active", {"active", "checked"}))
      /\ Steps(Section(f, "find", {}, "hall_calls", {"mark", "end"}))
      /\ Steps(Section(f, "mark", {}, "hall_calls", {"reassign"}))
  BY <1>1, EndKnown, StepsSection
<1>5. Steps(assign_hall_call(f, "reassign", {"mark", "end"}))
  BY <1>1, EndKnown, StepsAssign
<1> QED  BY <1>1, <1>2, <1>3, <1>4, <1>5, StepsUnion

LEMMA StepsReconnection ==
    ASSUME InCode(start_reconnection_service)
    PROVE  Steps(start_reconnection_service) /\ Known(At("reconnect", "start", {}))
<1> USE InCodeParts DEF start_reconnection_service
<1>1. /\ Known(At("reconnect", "start", {})) /\ Known(At("reconnect", "dial", {}))
  BY WaitKnown, EstablishKnown
<1>2. Steps(Wait("reconnect", "start", {}, {"dial"}))
  BY <1>1, EndKnown, StepsWait
<1>3. Steps(establish_bidirectional_connection("reconnect", {"dial", "end"}))
  BY <1>1, EndKnown, StepsEstablish
<1> QED  BY <1>1, <1>2, <1>3, StepsUnion

LEMMA StepsGreeting ==
    ASSUME InCode(greet)
    PROVE  Steps(greet) /\ Known(At("greet", "start", {}))
<1> DEFINE f == "greet"  E == {"elevator"}
<1> USE InCodeParts DEF greet, add_peer
<1>1. /\ Known(At(f, "start", {})) /\ Known(At(f, "list", {}))
      /\ Known(At(f, "connect", {})) /\ Known(At(f, "state", {}))
      /\ Known(At(f, "tell", E)) /\ Known(At(f, "told", E)) /\ Known(At(f, "sleep", {}))
  BY TakeKnown, DropKnown, SectionKnown, WaitKnown, ConnectKnown
<1>2. Steps(Take(f, "state", {}, "elevator", {"tell"}))
  BY <1>1, EndKnown, StepsTake
<1>3. Steps(Drop(f, "told", E, "elevator", {"sleep"}))
  BY <1>1, EndKnown, StepsDrop
<1>4. Steps(add_peer(f, "list", {"connect"}))
  BY <1>1, EndKnown, StepsSection
<1>5. /\ Steps(Wait(f, "connect", {}, {"state", "sleep"}))
      /\ Steps(Wait(f, "tell", E, {"told"})) /\ Steps(Wait(f, "sleep", {}, {"end"}))
  BY <1>1, EndKnown, StepsWait
<1>6. Steps(connect_to_peer(f, "start", {"list"}))
  BY <1>1, EndKnown, StepsConnect
<1> QED  BY <1>1, <1>2, <1>3, <1>4, <1>5, <1>6, StepsUnion

LEMMA StepsPoll ==
    ASSUME InCode(poll)
    PROVE  Steps(poll) /\ Known(At("poll", "start", {}))
<1> USE InCodeParts DEF poll
<1>1. /\ Known(At("poll", "start", {})) /\ Known(At("poll", "sleep", {}))
  BY WaitKnown, HardwareKnown
<1>2. Steps(Wait("poll", "sleep", {}, {"end"}))
  BY <1>1, EndKnown, StepsWait
<1>3. Steps(Hardware("poll", "start", {}, {"sleep"}))
  BY <1>1, EndKnown, StepsHardware
<1> QED  BY <1>1, <1>2, <1>3, StepsUnion
LEMMA StepsCode == Steps(Code)
<1> USE DEF Code, InCode
<1>1. /\ Steps(start_listener) /\ Steps(handle_client) /\ Steps(start_up)
      /\ Steps(cab_button) /\ Steps(process_hall_call)
  BY StepsListener, StepsClient, StepsStartUp, StepsCab, StepsPress
<1>2. /\ Steps(floor_sensor) /\ Steps(serve_call) /\ Steps(serve_next)
      /\ Steps(stop_button) /\ Steps(obstruction)
  BY StepsFloor, StepsStop, StepsLever
<1>3. /\ Steps(handle_hall_call_message) /\ Steps(handle_elevator_state_message)
      /\ Steps(handle_completed_call_message) /\ Steps(timeout)
  BY StepsHallMessage, StepsStateMessage, StepsCompletedMessage, StepsTimeout
<1>4. /\ Steps(health_monitoring) /\ Steps(start_reconnection_service)
      /\ Steps(greet) /\ Steps(poll)
  BY StepsExpiry, StepsReconnection, StepsGreeting, StepsPoll
<1> QED  BY <1>1, <1>2, <1>3, <1>4 DEF Steps

(* Every operation has a beginning.                                        *)
Starts == {"start_up", "cab", "press", "floor", "stop", "lever", "hall_msg", "state_msg",
           "completed_msg", "timeout", "expiry", "reconnect", "greet", "accept",
           "client", "poll"}

LEMMA StartsKnown == \A f \in Starts : Known(<<f, "start", "call", {}>>)
<1> USE DEF Code, InCode, At
<1>1. /\ Known(<<"accept", "start", "call", {}>>) /\ Known(<<"client", "start", "call", {}>>)
      /\ Known(<<"start_up", "start", "call", {}>>) /\ Known(<<"cab", "start", "call", {}>>)
      /\ Known(<<"press", "start", "call", {}>>)
  BY StepsListener, StepsClient, StepsStartUp, StepsCab, StepsPress
<1>2. /\ Known(<<"floor", "start", "call", {}>>) /\ Known(<<"stop", "start", "call", {}>>)
      /\ Known(<<"lever", "start", "call", {}>>)
  BY StepsFloor, StepsStop, StepsLever
<1>3. /\ Known(<<"hall_msg", "start", "call", {}>>) /\ Known(<<"state_msg", "start", "call", {}>>)
      /\ Known(<<"completed_msg", "start", "call", {}>>)
      /\ Known(<<"timeout", "start", "call", {}>>)
  BY StepsHallMessage, StepsStateMessage, StepsCompletedMessage, StepsTimeout
<1>4. /\ Known(<<"expiry", "start", "call", {}>>) /\ Known(<<"reconnect", "start", "call", {}>>)
      /\ Known(<<"greet", "start", "call", {}>>) /\ Known(<<"poll", "start", "call", {}>>)
  BY StepsExpiry, StepsReconnection, StepsGreeting, StepsPoll
<1> QED  BY <1>1, <1>2, <1>3, <1>4 DEF Starts

LEMMA RepertoireStarts == \A k \in Roles : Repertoire[k] \subseteq Starts
BY DEF Roles, Repertoire, Starts

(* A thread at a known point has ended its operation with nothing held, or *)
(* has a row to go on with.                                                *)
LEMMA KnownIsTyped ==
    ASSUME NEW p, Known(p)
    PROVE  IF p[2] = "end" THEN p[4] = {} ELSE p \in DOMAIN RowsAt
<1>1. ASSUME p \in DOMAIN RowsAt PROVE p[2] # "end"
  BY <1>1, SoundCode DEF RowsAt, Sound
<1> QED  BY <1>1 DEF Known

(* TypeOK, of a pc that is a function.                                     *)
Typed == TypeOK /\ pc = [t \in Threads |-> pc[t]]

(* One thread goes on to a known point, and holds what it held and at most *)
(* a mutex that was free.                                                  *)
LEMMA StepKeepsType ==
    ASSUME Typed, NEW t \in Threads, NEW p, Known(p), pc' = [pc EXCEPT ![t] = p],
           \A m \in p[4] \ Held(t) : \A u \in Threads : m \notin Held(u)
    PROVE  Typed'
<1>1. pc'[t] = p /\ \A u \in Threads \ {t} : pc'[u] = pc[u]
  BY DEF Typed
<1>2. pc' = [u \in Threads |-> pc'[u]]
  BY DEF Typed
<1>3. \A u \in Threads : IF AtEnd(u)' THEN Held(u)' = {} ELSE pc'[u] \in DOMAIN RowsAt
  BY <1>1, KnownIsTyped DEF Typed, TypeOK, AtEnd, Held
<1>4. ASSUME NEW u \in Threads, NEW v \in Threads, u # v, NEW m \in Held(u)' \cap Held(v)'
      PROVE  FALSE
  <2>1. CASE u = t
    BY <1>1, <1>4, <2>1 DEF Typed, TypeOK, Held
  <2>2. CASE v = t
    BY <1>1, <1>4, <2>2 DEF Typed, TypeOK, Held
  <2>3. CASE u # t /\ v # t
    BY <1>1, <1>4, <2>3 DEF Typed, TypeOK, Held
  <2> QED  BY <2>1, <2>2, <2>3
<1>5. \A u, v \in Threads : u # v => Held(u)' \cap Held(v)' = {}
  BY <1>4
<1> QED  BY <1>2, <1>3, <1>5 DEF Typed, TypeOK

LEMMA TypedInvariant == Spec => []Typed
<1>1. Init => Typed
  <2> SUFFICES ASSUME Init PROVE Typed
    OBVIOUS
  <2>1. ASSUME NEW t \in Threads
        PROVE  Known(pc[t]) /\ Held(t) = {}
    BY StartsKnown DEF Init, Known, Held, Starts
  <2>2. pc = [t \in Threads |-> pc[t]]
    BY DEF Init
  <2> QED  BY <2>1, <2>2, KnownIsTyped DEF Typed, TypeOK, AtEnd, Held
<1>2. Typed /\ [Next]_pc => Typed'
  <2> SUFFICES ASSUME Typed, [Next]_pc
               PROVE  Typed'
    OBVIOUS
  <2>1. ASSUME NEW t \in Threads, Begin(t)
        PROVE  Typed'
    <3>1. PICK f \in Repertoire[Role[t]] : pc' = [pc EXCEPT ![t] = <<f, "start", "call", {}>>]
      BY <2>1 DEF Begin
    <3>2. Role[t] \in Roles
      BY LocksAssumption
    <3>3. Known(<<f, "start", "call", {}>>)
      BY <3>1, <3>2, StartsKnown, RepertoireStarts
    <3> DEFINE p == <<f, "start", "call", {}>>
    <3>4. p[4] = {}
      OBVIOUS
    <3> HIDE DEF p
    <3> QED  BY <3>1, <3>3, <3>4, StepKeepsType DEF p
  <2>2. ASSUME NEW t \in Threads, NEW r \in Rows(t), NEW p \in r.next, pc' = [pc EXCEPT ![t] = p],
               r.kind = "take" => \A u \in Threads : r.mutex \notin Held(u)
        PROVE  Typed'
    <3>1. r \in Code /\ r.at = pc[t]
      BY DEF Rows, RowsAt
    <3>2. /\ Known(p)
          /\ r.kind = "take" => p[4] = Held(t) \cup {r.mutex}
          /\ r.kind # "take" => p[4] \subseteq Held(t)
      BY <3>1, StepsCode DEF Steps, Held
    <3>3. \A m \in p[4] \ Held(t) : \A u \in Threads : m \notin Held(u)
      BY <2>2, <3>2
    <3> QED  BY <2>2, <3>2, <3>3, StepKeepsType
  <2>3. ASSUME NEW t \in Threads, Acquire(t)
        PROVE  Typed'
    BY <2>2, <2>3 DEF Acquire, GoOn
  <2>4. ASSUME NEW t \in Threads, Release(t) \/ Pass(t)
        PROVE  Typed'
    BY <2>2, <2>4 DEF Release, Pass, GoOn
  <2>5. CASE UNCHANGED pc
    BY <2>5 DEF Typed, TypeOK, AtEnd, Held
  <2> QED  BY <2>1, <2>3, <2>4, <2>5 DEF Next
<1> QED  BY <1>1, <1>2, PTL DEF Spec

(* Every point at which a thread of the process may be has code to go on   *)
(* with, a thread ends an operation with nothing held, and no mutex ever   *)
(* has two holders, for any number of threads.                             *)
THEOREM TypeCorrect == Spec => []TypeOK
BY TypedInvariant, PTL DEF Typed
=============================================================================
