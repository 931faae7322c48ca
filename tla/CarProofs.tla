----------------------------- MODULE CarProofs -----------------------------
(***************************************************************************)
(* Theorems about the elevator of Car, for every number of floors, set of  *)
(* buttons and bound, with and without other elevators.  The second half   *)
(* is about an elevator that runs undisturbed.                             *)
(***************************************************************************)
EXTENDS Car, ControlLemmas

-----------------------------------------------------------------------------
(* The functions the arms share.                                           *)

(* A direction computed from two floors is one the motor knows.            *)
LEMMA DirectionType ==
    ASSUME NEW f, NEW g
    PROVE  /\ hall_call_start_dir(f, g) \in Directions
           /\ opposite_dir(f) \in Directions
BY Zenon DEF hall_call_start_dir, opposite_dir, Directions

(* start_elevator changes motor and direction together or not at all.      *)
LEMMA StartElevatorStep ==
    ASSUME NEW q, NEW f, start_elevator(q, f)
    PROVE  \/ UNCHANGED <<current_direction, motor>>
           \/ current_direction' \in Directions /\ motor' = current_direction'
BY DirectionType DEF start_elevator

(* What assign_hall_call does to the variables it may change.              *)
LEMMA AssignStep ==
    ASSUME TypeOK, NEW c \in HallCalls, NEW owner \in Owners,
           NEW best \in Owners, NEW lit \in SUBSET Calls,
           assign_hall_call(c, owner, best, lit)
    PROVE  /\ assigned_to' \in [HallCalls -> Owners]
           /\ lamps' \in SUBSET Calls
           /\ call_buttons' \in {call_buttons, Enqueue(call_buttons, c)}
           /\ \/ UNCHANGED <<current_direction, motor>>
              \/ current_direction' \in Directions /\ motor' = current_direction'
<1>1. c \in Calls
  BY DEF HallCalls
<1>2. assigned_to' \in [HallCalls -> Owners] /\ lamps' \in SUBSET Calls
  BY <1>1 DEF assign_hall_call, TypeOK
<1>3. \/ UNCHANGED <<call_buttons, current_direction, motor>>
      \/ call_buttons' = Enqueue(call_buttons, c) /\ start_elevator(call_buttons', c.floor)
  BY DEF assign_hall_call
<1> QED  BY <1>2, <1>3, StartElevatorStep

(* Close the door and drive off, or pause first (control.rs:235-248).      *)
LEMMA LeaveStep ==
    ASSUME TypeOK, NEW q, NEW chosen \in Directions, Leave(q, chosen)
    PROVE  /\ pc' \in {"reversing", "select"} /\ at' \in {at, 0}
           /\ door' \in BOOLEAN /\ new_dir' \in Directions
           /\ \/ UNCHANGED <<current_direction, motor>>
              \/ current_direction' \in Directions /\ motor' = current_direction'
<1> DEFINE m    == decide_next_call(q, current_floor, current_direction)
           dirn == IF m # 0 /\ chosen = DIRN_STOP
                   THEN hall_call_start_dir(q[m].floor, at) ELSE chosen
<1>1. dirn \in Directions
  BY DirectionType
<1> HIDE DEF dirn
<1>2. \/ /\ pc' = "reversing" /\ new_dir' = dirn
         /\ UNCHANGED <<at, door, current_direction, motor>>
      \/ Drive(dirn) /\ UNCHANGED new_dir
  BY DEF Leave, dirn
<1> QED  BY <1>1, <1>2 DEF Drive, TypeOK

(* What is written to the file has the type of the file.                   *)
LEMMA SavedType ==
    ASSUME NEW q \in Seq(Calls), NEW f \in Floors, NEW d \in Directions
    PROVE  Saved(q, f, d) \in [calls : Seq(Calls), floor : Floors, direction : Directions]
BY DEF Saved

(* Using up a bound.                                                       *)
LEMMA SpendType ==
    ASSUME TypeOK, NEW k \in Inputs, Spend(k)
    PROVE  used' \in [Inputs -> Nat]
BY DEF TypeOK, Spend

(* The floor poller sends floors (poll.rs:32-43).                          *)
LEMMA PollFloorType ==
    ASSUME TypeOK, NEW p, NEW prev, PollFloor(p, prev)
    PROVE  prev_floor' \in Floors \cup {NoFloor} /\ floor_ch' \in Seq(Floors)
<1>1. CASE UNCHANGED <<prev_floor, floor_ch>>
  BY <1>1 DEF TypeOK
<1>2. CASE \E f \in Floors : prev_floor' = f /\ floor_ch' = Append(floor_ch, f)
  BY <1>2, AppendProperties DEF TypeOK
<1> QED  BY <1>1, <1>2 DEF PollFloor

-----------------------------------------------------------------------------
(* Types.                                                                  *)

(* Values that occur in many actions have their types.                     *)
LEMMA Values ==
    /\ 0 \in Floors /\ NumFloors \in Nat /\ Floors \subseteq Nat
    /\ DIRN_STOP \in Directions /\ DIRN_UP \in Directions /\ DIRN_DOWN \in Directions
    /\ CAB \in CallTypes /\ "none" \in Owners
    /\ <<>> \in Seq(Calls) /\ <<>> \in Seq(Floors) /\ <<>> \in Seq(BOOLEAN)
    /\ <<TRUE>> \in Seq(BOOLEAN) /\ Mine \in SUBSET HallCalls
    /\ \A f \in Floors, t \in CallTypes : [floor |-> f, call |-> t] \in Calls
    /\ \A c \in Calls : c.floor \in Floors /\ c.call \in CallTypes
    /\ HallCalls \subseteq Calls /\ Buttons \subseteq Calls
    /\ Winners \subseteq Owners /\ "unassigned" \in Owners
<1>1. Buttons \subseteq Calls
  BY CarAssumption DEF Panel
<1> QED  BY <1>1, NumFloorsAssumption, EmptySeq
         DEF Floors, Directions, CallTypes, Mine, Calls, Owners, Winners, HallCalls

(* The initial state has the types of TypeOK (main.rs:45-51, :198).        *)
LEMMA InitType == Init => TypeOK
<1> SUFFICES ASSUME Init PROVE TypeOK
  OBVIOUS
<1>1. NumFloors \in 2..255 /\ 0 \in Floors /\ Shaft \subseteq (-1)..(2 * NumFloors - 1)
  BY NumFloorsAssumption DEF Floors, Shaft
<1>2. <<>> \in Seq(Calls) /\ <<>> \in Seq(Floors) /\ <<>> \in Seq(BOOLEAN)
  BY EmptySeq
<1>3. DIRN_STOP \in Directions /\ CAB \in CallTypes /\ "none" \in Owners /\ "start" \in PCs
  BY DEF Directions, CallTypes, Owners, PCs
<1>4. disk \in [calls : Seq(Calls), floor : Floors, direction : Directions]
  BY <1>1, <1>2, <1>3 DEF Init, Saved
<1>5. assigned_to \in [HallCalls -> Owners] /\ used \in [Inputs -> Nat]
  BY <1>3 DEF Init
<1> QED  BY <1>1, <1>2, <1>3, <1>4, <1>5 DEF Init, TypeOK

(* Every action keeps the types.                                           *)
LEMMA TypeStep == TypeOK /\ [Next]_vars => TypeOK'
<1> SUFFICES ASSUME TypeOK, [Next]_vars PROVE TypeOK'
  OBVIOUS
<1> USE Values DEF elevator, locals, hardware, channels, PCs
<1>1. CASE StartUp
  BY <1>1, PollFloorType DEF StartUp, TypeOK
<1>2. CASE Home
  BY <1>2 DEF Home, TypeOK
<1>3. CASE CabButton
  <2> DEFINE c == Head(call_ch)
             q == Enqueue(call_buttons, c)
  <2>1. c \in Calls /\ call_ch' \in Seq(Calls)
    BY <1>3, HeadTailProperties DEF CabButton, TypeOK
  <2>2. q \in Seq(Calls)
    BY <2>1, EnqueueProperties DEF TypeOK
  <2>3. disk' \in [calls : Seq(Calls), floor : Floors, direction : Directions]
    BY <1>3, <2>2, SavedType DEF CabButton, TypeOK
  <2>4. current_direction' \in Directions /\ motor' \in Directions
    BY <1>3, StartElevatorStep DEF CabButton, TypeOK
  <2>5. call_buttons' = q /\ lamps' = lamps \cup {c}
    BY <1>3 DEF CabButton
  <2> HIDE DEF c, q
  <2> QED  BY <1>3, <2>1, <2>2, <2>3, <2>4, <2>5 DEF CabButton, TypeOK
<1>4. CASE HallButton
  <2> DEFINE c == Head(call_ch)
  <2>1. c \in HallCalls /\ call_ch' \in Seq(Calls)
    BY <1>4, HeadTailProperties DEF HallButton, TypeOK, HallCalls
  <2>2. lamps \cup {c} \in SUBSET Calls
    BY <2>1 DEF TypeOK
  <2>3. PICK best \in Winners : assign_hall_call(c, "unassigned", best, lamps \cup {c})
    BY <1>4 DEF HallButton
  <2> HIDE DEF c
  <2>4. Enqueue(call_buttons, c) \in Seq(Calls)
    BY <2>1, EnqueueProperties DEF TypeOK
  <2> QED  BY <1>4, <2>1, <2>2, <2>3, <2>4, AssignStep DEF HallButton, TypeOK
<1>5. CASE FloorSensor
  BY <1>5 DEF FloorSensor, TypeOK
<1>6. CASE StopButton
  <2>1. /\ stop_ch > 0 /\ stop_ch' = stop_ch - 1
        /\ \/ door' = TRUE /\ pc' = "stop_door" /\ UNCHANGED disk
           \/ /\ disk' = Saved(<<>>, current_floor, DIRN_STOP)
              /\ pc' = "stop_reassign" /\ UNCHANGED door
    BY <1>6 DEF StopButton
  <2>2. stop_ch' \in Nat
    BY <2>1 DEF TypeOK
  <2>3. Saved(<<>>, current_floor, DIRN_STOP)
            \in [calls : Seq(Calls), floor : Floors, direction : Directions]
    BY SavedType DEF TypeOK
  <2>4. /\ pc' \in PCs /\ door' \in BOOLEAN
        /\ disk' \in [calls : Seq(Calls), floor : Floors, direction : Directions]
    BY <2>1, <2>3 DEF TypeOK
  <2> QED  BY <1>6, <2>2, <2>4 DEF StopButton, Halt, TypeOK
<1>7. CASE StopDoorCloses
  BY <1>7, SavedType DEF StopDoorCloses, TypeOK
<1>8. CASE StopReassign
  <2>1. CASE UNCHANGED <<call_buttons, current_direction, assigned_to, todo, motor, lamps>>
    BY <1>8, <2>1 DEF StopReassign, TypeOK
  <2>2. CASE \E c \in todo, best \in Winners, owner \in Owners :
                /\ todo' = todo \ {c} /\ UNCHANGED pc
                /\ assign_hall_call(c, owner, best, lamps)
    <3>1. PICK c \in todo, best \in Winners, owner \in Owners :
                /\ todo' = todo \ {c} /\ UNCHANGED pc
                /\ assign_hall_call(c, owner, best, lamps)
      BY <2>2
    <3>2. c \in HallCalls /\ lamps \in SUBSET Calls
      BY DEF TypeOK
    <3>3. Enqueue(call_buttons, c) \in Seq(Calls)
      BY <3>2, EnqueueProperties DEF TypeOK
    <3> QED  BY <1>8, <3>1, <3>2, <3>3, AssignStep DEF StopReassign, TypeOK
  <2>3. \A c \in todo : assigned_to[c] \in Owners
    BY DEF TypeOK
  <2> QED  BY <1>8, <2>1, <2>2, <2>3 DEF StopReassign
<1>9. CASE Obstruction
  BY <1>9, HeadTailProperties DEF Obstruction, TypeOK
<1>10. CASE ObstructionReassign
  <2>1. CASE UNCHANGED <<call_buttons, current_direction, assigned_to, todo, motor, lamps>>
    BY <1>10, <2>1 DEF ObstructionReassign, TypeOK
  <2>2. CASE \E c \in todo, best \in Winners :
                /\ todo' = todo \ {c} /\ UNCHANGED pc
                /\ assign_hall_call(c, "unassigned", best, lamps)
    <3>1. PICK c \in todo, best \in Winners :
                /\ todo' = todo \ {c} /\ UNCHANGED pc
                /\ assign_hall_call(c, "unassigned", best, lamps)
      BY <2>2
    <3>2. c \in HallCalls /\ lamps \in SUBSET Calls
      BY DEF TypeOK
    <3>3. Enqueue(call_buttons, c) \in Seq(Calls)
      BY <3>2, EnqueueProperties DEF TypeOK
    <3> QED  BY <1>10, <3>1, <3>2, <3>3, AssignStep DEF ObstructionReassign, TypeOK
  <2> QED  BY <1>10, <2>1, <2>2 DEF ObstructionReassign
<1>11. CASE ServeNothing
  BY <1>11 DEF ServeNothing, TypeOK
<1>12. CASE ServeCall
  <2> DEFINE i    == serving_call(call_buttons, current_floor, at, current_direction)
             c    == call_buttons[i]
             cab  == [floor |-> at, call |-> CAB]
             rest == RemoveAt(call_buttons, i)
  <2>1. i \in DOMAIN call_buttons /\ c \in Calls
    BY <1>12, ServingCallFound, ElementOfSeq, LenProperties DEF ServeCall, TypeOK
  <2>2. cab \in Calls /\ rest \in Seq(Calls)
    BY <2>1, RemoveAtWithin DEF TypeOK, Within
  <2>3. call_buttons' = RemoveCall(rest, cab) /\ call_buttons' \in Seq(Calls)
    BY <1>12, <2>2, RemoveCallWithin DEF ServeCall, Within
  <2>4. disk' \in [calls : Seq(Calls), floor : Floors, direction : Directions]
    BY <1>12, <2>3, SavedType DEF ServeCall, TypeOK
  <2>5. lamps' \in SUBSET Calls /\ motor' = DIRN_STOP
    BY <1>12 DEF ServeCall, TypeOK
  <2>6. pc' \in PCs /\ next_type' \in CallTypes /\ at' \in Floors /\ door' \in BOOLEAN
    BY <1>12, <2>1 DEF ServeCall, OpenDoor, TypeOK
  <2> QED  BY <1>12, <2>3, <2>4, <2>5, <2>6 DEF ServeCall, TypeOK
<1>13. CASE CompleteServed
  BY <1>13 DEF CompleteServed, TypeOK, complete_call, OpenDoor
<1>14. CASE DoorWait
  BY <1>14 DEF DoorWait, TypeOK
<1>15. CASE DepartIdle
  BY <1>15 DEF DepartIdle, TypeOK
<1>16. CASE DepartToward
  <2>1. PICK f, g : Leave(call_buttons, hall_call_start_dir(f, g))
    BY <1>16 DEF DepartToward
  <2> QED  BY <1>16, <2>1, DirectionType, LeaveStep DEF DepartToward, TypeOK
<1>17. CASE ImmediateCall
  <2> DEFINE n == decide_next_call(call_buttons, current_floor, current_direction)
  <2>1. n \in DOMAIN call_buttons /\ call_buttons[n] \in Calls
    BY <1>17, NextCallFound, ElementOfSeq, LenProperties DEF ImmediateCall, TypeOK
  <2>2. CASE call_buttons[n].call = CAB
    <3>1. call_buttons' = RemoveAt(call_buttons, n) /\ call_buttons' \in Seq(Calls)
      BY <1>17, <2>1, <2>2, RemoveAtWithin DEF ImmediateCall, TypeOK, Within
    <3>2. disk' \in [calls : Seq(Calls), floor : Floors, direction : Directions]
      BY <1>17, <2>2, <3>1, SavedType DEF ImmediateCall, TypeOK
    <3>3. Leave(call_buttons', DIRN_STOP) /\ lamps' \in SUBSET Calls
      BY <1>17, <2>2 DEF ImmediateCall, TypeOK
    <3> QED  BY <1>17, <2>2, <3>1, <3>2, <3>3, LeaveStep DEF ImmediateCall, TypeOK
  <2>3. CASE call_buttons[n].call # CAB
    <3>1. next_index' \in Nat
      BY <1>17, <2>1, <2>3, IndexFound, LenProperties DEF ImmediateCall, TypeOK
    <3> QED  BY <1>17, <2>1, <2>3, <3>1 DEF ImmediateCall, TypeOK
  <2> QED  BY <2>2, <2>3
<1>18. CASE CompleteNext
  BY <1>18 DEF CompleteNext, TypeOK, complete_call
<1>19. CASE RemoveNext
  <2>1. CASE next_index \in DOMAIN call_buttons
    <3>1. call_buttons' = RemoveAt(call_buttons, next_index) /\ call_buttons' \in Seq(Calls)
      BY <1>19, <2>1, RemoveAtWithin DEF RemoveNext, TypeOK, Within
    <3>2. Leave(call_buttons', DIRN_STOP) /\ lamps' \in SUBSET Calls
      BY <1>19, <2>1 DEF RemoveNext, TypeOK
    <3> QED  BY <1>19, <3>1, <3>2, LeaveStep DEF RemoveNext, TypeOK
  <2>2. CASE next_index \notin DOMAIN call_buttons
    BY <1>19, <2>2 DEF RemoveNext, TypeOK
  <2> QED  BY <2>1, <2>2
<1>20. CASE ReverseAfterPause
  BY <1>20 DEF ReverseAfterPause, TypeOK, Drive
<1>21. ASSUME NEW c \in Buttons \cap HallCalls, ReceiveHallCall(c)
       PROVE  TypeOK'
  <2>1. PICK best \in Winners, owner \in Owners :
              assign_hall_call(c, owner, best, lamps \cup {c})
    BY <1>21 DEF ReceiveHallCall, TypeOK
  <2>2. lamps \cup {c} \in SUBSET Calls /\ Enqueue(call_buttons, c) \in Seq(Calls)
    BY EnqueueProperties DEF TypeOK
  <2>3. used' \in [Inputs -> Nat]
    BY <1>21, SpendType DEF ReceiveHallCall, Background, Inputs
  <2> QED  BY <1>21, <2>1, <2>2, <2>3, AssignStep DEF ReceiveHallCall, Background, TypeOK
<1>22. ASSUME NEW c \in Buttons \cap HallCalls, ReceiveCompleted(c)
       PROVE  TypeOK'
  <2>1. RemoveCall(call_buttons, c) \in Seq(Calls)
    BY RemoveCallWithin DEF TypeOK, Within
  <2>2. call_buttons' \in Seq(Calls)
        /\ disk' \in [calls : Seq(Calls), floor : Floors, direction : Directions]
    BY <1>22, <2>1, SavedType DEF ReceiveCompleted, TypeOK
  <2>3. used' \in [Inputs -> Nat]
    BY <1>22, SpendType DEF ReceiveCompleted, Background, Inputs
  <2> QED  BY <1>22, <2>2, <2>3 DEF ReceiveCompleted, Background, TypeOK
<1>23. ASSUME NEW c \in Buttons \cap HallCalls, ReassignLost(c)
       PROVE  TypeOK'
  <2>1. PICK best \in Winners : assign_hall_call(c, "unassigned", best, lamps)
    BY <1>23 DEF ReassignLost
  <2>2. lamps \in SUBSET Calls /\ Enqueue(call_buttons, c) \in Seq(Calls)
    BY EnqueueProperties DEF TypeOK
  <2>3. used' \in [Inputs -> Nat]
    BY <1>23, SpendType DEF ReassignLost, Background, Inputs
  <2> QED  BY <1>23, <2>1, <2>2, <2>3, AssignStep DEF ReassignLost, Background, TypeOK
<1>24. ASSUME NEW c \in Buttons, PressCall(c)
       PROVE  TypeOK'
  BY <1>24, SpendType, AppendProperties DEF PressCall, Outside, Inputs, TypeOK
<1>25. CASE PressStop
  BY <1>25, SpendType DEF PressStop, Outside, Inputs, TypeOK
<1>26. CASE ToggleLever
  BY <1>26, SpendType, AppendProperties DEF ToggleLever, Outside, Inputs, TypeOK
<1>27. CASE MoveCar
  BY <1>27, PollFloorType, NumFloorsAssumption DEF MoveCar, Outside, Shaft, TypeOK
<1>28. CASE Crash
  BY <1>28, SpendType DEF Crash, Inputs, TypeOK
<1>29. CASE UNCHANGED vars
  BY <1>29 DEF vars, TypeOK
<1> QED  BY <1>1, <1>2, <1>3, <1>4, <1>5, <1>6, <1>7, <1>8, <1>9, <1>10, <1>11,
            <1>12, <1>13, <1>14, <1>15, <1>16, <1>17, <1>18, <1>19,
            <1>20, <1>21, <1>22, <1>23, <1>24, <1>25, <1>26, <1>27, <1>28, <1>29
         DEF Next, MainThread, SelectLoop, ServeSteps, OtherThreads, Environment

(* Every variable has its type in every reachable state.                   *)
THEOREM TypeCorrect == Spec => []TypeOK
BY InitType, TypeStep, PTL DEF Spec

-----------------------------------------------------------------------------
(* The queue and the file.                                                 *)

(* The ways a step may change queue and file: calls are taken away and the *)
(* file is left or rewritten with the queue; a hall call is pushed and the *)
(* file is left; a cabin call is pushed and the file rewritten; or a       *)
(* restarted process reads the file.                                       *)
QueueChange ==
    \/ /\ Within(call_buttons', call_buttons)
       /\ disk' = disk \/ disk'.calls = call_buttons'
    \/ /\ \E c \in HallCalls : call_buttons' = Enqueue(call_buttons, c)
       /\ disk' = disk
    \/ /\ \E c \in CabCalls : call_buttons' = Enqueue(call_buttons, c)
       /\ disk'.calls = call_buttons'
    \/ call_buttons' = disk.calls /\ disk' = disk

(* Every step changes queue and file in one of these ways.                 *)
LEMMA QueueStep == TypeOK /\ [Next]_vars => QueueChange
<1> SUFFICES ASSUME TypeOK, [Next]_vars PROVE QueueChange
  OBVIOUS
<1> USE DEF elevator
<1>1. Within(call_buttons, call_buttons) /\ Within(<<>>, call_buttons)
  BY EmptySeq DEF Within, TypeOK, Contains, Distinct
<1>2. ASSUME UNCHANGED call_buttons, disk' = disk \/ disk'.calls = call_buttons'
      PROVE  QueueChange
  BY <1>1, <1>2 DEF QueueChange
<1>3. ASSUME NEW c \in HallCalls, disk' = disk,
             call_buttons' \in {call_buttons, Enqueue(call_buttons, c)}
      PROVE  QueueChange
  BY <1>1, <1>3 DEF QueueChange
<1>4. CASE \/ StartUp \/ Home \/ FloorSensor \/ Obstruction \/ ServeNothing
           \/ DepartIdle \/ DepartToward \/ CompleteServed \/ DoorWait
           \/ CompleteNext \/ ReverseAfterPause \/ PressStop
           \/ ToggleLever \/ MoveCar \/ \E c \in Buttons : PressCall(c)
  <2>1. UNCHANGED <<call_buttons, disk>>
    BY <1>4 DEF StartUp, Home, FloorSensor, Obstruction, ServeNothing, DepartIdle,
       DepartToward, CompleteServed, DoorWait, CompleteNext,
       ReverseAfterPause, PressStop, ToggleLever, MoveCar, PressCall, Outside
  <2> QED  BY <1>2, <2>1
<1>5. CASE UNCHANGED vars
  BY <1>2, <1>5 DEF vars
<1>6. CASE StopDoorCloses
  BY <1>2, <1>6 DEF StopDoorCloses, Saved
<1>7. CASE CabButton
  <2>1. /\ Head(call_ch) \in CabCalls
        /\ call_buttons' = Enqueue(call_buttons, Head(call_ch))
    BY <1>7, HeadTailProperties DEF CabButton, TypeOK, CabCalls
  <2>2. CASE Contains(call_buttons, Head(call_ch))
    BY <1>2, <1>7, <2>1, <2>2 DEF CabButton, Enqueue
  <2>3. CASE ~ Contains(call_buttons, Head(call_ch))
    BY <1>7, <2>1, <2>3 DEF CabButton, Saved, QueueChange
  <2> QED  BY <2>2, <2>3
<1>8. CASE HallButton
  <2>1. Head(call_ch) \in HallCalls
    BY <1>8, HeadTailProperties DEF HallButton, TypeOK, HallCalls
  <2>2. /\ call_buttons' \in {call_buttons, Enqueue(call_buttons, Head(call_ch))}
        /\ disk' = disk
    BY <1>8 DEF HallButton, assign_hall_call
  <2> QED  BY <1>3, <2>1, <2>2
<1>9. CASE StopButton
  BY <1>1, <1>9 DEF StopButton, Halt, Saved, QueueChange
<1>10. CASE StopReassign \/ ObstructionReassign
  <2>1. todo \subseteq HallCalls
    BY DEF TypeOK
  <2> QED  BY <1>2, <1>3, <1>10, <2>1 DEF StopReassign, ObstructionReassign, assign_hall_call
<1>11. CASE ServeCall
  <2> DEFINE i    == serving_call(call_buttons, current_floor, at, current_direction)
             cab  == [floor |-> at, call |-> CAB]
             rest == RemoveAt(call_buttons, i)
  <2>1. i \in DOMAIN call_buttons /\ cab \in Calls
    BY <1>11, Values, ServingCallFound DEF ServeCall, TypeOK
  <2>2. Within(rest, call_buttons)
    BY <2>1, RemoveAtWithin DEF TypeOK
  <2>3. Within(RemoveCall(rest, cab), rest)
    BY <2>1, <2>2, RemoveCallWithin DEF Within
  <2>4. Within(RemoveCall(rest, cab), call_buttons)
    BY <2>2, <2>3 DEF Within
  <2>5. call_buttons' = RemoveCall(rest, cab) /\ (disk' = disk \/ disk'.calls = call_buttons')
    BY <1>11 DEF ServeCall, Saved
  <2> QED  BY <2>4, <2>5 DEF QueueChange
<1>12. CASE ImmediateCall
  <2> DEFINE n == decide_next_call(call_buttons, current_floor, current_direction)
  <2>1. n \in DOMAIN call_buttons
    BY <1>12, NextCallFound DEF ImmediateCall, TypeOK
  <2>2. \/ UNCHANGED <<call_buttons, disk>>
        \/ call_buttons' = RemoveAt(call_buttons, n) /\ disk'.calls = call_buttons'
    BY <1>12 DEF ImmediateCall, Saved
  <2> QED  BY <1>2, <2>1, <2>2, RemoveAtWithin DEF QueueChange, TypeOK
<1>13. CASE RemoveNext
  <2>1. CASE next_index \in DOMAIN call_buttons
    BY <1>13, <2>1, RemoveAtWithin DEF RemoveNext, QueueChange, TypeOK
  <2>2. CASE next_index \notin DOMAIN call_buttons
    BY <1>2, <1>13, <2>2 DEF RemoveNext
  <2> QED  BY <2>1, <2>2
<1>14. ASSUME NEW c \in Buttons \cap HallCalls, ReceiveHallCall(c) \/ ReassignLost(c)
       PROVE  QueueChange
  BY <1>3, <1>14 DEF ReceiveHallCall, ReassignLost, assign_hall_call
<1>15. ASSUME NEW c \in Buttons \cap HallCalls, ReceiveCompleted(c)
       PROVE  QueueChange
  <2>1. Within(RemoveCall(call_buttons, c), call_buttons)
    BY Values, RemoveCallWithin DEF TypeOK
  <2> QED  BY <1>2, <1>15, <2>1 DEF ReceiveCompleted, Saved, QueueChange
<1>16. CASE Crash
  BY <1>16 DEF Crash, QueueChange
<1> QED  BY <1>4, <1>5, <1>6, <1>7, <1>8, <1>9, <1>10, <1>11, <1>12, <1>13, <1>14,
            <1>15, <1>16
         DEF Next, MainThread, SelectLoop, ServeSteps, OtherThreads, Environment

(* No interleaving of main thread, listener, health monitor and restarts   *)
(* puts a call into the queue, or into the file, twice.                    *)
THEOREM NoDuplicates == Spec => []NoDuplicateCalls
<1>1. Init => NoDuplicateCalls
  BY EmptySeq DEF Init, NoDuplicateCalls, Distinct, Saved
<1>2. TypeOK /\ NoDuplicateCalls /\ [Next]_vars => NoDuplicateCalls'
  <2> SUFFICES ASSUME TypeOK, NoDuplicateCalls, QueueChange
               PROVE  NoDuplicateCalls'
    BY QueueStep
  <2>1. \A c \in Calls : Distinct(Enqueue(call_buttons, c))
    BY EnqueueProperties DEF NoDuplicateCalls, TypeOK
  <2> QED  BY <2>1 DEF QueueChange, Within, NoDuplicateCalls, HallCalls, CabCalls
<1> QED  BY <1>1, <1>2, TypeCorrect, PTL DEF Spec

(* Whatever is served, cancelled, reassigned or lost in a crash, a cabin   *)
(* call of the queue is in the file a restarted process reads.             *)
THEOREM CabCallsAreSaved == Spec => []CabCallsSurvive
<1>1. Init => CabCallsSurvive
  BY EmptySeq DEF Init, CabCallsSurvive, Saved
<1>2. TypeOK /\ CabCallsSurvive /\ [Next]_vars => CabCallsSurvive'
  <2> SUFFICES ASSUME TypeOK, CabCallsSurvive, QueueChange,
                      NEW c \in CabCalls, Contains(call_buttons', c)
               PROVE  Contains(disk'.calls, c)
    BY QueueStep DEF CabCallsSurvive
  <2>1. c \in Calls /\ c \notin HallCalls
    BY DEF CabCalls, HallCalls
  <2>2. \A d \in HallCalls : Contains(Enqueue(call_buttons, d), c) => Contains(call_buttons, c)
    BY <2>1, EnqueueProperties DEF TypeOK, HallCalls
  <2> QED  BY <2>1, <2>2 DEF QueueChange, Within, CabCallsSurvive
<1> QED  BY <1>1, <1>2, TypeCorrect, PTL DEF Spec

(* Once serve_call has taken a call, no cabin call for its floor is in the *)
(* queue until it returns: the branches for an immediate cabin call        *)
(* (control.rs:223-231) are dead code.                                     *)
THEOREM NoImmediateCabCall == Spec => []CabCallTaken
<1> DEFINE Served == {"completing", "door_wait", "depart", "completing_next", "removing_next"}
           Here == [floor |-> at, call |-> CAB]
<1>1. Init => CabCallTaken
  BY DEF Init, CabCallTaken
<1>2. TypeOK /\ NoDuplicateCalls /\ CabCallTaken /\ [Next]_vars => CabCallTaken'
  <2> SUFFICES ASSUME TypeOK, NoDuplicateCalls, CabCallTaken, [Next]_vars, pc' \in Served
               PROVE  ~ Contains(call_buttons', Here')
    BY DEF CabCallTaken
  <2>1. Here \in Calls /\ Here \notin HallCalls
    BY Values DEF TypeOK, Calls, HallCalls
  <2>2. ASSUME pc \in Served, at' = at,
               \/ Within(call_buttons', call_buttons)
               \/ \E c \in HallCalls : call_buttons' = Enqueue(call_buttons, c)
        PROVE  ~ Contains(call_buttons', Here')
    <3>1. ~ Contains(call_buttons, Here)
      BY <2>2 DEF CabCallTaken
    <3>2. \A c \in HallCalls : ~ Contains(Enqueue(call_buttons, c), Here)
      BY <2>1, <3>1, EnqueueProperties DEF TypeOK, HallCalls
    <3> QED  BY <2>1, <2>2, <3>1, <3>2 DEF Within
  <2>3. ASSUME pc \in Served, UNCHANGED <<call_buttons, at>>
        PROVE  ~ Contains(call_buttons', Here')
    BY <2>3 DEF CabCallTaken
  <2>4. CASE StartUp \/ Home \/ SelectLoop
    BY <2>4 DEF StartUp, Home, SelectLoop, CabButton, HallButton, FloorSensor,
       StopButton, StopDoorCloses, StopReassign, Obstruction, ObstructionReassign
  <2>5. CASE ServeCall
    <3> DEFINE i    == serving_call(call_buttons, current_floor, at, current_direction)
               rest == RemoveAt(call_buttons, i)
    <3>1. i \in DOMAIN call_buttons
      BY <2>5, ServingCallFound DEF ServeCall, TypeOK
    <3>2. rest \in Seq(Calls) /\ Distinct(rest)
      BY <3>1, RemoveAtWithin DEF TypeOK, NoDuplicateCalls, Within
    <3>3. call_buttons' = RemoveCall(rest, Here) /\ at' = at
      BY <2>5 DEF ServeCall, OpenDoor
    <3> QED  BY <2>1, <3>2, <3>3, RemoveCallRemoves
  <2>6. CASE ServeNothing \/ CompleteServed \/ DoorWait \/ DepartIdle \/ CompleteNext
    BY <2>3, <2>6 DEF ServeNothing, CompleteServed, OpenDoor, DoorWait, DepartIdle,
       CompleteNext, elevator, locals
  <2>7. CASE DepartToward \/ ImmediateCall \/ RemoveNext \/ ReverseAfterPause
    <3>1. ASSUME NEW q, NEW d, Leave(q, d) PROVE pc' \notin Served
      BY <3>1 DEF Leave, Drive
    <3>2. CASE ImmediateCall
      BY <2>3, <3>1, <3>2 DEF ImmediateCall
    <3>3. CASE DepartToward \/ RemoveNext \/ ReverseAfterPause
      BY <3>1, <3>3 DEF DepartToward, RemoveNext, ReverseAfterPause, Drive
    <3> QED  BY <2>7, <3>2, <3>3
  <2>8. CASE OtherThreads
    <3>1. pc \in Served /\ at' = at
      BY <2>8 DEF OtherThreads, ReceiveHallCall, ReceiveCompleted, ReassignLost,
         Background, locals
    <3>2. \A c \in HallCalls : Within(RemoveCall(call_buttons, c), call_buttons)
      BY RemoveCallWithin DEF TypeOK, HallCalls
    <3>3. Within(call_buttons, call_buttons)
      BY DEF Within, TypeOK
    <3> QED  BY <2>2, <2>8, <3>1, <3>2, <3>3 DEF OtherThreads, ReceiveHallCall,
             ReceiveCompleted, ReassignLost, assign_hall_call
  <2>9. CASE Environment
    BY <2>3, <2>9 DEF Environment, PressCall, PressStop, ToggleLever, MoveCar, Crash,
       Outside, elevator, locals
  <2>10. CASE UNCHANGED vars
    BY <2>3, <2>10 DEF vars, elevator, locals
  <2> QED  BY <2>4, <2>5, <2>6, <2>7, <2>8, <2>9, <2>10 DEF Next, MainThread, ServeSteps
<1> QED  BY <1>1, <1>2, TypeCorrect, NoDuplicates, PTL DEF Spec

-----------------------------------------------------------------------------
(* The door and the motor.                                                 *)

(* What the check inside the door wait looks for (control.rs:185-194).     *)
NothingSeen == pc = "door_wait" => ~ is_obstructed

(* The check inside the door wait never finds an obstruction, although the *)
(* lever may be raised (the run of LeverHalts): the thread that     *)
(* waits is the only one that sets the flag (main.rs:345), and             *)
(* control.rs:191-194 is never executed.                                   *)
THEOREM WaitSeesNothing == Spec => []NothingSeen
<1>1. Init => NothingSeen
  BY DEF Init, NothingSeen
<1>2. NothingSeen /\ [Next]_vars => NothingSeen'
  <2> SUFFICES ASSUME NothingSeen, [Next]_vars, pc' = "door_wait"
               PROVE  ~ is_obstructed'
    BY DEF NothingSeen
  <2> USE DEF elevator, NothingSeen
  <2>1. CASE StartUp \/ Home \/ SelectLoop
    BY <2>1 DEF StartUp, Home, SelectLoop, CabButton, HallButton, FloorSensor,
       StopButton, StopDoorCloses, StopReassign, Obstruction, ObstructionReassign
  <2>2. CASE ServeCall \/ CompleteServed
    BY <2>2 DEF ServeCall, CompleteServed, OpenDoor
  <2>3. CASE ServeNothing \/ DoorWait \/ DepartIdle \/ CompleteNext
    BY <2>3 DEF ServeNothing, DoorWait, DepartIdle, CompleteNext
  <2>4. CASE DepartToward \/ ImmediateCall \/ RemoveNext \/ ReverseAfterPause
    <3>1. ASSUME NEW q, NEW d, Leave(q, d) PROVE pc' # "door_wait"
      BY <3>1 DEF Leave, Drive
    <3> QED  BY <2>4, <3>1 DEF DepartToward, ImmediateCall, RemoveNext,
             ReverseAfterPause, Drive
  <2>5. CASE OtherThreads
    BY <2>5 DEF OtherThreads, ReceiveHallCall, ReceiveCompleted, ReassignLost, Background
  <2>6. CASE Environment
    BY <2>6 DEF Environment, PressCall, PressStop, ToggleLever, MoveCar, Crash, Outside
  <2>7. CASE UNCHANGED vars
    BY <2>7 DEF vars
  <2> QED  BY <2>1, <2>2, <2>3, <2>4, <2>5, <2>6, <2>7 DEF Next, MainThread, ServeSteps
<1> QED  BY <1>1, <1>2, PTL DEF Spec

(* From the end of the homing on the motor stands still or runs as         *)
(* current_direction says, whoever starts or stops it.                     *)
THEOREM MotorIsFollowed == Spec => []MotorFollowsDirection
<1>1. Init => MotorFollowsDirection
  BY DEF Init, MotorFollowsDirection
<1>2. TypeOK /\ MotorFollowsDirection /\ [Next]_vars => MotorFollowsDirection'
  <2> SUFFICES ASSUME TypeOK, MotorFollowsDirection, [Next]_vars,
                      pc' \notin {"start", "homing"}
               PROVE  motor' \in {DIRN_STOP, current_direction'}
    BY DEF MotorFollowsDirection
  <2> USE DEF elevator, hardware, MotorFollowsDirection
  <2>1. ASSUME pc \notin {"start", "homing"}, UNCHANGED <<current_direction, motor>>
        PROVE  motor' \in {DIRN_STOP, current_direction'}
    BY <2>1
  <2>2. ASSUME NEW q, NEW f, start_elevator(q, f), pc \notin {"start", "homing"}
        PROVE  motor' \in {DIRN_STOP, current_direction'}
    BY <2>1, <2>2, StartElevatorStep
  <2>3. ASSUME NEW c \in HallCalls, NEW o \in Owners, NEW best \in Owners,
               NEW lit \in SUBSET Calls, assign_hall_call(c, o, best, lit),
               pc \notin {"start", "homing"}
        PROVE  motor' \in {DIRN_STOP, current_direction'}
    BY <2>1, <2>3, AssignStep
  <2>4. ASSUME NEW q, NEW d \in Directions, Leave(q, d), pc \notin {"start", "homing"}
        PROVE  motor' \in {DIRN_STOP, current_direction'}
    BY <2>1, <2>4, LeaveStep
  <2>5. CASE StartUp \/ Home
    BY <2>5 DEF StartUp, Home
  <2>6. CASE CabButton
    BY <2>2, <2>6 DEF CabButton
  <2>7. CASE HallButton
    <3>1. Head(call_ch) \in HallCalls /\ lamps \cup {Head(call_ch)} \in SUBSET Calls
      BY <2>7, HeadTailProperties DEF HallButton, TypeOK, HallCalls
    <3> QED  BY <2>3, <2>7, <3>1, Values DEF HallButton
  <2>8. CASE StopReassign \/ ObstructionReassign
    <3>1. \A c \in todo : c \in HallCalls /\ assigned_to[c] \in Owners
      BY DEF TypeOK
    <3>2. lamps \in SUBSET Calls
      BY DEF TypeOK
    <3> QED  BY <2>1, <2>3, <2>8, <3>1, <3>2, Values DEF StopReassign, ObstructionReassign
  <2>9. CASE StopButton \/ ServeCall
    BY <2>9 DEF StopButton, Halt, ServeCall
  <2>10. CASE \/ FloorSensor \/ StopDoorCloses \/ Obstruction \/ ServeNothing
             \/ CompleteServed \/ DoorWait \/ DepartIdle \/ CompleteNext
    BY <2>1, <2>10 DEF FloorSensor, StopDoorCloses, Obstruction, ServeNothing,
       CompleteServed, DoorWait, DepartIdle, CompleteNext
  <2>11. CASE DepartToward \/ ImmediateCall \/ RemoveNext
    BY <2>1, <2>4, <2>11, DirectionType, Values DEF DepartToward, ImmediateCall, RemoveNext
  <2>12. CASE ReverseAfterPause
    BY <2>12 DEF ReverseAfterPause, Drive
  <2>13. CASE OtherThreads
    BY <2>1, <2>3, <2>13, Values DEF OtherThreads, ReceiveHallCall, ReceiveCompleted,
       ReassignLost, Background, TypeOK
  <2>14. CASE Environment
    BY <2>1, <2>14 DEF Environment, PressCall, PressStop, ToggleLever, MoveCar, Crash, Outside
  <2>15. CASE UNCHANGED vars
    BY <2>1, <2>15 DEF vars
  <2> QED  BY <2>5, <2>6, <2>7, <2>8, <2>9, <2>10, <2>11, <2>12, <2>13, <2>14, <2>15
           DEF Next, MainThread, SelectLoop, ServeSteps
<1> QED  BY <1>1, <1>2, TypeCorrect, PTL DEF Spec

(* An input that has not been spent has not been spent before either.      *)
LEMMA UnspentBefore ==
    ASSUME TypeOK, [Next]_vars, NEW k \in Inputs, used'[k] = 0
    PROVE  used[k] = 0 /\ ~ Spend(k)
<1>1. used \in [Inputs -> Nat]
  BY DEF TypeOK
<1>2. used' = used \/ \E j \in Inputs : Spend(j)
  <2>1. CASE StartUp \/ Home \/ SelectLoop
    BY <2>1 DEF StartUp, Home, SelectLoop, CabButton, HallButton, FloorSensor,
       StopButton, StopDoorCloses, StopReassign, Obstruction, ObstructionReassign
  <2>2. CASE ServeSteps
    BY <2>2 DEF ServeSteps, ServeNothing, ServeCall, CompleteServed, DoorWait, DepartIdle,
       DepartToward, ImmediateCall, CompleteNext, RemoveNext, ReverseAfterPause
  <2>3. CASE OtherThreads
    BY <2>3 DEF OtherThreads, ReceiveHallCall, ReceiveCompleted, ReassignLost, Background,
       Inputs
  <2>4. CASE Environment
    BY <2>4 DEF Environment, PressCall, PressStop, ToggleLever, MoveCar, Crash, Inputs
  <2> QED  BY <2>1, <2>2, <2>3, <2>4 DEF Next, MainThread, vars
<1>3. ASSUME NEW j \in Inputs, Spend(j)
      PROVE  used[k] = 0 /\ j # k
  BY <1>1, <1>3 DEF Spend
<1> QED  BY <1>2, <1>3

(* Before anybody moves the lever or the process dies: no obstruction is   *)
(* seen, the door is open only in a wait or in what follows it, and the    *)
(* stop arm waits with the motor off.                                      *)
DoorShut ==
    /\ ~ lever /\ obstr_ch = <<>> /\ ~ is_obstructed
    /\ door => pc \in Waiting \cup {"stop_door"}
    /\ pc = "stop_door" => motor = DIRN_STOP

LEMMA DoorStep ==
    ASSUME DoorShut, [Next]_vars, ~ Spend("toggle"), ~ Spend("crash")
    PROVE  DoorShut'
<1> USE DEF elevator, hardware, channels, DoorShut, Waiting
<1>1. CASE StartUp \/ Home
  BY <1>1 DEF StartUp, Home
<1>2. CASE SelectLoop
  <2>1. CASE CabButton \/ HallButton \/ FloorSensor
    BY <2>1 DEF CabButton, HallButton, FloorSensor
  <2>2. CASE StopButton
    <3>1. \/ pc' = "stop_door"
          \/ pc' = "stop_reassign" /\ door' = door
      BY <2>2 DEF StopButton
    <3> QED  BY <2>2, <3>1 DEF StopButton, Halt
  <2>3. CASE StopDoorCloses
    BY <2>3 DEF StopDoorCloses
  <2>4. CASE StopReassign \/ ObstructionReassign
    BY <2>4 DEF StopReassign, ObstructionReassign
  <2>5. CASE Obstruction
    BY <2>5 DEF Obstruction
  <2> QED  BY <1>2, <2>1, <2>2, <2>3, <2>4, <2>5 DEF SelectLoop
<1>3. CASE ServeNothing \/ ServeCall \/ CompleteServed \/ DoorWait \/ DepartIdle \/ CompleteNext
  BY <1>3 DEF ServeNothing, ServeCall, CompleteServed, OpenDoor, DoorWait, DepartIdle,
     CompleteNext
<1>4. ASSUME NEW q, NEW d, Leave(q, d)
      PROVE  \/ pc' = "reversing" /\ UNCHANGED door
             \/ pc' = "select" /\ ~ door'
  BY <1>4 DEF Leave, Drive
<1>5. CASE DepartToward
  BY <1>4, <1>5 DEF DepartToward
<1>6. CASE ImmediateCall
  <2>1. \/ \E q : Leave(q, DIRN_STOP)
        \/ pc' = "completing_next" /\ UNCHANGED door
    BY <1>6 DEF ImmediateCall
  <2> QED  BY <1>4, <1>6, <2>1 DEF ImmediateCall
<1>7. CASE RemoveNext
  <2>1. \/ \E q : Leave(q, DIRN_STOP)
        \/ pc' = "panicked" /\ UNCHANGED door
    BY <1>7 DEF RemoveNext
  <2> QED  BY <1>4, <1>7, <2>1 DEF RemoveNext
<1>8. CASE ReverseAfterPause
  BY <1>8 DEF ReverseAfterPause, Drive
<1>9. CASE OtherThreads
  BY <1>9 DEF OtherThreads, ReceiveHallCall, ReceiveCompleted, ReassignLost, Background,
     LockFree
<1>10. CASE ToggleLever \/ Crash
  BY <1>10 DEF ToggleLever, Crash
<1>11. CASE PressStop \/ MoveCar \/ UNCHANGED vars \/ \E c \in Buttons : PressCall(c)
  BY <1>11 DEF PressStop, MoveCar, PressCall, Outside, vars
<1> QED  BY <1>1, <1>2, <1>3, <1>5, <1>6, <1>7, <1>8, <1>9, <1>10, <1>11
         DEF Next, MainThread, ServeSteps, Environment

(* As long as the lever rests and the process lives, the car runs with its *)
(* door open only before serve_call has come to its end, whatever the      *)
(* other threads assign (control.rs:175, system.rs:489) and whenever stop  *)
(* is pressed: no thread starts the motor in the wait of the stop arm, and *)
(* no way out of serve_call leaves the door open.                          *)
THEOREM OpenOnlyInWait == Spec => []RunsOpenOnlyInWait
<1> DEFINE Calm   == used["toggle"] = 0 /\ used["crash"] = 0
           DoorOK == Calm => DoorShut
<1>1. Init => DoorOK
  BY DEF Init, DoorShut
<1>2. TypeOK /\ DoorOK /\ [Next]_vars => DoorOK'
  <2> SUFFICES ASSUME TypeOK, DoorOK, [Next]_vars, Calm' PROVE DoorShut'
    OBVIOUS
  <2>1. {"toggle", "crash"} \subseteq Inputs
    BY DEF Inputs
  <2>2. Calm /\ ~ Spend("toggle") /\ ~ Spend("crash")
    BY <2>1, UnspentBefore
  <2> QED  BY <2>2, DoorStep
<1>3. TypeOK /\ DoorOK => RunsOpenOnlyInWait
  <2> SUFFICES ASSUME TypeOK, DoorOK, used["toggle"] + used["crash"] = 0, door,
                      motor # DIRN_STOP
               PROVE  pc \in Waiting
    BY DEF RunsOpenOnlyInWait
  <2>1. used["toggle"] \in Nat /\ used["crash"] \in Nat
    BY DEF TypeOK, Inputs
  <2>2. DoorShut
    BY <2>1
  <2> QED  BY <2>2 DEF DoorShut
<1> QED  BY <1>1, <1>2, <1>3, TypeCorrect, PTL DEF Spec

-----------------------------------------------------------------------------
(* The elevator that runs undisturbed: where the car is, where it is       *)
(* heading, which lamps are lit and which calls it owns.  What             *)
(* "undisturbed" means differs from theorem to theorem and is stated with  *)
(* each: the model checker shows that the properties fail without it.      *)

(* No handler of listener or health monitor runs.                          *)
NoBackground == MaxBackground = 0

(* The process does not crash.                                             *)
NoCrash == MaxCrashes = 0


HasCallAhead(dirn) == is_more_request_in_dir(call_buttons, current_floor, dirn)

(* What has a bound of 0 never happens.                                    *)
LEMMA NeverSpent ==
    ASSUME TypeOK, NEW k \in Inputs, Limit[k] = 0
    PROVE  ~ Spend(k)
BY DEF TypeOK, Spend

(* The direction start_elevator sets is the one of the call just queued,   *)
(* and turning round it leaves no call behind: the queue has no other.     *)
LEMMA StartElevatorHeads ==
    ASSUME TypeOK, NEW c \in Calls, call_buttons' = Enqueue(call_buttons, c),
           start_elevator(call_buttons', c.floor),
           ~ UNCHANGED <<current_direction, motor>>
    PROVE  /\ motor' = current_direction' /\ motor' \in Directions
           /\ motor' # DIRN_STOP => is_more_request_in_dir(call_buttons', current_floor, motor')
           /\ current_direction' = opposite_dir(current_direction) =>
                 \/ current_direction = DIRN_STOP
                 \/ ~ is_more_request_in_dir(call_buttons', current_floor, current_direction)
<1> DEFINE q    == Enqueue(call_buttons, c)
           dirn == hall_call_start_dir(c.floor, current_floor)
<1>1. /\ current_direction' = dirn /\ motor' = dirn
      /\ Len(q) = 1 \/ current_direction = DIRN_STOP
  BY DEF start_elevator, StartsNow
<1>2. dirn \in Directions /\ q \in Seq(Calls) /\ Contains(q, c)
      /\ c.floor \in Floors /\ current_floor \in Floors /\ current_direction \in Directions
  BY DirectionType, EnqueueProperties, Values DEF TypeOK
<1>3. dirn # DIRN_STOP => IsAhead(c.floor, current_floor, dirn)
  BY <1>2, StartDirection
<1>4. dirn # DIRN_STOP => is_more_request_in_dir(q, current_floor, dirn)
  BY <1>2, <1>3, MoreRequests
<1>5. ASSUME dirn = opposite_dir(current_direction), current_direction # DIRN_STOP
      PROVE  ~ is_more_request_in_dir(q, current_floor, current_direction)
  <2>1. dirn # current_direction
    BY <1>2, <1>5, OppositeDirection
  <2>2. ~ IsAhead(c.floor, current_floor, current_direction)
    BY <1>2, <2>1, StartDirection
  <2>3. Len(q) = 1
    BY <1>1, <1>5
  <2>4. \A d \in Calls : Contains(q, d) => d = c
    BY <2>3, EnqueueSingle DEF TypeOK
  <2> QED  BY <1>2, <2>2, <2>4, MoreRequests
<1> QED  BY <1>1, <1>2, <1>4, <1>5

(* assign_hall_call starts the motor only toward the call it queues.       *)
LEMMA AssignHeads ==
    ASSUME TypeOK, NEW c \in HallCalls, NEW owner, NEW best, NEW lit,
           assign_hall_call(c, owner, best, lit)
    PROVE  \/ /\ call_buttons' \in {call_buttons, Enqueue(call_buttons, c)}
              /\ UNCHANGED <<current_direction, motor>>
           \/ /\ call_buttons' = Enqueue(call_buttons, c)
              /\ motor' = current_direction' /\ motor' \in Directions
              /\ motor' # DIRN_STOP => is_more_request_in_dir(call_buttons', current_floor, motor')
              /\ current_direction' = opposite_dir(current_direction) =>
                    \/ current_direction = DIRN_STOP
                    \/ ~ is_more_request_in_dir(call_buttons', current_floor, current_direction)
<1>1. c \in Calls
  BY DEF HallCalls
<1>2. \/ UNCHANGED <<call_buttons, current_direction, motor>>
      \/ call_buttons' = Enqueue(call_buttons, c) /\ start_elevator(call_buttons', c.floor)
  BY DEF assign_hall_call
<1> QED  BY <1>1, <1>2, StartElevatorHeads

(* serve_call ends with the motor running toward a call, or waits to       *)
(* reverse to one, and it turns round only when no call is left ahead.     *)
LEMMA LeaveHeads ==
    ASSUME TypeOK, NEW q \in Seq(Calls), at = current_floor, NEW chosen \in Directions,
           \/ chosen = DIRN_STOP
           \/ LET m == decide_next_call(q, current_floor, current_direction)
              IN  m # 0 /\ chosen = hall_call_start_dir(q[m].floor, at),
           Leave(q, chosen)
    PROVE  \/ /\ pc' = "select" /\ motor' = current_direction' /\ motor' \in Directions
              /\ at' = 0 /\ door' = FALSE /\ new_dir' = new_dir
              /\ motor' # DIRN_STOP => is_more_request_in_dir(q, current_floor, motor')
              /\ current_direction' # opposite_dir(current_direction)
           \/ /\ pc' = "reversing" /\ UNCHANGED <<at, door, current_direction, motor>>
              /\ new_dir' \in Directions
              /\ new_dir' # DIRN_STOP => is_more_request_in_dir(q, current_floor, new_dir')
              /\ \/ current_direction = DIRN_STOP
                 \/ ~ is_more_request_in_dir(q, current_floor, current_direction)
<1> DEFINE m    == decide_next_call(q, current_floor, current_direction)
           dirn == IF m # 0 /\ chosen = DIRN_STOP
                   THEN hall_call_start_dir(q[m].floor, at) ELSE chosen
<1>1. m \in DOMAIN q \cup {0} /\ (m # 0 => q[m] \in Calls /\ q[m].floor \in Floors /\ Contains(q, q[m]))
  BY NextCallFound, LenProperties, ElementOfSeq, Values DEF Contains
<1>2. dirn \in Directions /\ current_direction \in Directions /\ current_floor \in Floors
  BY DirectionType DEF TypeOK
<1>3. dirn # DIRN_STOP => m # 0 /\ dirn = hall_call_start_dir(q[m].floor, current_floor)
  OBVIOUS
<1>4. dirn # DIRN_STOP => is_more_request_in_dir(q, current_floor, dirn)
  <2> SUFFICES ASSUME dirn # DIRN_STOP
               PROVE  is_more_request_in_dir(q, current_floor, dirn)
    OBVIOUS
  <2>1. IsAhead(q[m].floor, current_floor, dirn)
    BY <1>1, <1>2, <1>3, StartDirection
  <2> QED  BY <1>1, <1>3, <2>1, MoreRequests
<1>5. ASSUME dirn = opposite_dir(current_direction), current_direction # DIRN_STOP,
             is_more_request_in_dir(q, current_floor, current_direction)
      PROVE  FALSE
  <2>1. dirn # DIRN_STOP /\ dirn # current_direction
    BY <1>2, <1>5, OppositeDirection
  <2>2. IsAhead(q[m].floor, current_floor, current_direction)
    BY <1>5, NextCallAhead
  <2>3. hall_call_start_dir(q[m].floor, current_floor) = current_direction
    BY <1>1, <1>2, <1>3, <2>1, <2>2, StartDirection
  <2> QED  BY <1>3, <2>1, <2>3
<1> HIDE DEF dirn
<1>6. IF dirn = opposite_dir(current_direction)
      THEN /\ pc' = "reversing" /\ new_dir' = dirn
           /\ UNCHANGED <<at, door, current_direction, motor>>
      ELSE Drive(dirn) /\ UNCHANGED new_dir
  BY DEF Leave, dirn
<1> QED  BY <1>2, <1>4, <1>5, <1>6 DEF Drive

-----------------------------------------------------------------------------
(* Turning round.                                                          *)

(* Where serve_call is between taking a floor event and returning.         *)
Serving == {"serve", "completing", "door_wait", "depart", "completing_next",
            "removing_next", "reversing"}

(* serve_call works on the floor the elevator is at; a car that pauses     *)
(* before it reverses has no call left in its old direction.               *)
TurnsWhenDone ==
    /\ pc \in Serving => at = current_floor
    /\ pc = "reversing" => current_direction = DIRN_STOP \/ ~ HasCallAhead(current_direction)

(* This step does not turn round with a call ahead.                        *)
KeepsGoing ==
    \/ current_direction = DIRN_STOP
    \/ current_direction' # opposite_dir(current_direction)
    \/ ~ is_more_request_in_dir(call_buttons', current_floor, current_direction)

LEMMA TurnStep ==
    ASSUME TypeOK, TurnsWhenDone, [Next]_vars, pc' # "start"
    PROVE  TurnsWhenDone' /\ KeepsGoing
<1> USE DEF elevator, locals, Serving, TurnsWhenDone, HasCallAhead
<1>1. opposite_dir(current_direction) \notin {DIRN_STOP, current_direction}
  BY OppositeDirection DEF TypeOK
<1>2. ASSUME UNCHANGED <<current_floor, current_direction>>, pc' # "reversing",
             pc' \in Serving => pc \in Serving /\ at' = at
      PROVE  TurnsWhenDone' /\ KeepsGoing
  BY <1>1, <1>2 DEF KeepsGoing
<1>3. CASE StartUp \/ Home
  BY <1>2, <1>3 DEF StartUp, Home
<1>4. CASE CabButton
  <2> DEFINE c == Head(call_ch)
  <2>1. /\ c \in Calls /\ call_buttons' = Enqueue(call_buttons, c)
        /\ start_elevator(call_buttons', c.floor)
    BY <1>4, HeadTailProperties DEF CabButton, TypeOK
  <2>2. KeepsGoing
    BY <1>1, <2>1, StartElevatorHeads DEF KeepsGoing
  <2> QED  BY <1>4, <2>2 DEF CabButton
<1>5. CASE HallButton
  <2> DEFINE c == Head(call_ch)
  <2>1. c \in HallCalls /\ \E best \in Winners : assign_hall_call(c, "unassigned", best, lamps \cup {c})
    BY <1>5, HeadTailProperties DEF HallButton, TypeOK, HallCalls
  <2>2. KeepsGoing
    BY <1>1, <2>1, AssignHeads DEF KeepsGoing
  <2> QED  BY <1>5, <2>2 DEF HallButton
<1>6. CASE FloorSensor
  BY <1>1, <1>6 DEF FloorSensor, KeepsGoing
<1>7. CASE StopButton
  BY <1>1, <1>7 DEF StopButton, Halt, KeepsGoing
<1>8. CASE StopDoorCloses \/ Obstruction
  BY <1>2, <1>8 DEF StopDoorCloses, Obstruction
<1>9. CASE StopReassign \/ ObstructionReassign
  <2>1. \/ UNCHANGED current_direction
        \/ \E c \in todo : \E owner, best : assign_hall_call(c, owner, best, lamps)
    BY <1>9 DEF StopReassign, ObstructionReassign
  <2>2. KeepsGoing
    BY <1>1, <2>1, AssignHeads DEF KeepsGoing, TypeOK
  <2> QED  BY <1>9, <2>2 DEF StopReassign, ObstructionReassign
<1>10. CASE \/ ServeNothing \/ ServeCall \/ CompleteServed \/ DoorWait \/ DepartIdle
            \/ CompleteNext
  BY <1>2, <1>10 DEF ServeNothing, ServeCall, OpenDoor, CompleteServed, DoorWait,
     DepartIdle, CompleteNext
<1>11. ASSUME NEW q \in Seq(Calls), NEW chosen \in Directions, at = current_floor,
              \/ chosen = DIRN_STOP
              \/ LET m == decide_next_call(q, current_floor, current_direction)
                 IN  m # 0 /\ chosen = hall_call_start_dir(q[m].floor, at),
              Leave(q, chosen), call_buttons' = q, UNCHANGED current_floor
       PROVE  TurnsWhenDone' /\ KeepsGoing
  BY <1>1, <1>11, LeaveHeads DEF KeepsGoing
<1>12. CASE DepartToward
  <2> DEFINE n == decide_next_call(call_buttons, current_floor, current_direction)
  <2>1. n # 0 /\ Leave(call_buttons, hall_call_start_dir(call_buttons[n].floor, at))
        /\ UNCHANGED <<call_buttons, current_floor>> /\ at = current_floor
    BY <1>12 DEF DepartToward
  <2> QED  BY <1>11, <2>1, DirectionType DEF TypeOK
<1>13. CASE ImmediateCall
  <2> DEFINE n == decide_next_call(call_buttons, current_floor, current_direction)
  <2>1. n \in DOMAIN call_buttons /\ at = current_floor
    BY <1>13, NextCallFound DEF ImmediateCall, TypeOK
  <2>2. CASE call_buttons[n].call = CAB
    <3>1. call_buttons' = RemoveAt(call_buttons, n) /\ call_buttons' \in Seq(Calls)
          /\ Leave(call_buttons', DIRN_STOP) /\ UNCHANGED current_floor
      BY <1>13, <2>1, <2>2, RemoveAtWithin DEF ImmediateCall, TypeOK, Within
    <3> QED  BY <1>11, <2>1, <3>1, Values
  <2>3. CASE call_buttons[n].call # CAB
    BY <1>2, <1>13, <2>3 DEF ImmediateCall
  <2> QED  BY <2>2, <2>3
<1>14. CASE RemoveNext
  <2>1. CASE next_index \in DOMAIN call_buttons
    <3>1. call_buttons' = RemoveAt(call_buttons, next_index) /\ call_buttons' \in Seq(Calls)
          /\ Leave(call_buttons', DIRN_STOP) /\ UNCHANGED current_floor /\ at = current_floor
      BY <1>14, <2>1, RemoveAtWithin DEF RemoveNext, TypeOK, Within
    <3> QED  BY <1>11, <3>1, Values
  <2>2. CASE next_index \notin DOMAIN call_buttons
    BY <1>2, <1>14, <2>2 DEF RemoveNext
  <2> QED  BY <2>1, <2>2
<1>15. CASE ReverseAfterPause
  BY <1>15 DEF ReverseAfterPause, Drive, KeepsGoing
<1>16. ASSUME NEW c \in Buttons \cap HallCalls,
              ReceiveHallCall(c) \/ ReceiveCompleted(c) \/ ReassignLost(c)
       PROVE  TurnsWhenDone' /\ KeepsGoing
  <2>1. /\ pc # "reversing" /\ UNCHANGED <<pc, at, current_floor>>
        /\ \/ UNCHANGED current_direction
           \/ \E owner, best, lit : assign_hall_call(c, owner, best, lit)
    BY <1>16 DEF ReceiveHallCall, ReceiveCompleted, ReassignLost, Background, LockFree
  <2>2. KeepsGoing
    BY <1>1, <2>1, AssignHeads DEF KeepsGoing
  <2> QED  BY <2>1, <2>2
<1>17. CASE \/ PressStop \/ ToggleLever \/ MoveCar \/ UNCHANGED vars
            \/ \E c \in Buttons : PressCall(c)
  <2>1. UNCHANGED <<call_buttons, current_floor, current_direction, pc, at>>
    BY <1>17 DEF PressCall, PressStop, ToggleLever, MoveCar, Outside, vars
  <2> QED  BY <1>1, <2>1 DEF KeepsGoing
<1>18. CASE Crash
  BY <1>18 DEF Crash
<1> QED  BY <1>3, <1>4, <1>5, <1>6, <1>7, <1>8, <1>9, <1>10, <1>12, <1>13, <1>14,
            <1>15, <1>16, <1>17, <1>18
         DEF Next, MainThread, SelectLoop, ServeSteps, OtherThreads, Environment

(* Whatever buttons, peers, listener, health monitor and crashes do, a car *)
(* that is not being restarted turns round only when no call is left ahead *)
(* of it (control.rs:27-36, :107, :240).                                   *)
THEOREM DirectionIsKept == Spec => KeepsDirection
<1> DEFINE Keeps == pc' = "start" \/ KeepsGoing
<1>1. Init => TurnsWhenDone
  BY DEF Init, TurnsWhenDone, Serving
<1>2. TypeOK /\ TurnsWhenDone /\ [Next]_vars => TurnsWhenDone' /\ [Keeps]_vars
  <2>1. TypeOK /\ TurnsWhenDone /\ [Next]_vars /\ pc' # "start" => TurnsWhenDone' /\ KeepsGoing
    BY TurnStep
  <2>2. pc' = "start" => TurnsWhenDone'
    BY DEF TurnsWhenDone, Serving
  <2> QED  BY <2>1, <2>2
<1>3. KeepsDirection <=> [][Keeps]_vars
  BY PTL DEF KeepsDirection, KeepsGoing
<1> QED  BY <1>1, <1>2, <1>3, TypeCorrect, PTL DEF Spec

-----------------------------------------------------------------------------
(* Where the car is, and where it is heading.                              *)

Ground == {"start", "homing"}

(* Before it is homed the car has no calls and runs down, if it runs; an   *)
(* event on its way is for the floor it is at, and it stands there.        *)
Homing ==
    /\ pc \in Ground => /\ call_buttons = <<>> /\ current_floor = 0
                        /\ current_direction = DIRN_STOP
    /\ pc = "start" => /\ motor = DIRN_STOP
                       /\ prev_floor = NoFloor /\ floor_ch = <<>>
    /\ pc = "homing" =>
          \/ /\ floor_ch = <<>> /\ motor = DIRN_DOWN /\ pos > 0
             /\ prev_floor = NoFloor => ~ AtFloor(pos)
             /\ prev_floor # NoFloor => pos =< 2 * prev_floor
          \/ /\ floor_ch = <<prev_floor>>
             /\ prev_floor \in Floors /\ pos = 2 * prev_floor

(* Later it is next to current_floor, or at the floor before or after it,  *)
(* whose event is then the only one on its way.                            *)
Located ==
    pc \notin Ground =>
        /\ prev_floor \in Floors
        /\ \/ /\ floor_ch = <<>> /\ prev_floor = current_floor
              /\ pos \in (2 * current_floor - 1)..(2 * current_floor + 1)
           \/ /\ floor_ch = <<prev_floor>> /\ pos = 2 * prev_floor
              /\ prev_floor \in {current_floor - 1, current_floor + 1}

(* While it is served the car is at current_floor and, but for the instant *)
(* in which the event is taken, stands.                                    *)
Standing ==
    /\ pc \in Serving => floor_ch = <<>> /\ pos = 2 * current_floor
    /\ pc \in (Serving \ {"serve"}) \cup {"stop_door", "panicked"} => motor = DIRN_STOP

(* A running car has a call ahead; when it takes a floor event the call    *)
(* may be the one for that floor.                                          *)
Heading ==
    /\ pc \in {"select", "obstr_reassign", "stop_reassign"} /\ motor # DIRN_STOP =>
          HasCallAhead(motor)
    /\ pc = "serve" /\ motor # DIRN_STOP =>
          \/ HasCallAhead(motor)
          \/ \E c \in Calls : Contains(call_buttons, c) /\ c.floor = current_floor
    /\ pc = "reversing" /\ new_dir # DIRN_STOP => HasCallAhead(new_dir)

Motion == InShaft /\ Homing /\ Located /\ Standing /\ Heading

(* The car moves half a floor, and the floor poller sees it.               *)
LEMMA MoveKeepsMotion ==
    ASSUME TypeOK, Motion, MoveCar
    PROVE  Motion'
<1> USE DEF Motion, Ground, Serving
<1>0. NumFloors \in 2..255 /\ current_floor \in Floors /\ motor \in {DIRN_UP, DIRN_DOWN}
      /\ pos \in Shaft
  BY NumFloorsAssumption DEF MoveCar, TypeOK, Directions, InShaft
<1>1. /\ UNCHANGED <<call_buttons, current_floor, current_direction, pc, at, new_dir, motor>>
      /\ pos' = IF motor = DIRN_UP THEN pos + 1 ELSE pos - 1
  BY DEF MoveCar, Outside, elevator, locals
<1>2. pc \in {"homing", "select"} /\ floor_ch = <<>>
  BY DEF MoveCar, Slow, Standing, Homing
<1>3. Standing' /\ Heading'
  BY <1>1, <1>2 DEF Standing, Heading, HasCallAhead
<1>4. \/ UNCHANGED <<prev_floor, floor_ch>> /\ ~ \E f \in Floors : pos' = 2 * f /\ f # prev_floor
      \/ \E f \in Floors : /\ pos' = 2 * f /\ f # prev_floor
                           /\ prev_floor' = f /\ floor_ch' = <<f>>
  <2>1. \A f \in Floors : Append(<<>>, f) = <<f>>
    OBVIOUS
  <2>2. PollFloor(pos', prev_floor) /\ Polling'
    BY <1>1, <1>2 DEF MoveCar, Polling
  <2> QED  BY <1>0, <1>2, <2>1, <2>2 DEF PollFloor, Floors
<1>5. CASE pc = "homing"
  <2>1. /\ motor = DIRN_DOWN /\ pos > 0 /\ pos' = pos - 1
        /\ prev_floor = NoFloor => ~ AtFloor(pos)
        /\ prev_floor # NoFloor => pos =< 2 * prev_floor
    BY <1>1, <1>2, <1>5 DEF Homing, DIRN_UP, DIRN_DOWN
  <2>2. pos' \in Shaft
    BY <1>0, <2>1 DEF Shaft
  <2>3. \A p \in Shaft : AtFloor(p) \/ (p > 0 /\ AtFloor(p - 1))
    <3> TAKE p \in Shaft
    <3>1. CASE p % 2 = 0
      <4>1. p \div 2 \in Floors /\ p = 2 * (p \div 2)
        BY <1>0, <3>1 DEF Floors, Shaft
      <4> QED  BY <4>1 DEF AtFloor
    <3>2. CASE p % 2 # 0
      <4>1. (p - 1) \div 2 \in Floors /\ p - 1 = 2 * ((p - 1) \div 2) /\ p > 0
        BY <1>0, <3>2 DEF Floors, Shaft
      <4> QED  BY <4>1 DEF AtFloor
    <3> QED  BY <1>0, <3>1, <3>2 DEF Shaft
  <2>4. Homing'
    <3>1. CASE UNCHANGED <<prev_floor, floor_ch>> /\ ~ \E f \in Floors : pos' = 2 * f /\ f # prev_floor
      <4>1. prev_floor # NoFloor
        BY <1>0, <2>1, <2>3, <3>1 DEF AtFloor, Floors, NoFloor
      <4>2. pos' # 2 * 0
        BY <1>0, <2>1, <3>1, <4>1, Values DEF Shaft, Floors, TypeOK
      <4>3. pos' > 0
        BY <1>0, <2>2, <4>2 DEF Shaft
      <4> QED  BY <1>0, <1>1, <1>2, <1>5, <2>1, <3>1, <4>1, <4>3 DEF Homing, Shaft, Floors, TypeOK
    <3>2. CASE \E f \in Floors : /\ pos' = 2 * f /\ f # prev_floor
                                 /\ prev_floor' = f /\ floor_ch' = <<f>>
      BY <1>1, <1>5, <3>2 DEF Homing
    <3> QED  BY <1>4, <3>1, <3>2
  <2> QED  BY <1>1, <1>3, <1>5, <2>2, <2>4 DEF Located, InShaft
<1>6. CASE pc = "select"
  <2>1. /\ prev_floor = current_floor
        /\ pos \in (2 * current_floor - 1)..(2 * current_floor + 1)
    BY <1>2, <1>6 DEF Located
  <2>2. PICK c \in Calls : IsAhead(c.floor, current_floor, motor)
    BY <1>0, <1>6, MoreRequests DEF Heading, HasCallAhead, TypeOK, DIRN_UP, DIRN_DOWN, DIRN_STOP
  <2>3. c.floor \in Floors
    BY Values
  <2>4. pos' \in Shaft
    BY <1>0, <1>1, <2>1, <2>2, <2>3 DEF IsAhead, Floors, Shaft, DIRN_UP, DIRN_DOWN
  <2>5. pos' \in (2 * current_floor - 2)..(2 * current_floor + 2)
    BY <1>0, <1>1, <2>1 DEF Floors
  <2>6. Located'
    <3>1. CASE UNCHANGED <<prev_floor, floor_ch>> /\ ~ \E f \in Floors : pos' = 2 * f /\ f # prev_floor
      <4>1. pos' # 2 * current_floor - 2 /\ pos' # 2 * current_floor + 2
        BY <1>0, <2>1, <2>4, <3>1 DEF Floors, Shaft
      <4> QED  BY <1>0, <1>1, <1>2, <1>6, <2>1, <2>5, <3>1, <4>1 DEF Located, Floors
    <3>2. CASE \E f \in Floors : /\ pos' = 2 * f /\ f # prev_floor
                                 /\ prev_floor' = f /\ floor_ch' = <<f>>
      BY <1>0, <1>1, <1>6, <2>1, <2>5, <3>2 DEF Located, Floors
    <3> QED  BY <1>4, <3>1, <3>2
  <2> QED  BY <1>1, <1>3, <1>6, <2>4, <2>6 DEF Homing, InShaft
<1> QED  BY <1>2, <1>5, <1>6

(* The start-up code finds the car at a floor or sends it down.            *)
LEMMA StartUpKeepsMotion ==
    ASSUME TypeOK, Motion, StartUp
    PROVE  Motion'
<1> USE DEF Motion, Ground, Serving
<1>0. NumFloors \in 2..255 /\ pos \in Shaft
  BY NumFloorsAssumption DEF InShaft
<1>1. /\ pc = "start" /\ pc' = "homing"
      /\ UNCHANGED <<call_buttons, current_floor, current_direction, pos>>
      /\ motor' = IF AtFloor(pos) THEN motor ELSE DIRN_DOWN
      /\ PollFloor(pos, NoFloor) /\ Polling'
  BY DEF StartUp, elevator, Polling
<1>2. prev_floor = NoFloor /\ floor_ch = <<>>
  BY <1>1 DEF Homing
<1>3. \A f \in Floors : Append(<<>>, f) = <<f>> /\ f # NoFloor
  BY <1>0 DEF Floors, NoFloor
<1>4. IF AtFloor(pos)
      THEN \E f \in Floors : pos' = 2 * f /\ prev_floor' = f /\ floor_ch' = <<f>>
      ELSE UNCHANGED <<prev_floor, floor_ch>>
  BY <1>0, <1>1, <1>2, <1>3 DEF PollFloor, AtFloor, Floors
<1>5. ~ AtFloor(pos) => pos > 0
  <2>1. 0 \in Floors /\ 2 * 0 = 0
    BY <1>0 DEF Floors
  <2>2. pos # 0 \/ AtFloor(pos)
    BY <2>1 DEF AtFloor
  <2> QED  BY <1>0, <2>2 DEF Shaft
<1>6. Homing'
  BY <1>1, <1>2, <1>4, <1>5 DEF Homing, AtFloor
<1> QED  BY <1>0, <1>1, <1>6 DEF InShaft, Located, Standing, Heading

(* Homing ends on the ground floor, with the car standing there.           *)
LEMMA HomeKeepsMotion ==
    ASSUME TypeOK, Motion, Home
    PROVE  Motion'
<1> USE DEF Motion, Ground, Serving
<1>0. NumFloors \in 2..255 /\ Floors \subseteq Nat /\ 0 \in Floors
  BY NumFloorsAssumption DEF Floors
<1>1. /\ pc = "homing" /\ floor_ch # <<>>
      /\ UNCHANGED <<call_buttons, current_floor, current_direction, pos, prev_floor>>
  BY DEF Home, elevator
<1>2. /\ floor_ch = <<prev_floor>> /\ prev_floor \in Floors /\ pos = 2 * prev_floor
      /\ call_buttons = <<>> /\ current_floor = 0 /\ current_direction = DIRN_STOP
  BY <1>1 DEF Homing
<1>3. Head(floor_ch) = prev_floor /\ Tail(floor_ch) = <<>>
  BY <1>2
<1>4. CASE prev_floor = 0
  <2>1. floor_ch' = <<>> /\ motor' = DIRN_STOP /\ pc' = "select"
    BY <1>3, <1>4 DEF Home
  <2> QED  BY <1>0, <1>1, <1>2, <1>4, <2>1 DEF InShaft, Homing, Located, Standing, Heading
<1>5. CASE prev_floor # 0
  <2>1. floor_ch' = <<>> /\ motor' = DIRN_DOWN /\ pc' = "homing"
    BY <1>1, <1>3, <1>5 DEF Home
  <2>2. prev_floor # NoFloor /\ pos > 0
    BY <1>0, <1>2, <1>5, NumFloorsAssumption DEF Floors, NoFloor
  <2> QED  BY <1>0, <1>1, <1>2, <2>1, <2>2 DEF InShaft, Homing, Located, Standing, Heading
<1> QED  BY <1>4, <1>5

(* A floor event brings current_floor to where the car is.                 *)
LEMMA FloorSensorKeepsMotion ==
    ASSUME TypeOK, Motion, FloorSensor
    PROVE  Motion'
<1> USE DEF Motion, Ground, Serving
<1>1. /\ pc = "select" /\ floor_ch # <<>> /\ pc' = "serve"
      /\ current_floor' = Head(floor_ch) /\ floor_ch' = Tail(floor_ch)
      /\ UNCHANGED <<call_buttons, current_direction, pos, prev_floor, motor>>
  BY DEF FloorSensor, hardware
<1>2. /\ floor_ch = <<prev_floor>> /\ prev_floor \in Floors /\ pos = 2 * prev_floor
      /\ prev_floor \in {current_floor - 1, current_floor + 1}
  BY <1>1 DEF Located
<1>3. Head(floor_ch) = prev_floor /\ Tail(floor_ch) = <<>>
  BY <1>2
<1>4. current_floor \in Floors /\ Floors \subseteq Int /\ motor \in Directions
  BY NumFloorsAssumption DEF TypeOK, Floors
<1>5. ASSUME motor # DIRN_STOP
      PROVE  \/ is_more_request_in_dir(call_buttons, prev_floor, motor)
             \/ \E c \in Calls : Contains(call_buttons, c) /\ c.floor = prev_floor
  <2>1. PICK c \in Calls : Contains(call_buttons, c) /\ IsAhead(c.floor, current_floor, motor)
    BY <1>1, <1>5, MoreRequests DEF Heading, HasCallAhead, TypeOK
  <2>2. c.floor = prev_floor \/ IsAhead(c.floor, prev_floor, motor)
    BY <1>2, <1>4, <1>5, <2>1, Values DEF IsAhead, Directions, DIRN_UP, DIRN_DOWN
  <2> QED  BY <2>1, <2>2, MoreRequests DEF TypeOK
<1>6. Heading'
  BY <1>1, <1>3, <1>5 DEF Heading, HasCallAhead
<1> QED  BY <1>1, <1>2, <1>3, <1>4, <1>6 DEF InShaft, Homing, Located, Standing

(* Steps that touch neither the car's position nor the floor events.       *)
LEMMA SamePlace ==
    ASSUME Motion, UNCHANGED <<pos, prev_floor, floor_ch, current_floor>>,
           pc \notin Ground, pc' \notin Ground,
           pc' \in Serving => pc \in Serving,
           pc' \in (Serving \ {"serve"}) \cup {"stop_door", "panicked"} => motor' = DIRN_STOP,
           Heading'
    PROVE  Motion'
BY DEF Motion, InShaft, Homing, Located, Standing, Ground, Serving

(* A call that is pushed leaves the calls that lie ahead there.            *)
LEMMA AheadKept ==
    ASSUME TypeOK, NEW c \in Calls, NEW d, HasCallAhead(d)
    PROVE  is_more_request_in_dir(Enqueue(call_buttons, c), current_floor, d)
BY EnqueueProperties, MoreRequests DEF HasCallAhead, TypeOK

(* Between floors a call may be pushed and the car started toward it.      *)
LEMMA PushKeepsHeading ==
    ASSUME TypeOK, Motion, NEW c \in Calls, UNCHANGED current_floor,
           pc \in {"select", "obstr_reassign", "stop_reassign"},
           pc' \in {"select", "obstr_reassign", "stop_reassign"},
           \/ /\ call_buttons' \in {call_buttons, Enqueue(call_buttons, c)}
              /\ UNCHANGED motor
           \/ motor' # DIRN_STOP => is_more_request_in_dir(call_buttons', current_floor, motor')
    PROVE  Heading'
BY AheadKept DEF Motion, Heading, HasCallAhead

LEMMA MotionStep ==
    ASSUME TypeOK, TurnsWhenDone, MotorFollowsDirection, Motion, [Next]_vars,
           NoBackground, NoCrash
    PROVE  Motion'
<1> USE DEF elevator, locals, hardware, channels
<1>0. Len(call_buttons) \in Nat /\ Buttons \subseteq Calls
  BY Values DEF TypeOK
<1>1. CASE CabButton
  <2> DEFINE c == Head(call_ch)
  <2>1. /\ c \in Calls /\ call_buttons' = Enqueue(call_buttons, c)
        /\ start_elevator(call_buttons', c.floor)
    BY <1>1, HeadTailProperties DEF CabButton, TypeOK
  <2>2. Heading'
    BY <1>1, <2>1, StartElevatorHeads, PushKeepsHeading DEF CabButton
  <2> QED  BY <1>1, <2>2, SamePlace DEF CabButton, Ground, Serving
<1>2. CASE HallButton
  <2> DEFINE c == Head(call_ch)
  <2>1. /\ c \in HallCalls /\ c \in Calls
        /\ \E best \in Winners : assign_hall_call(c, "unassigned", best, lamps \cup {c})
    BY <1>2, HeadTailProperties DEF HallButton, TypeOK, HallCalls
  <2>2. Heading'
    BY <1>2, <2>1, AssignHeads, PushKeepsHeading DEF HallButton
  <2> QED  BY <1>2, <2>2, SamePlace DEF HallButton, Ground, Serving
<1>3. CASE StopButton
  <2>1. Heading'
    BY <1>3 DEF StopButton, Halt, Heading
  <2> QED  BY <1>3, <2>1, SamePlace DEF StopButton, Halt, Ground, Serving
<1>4. CASE StopDoorCloses
  <2>1. motor = DIRN_STOP
    BY <1>4 DEF StopDoorCloses, Motion, Standing
  <2>2. Heading'
    BY <1>4, <2>1 DEF StopDoorCloses, Heading
  <2> QED  BY <1>4, <2>2, SamePlace DEF StopDoorCloses, Ground, Serving
<1>5. CASE StopReassign \/ ObstructionReassign
  <2>1. CASE todo = {} /\ UNCHANGED <<call_buttons, motor>> /\ pc' = "select"
    <3>1. Heading'
      BY <1>5, <2>1 DEF StopReassign, ObstructionReassign, Heading, HasCallAhead, Motion
    <3> QED  BY <1>5, <2>1, <3>1, SamePlace DEF StopReassign, ObstructionReassign, Ground, Serving
  <2>2. ASSUME NEW c \in todo, NEW owner, NEW best, assign_hall_call(c, owner, best, lamps),
               UNCHANGED pc
        PROVE  Motion'
    <3>1. c \in HallCalls /\ c \in Calls
      BY DEF TypeOK, HallCalls
    <3>2. Heading'
      BY <1>5, <2>2, <3>1, AssignHeads, PushKeepsHeading DEF StopReassign, ObstructionReassign
    <3> QED  BY <1>5, <2>2, <3>2, SamePlace DEF StopReassign, ObstructionReassign, Ground, Serving
  <2> QED  BY <1>5, <2>1, <2>2 DEF StopReassign, ObstructionReassign
<1>6. CASE Obstruction
  <2>1. Heading'
    BY <1>6 DEF Obstruction, Heading, HasCallAhead, Motion
  <2> QED  BY <1>6, <2>1, SamePlace DEF Obstruction, Ground, Serving
<1>7. CASE ServeNothing
  <2>1. pc = "serve" /\ at = current_floor /\ pc' = "select"
        /\ serving_call(call_buttons, current_floor, at, current_direction) = 0
        /\ UNCHANGED <<call_buttons, current_floor, motor, pos, prev_floor, floor_ch>>
    BY <1>7 DEF ServeNothing, TurnsWhenDone, Serving
  <2>2. motor \in {DIRN_STOP, current_direction} /\ current_direction \in Directions
    BY <2>1 DEF MotorFollowsDirection, TypeOK
  <2>3. motor # DIRN_STOP => HasCallAhead(motor)
    BY <2>1, <2>2, PassedBy DEF Motion, Heading, HasCallAhead, TypeOK
  <2>4. Heading'
    BY <2>1, <2>3 DEF Heading, HasCallAhead
  <2> QED  BY <2>1, <2>4, SamePlace DEF Ground, Serving
<1>8. CASE ServeCall
  <2>1. /\ pc = "serve" /\ pc' \in {"completing", "select", "door_wait"} /\ motor' = DIRN_STOP
        /\ UNCHANGED <<current_floor, pos, prev_floor, floor_ch>>
    BY <1>8 DEF ServeCall, OpenDoor
  <2>2. Heading'
    BY <2>1 DEF Heading
  <2> QED  BY <2>1, <2>2, SamePlace DEF Ground, Serving
<1>9. CASE CompleteServed \/ DoorWait \/ DepartIdle \/ CompleteNext
  <2>1. /\ pc \in {"completing", "door_wait", "depart", "completing_next"}
        /\ pc' \in {"select", "door_wait", "depart", "removing_next"}
        /\ UNCHANGED <<current_floor, pos, prev_floor, floor_ch, motor>>
    BY <1>9 DEF CompleteServed, OpenDoor, DoorWait, DepartIdle, CompleteNext
  <2>2. motor = DIRN_STOP
    BY <2>1 DEF Motion, Standing, Serving
  <2>3. Heading'
    BY <2>1, <2>2 DEF Heading
  <2> QED  BY <2>1, <2>2, <2>3, SamePlace DEF Ground, Serving
<1>10. ASSUME pc \in {"depart", "removing_next"}, NEW q \in Seq(Calls), NEW chosen \in Directions,
              \/ chosen = DIRN_STOP
              \/ LET m == decide_next_call(q, current_floor, current_direction)
                 IN  m # 0 /\ chosen = hall_call_start_dir(q[m].floor, at),
              Leave(q, chosen), call_buttons' = q,
              UNCHANGED <<current_floor, pos, prev_floor, floor_ch>>
       PROVE  Motion'
  <2>1. at = current_floor /\ motor = DIRN_STOP
    BY <1>10 DEF TurnsWhenDone, Motion, Standing, Serving
  <2>2. \/ /\ pc' = "select"
           /\ motor' # DIRN_STOP => is_more_request_in_dir(q, current_floor, motor')
        \/ /\ pc' = "reversing" /\ motor' = DIRN_STOP
           /\ new_dir' # DIRN_STOP => is_more_request_in_dir(q, current_floor, new_dir')
    BY <1>10, <2>1, LeaveHeads
  <2>3. Heading'
    BY <1>10, <2>2 DEF Heading, HasCallAhead
  <2> QED  BY <1>10, <2>2, <2>3, SamePlace DEF Ground, Serving
<1>11. CASE DepartToward
  <2> DEFINE n == decide_next_call(call_buttons, current_floor, current_direction)
  <2>1. /\ pc = "depart" /\ UNCHANGED <<call_buttons, current_floor, pos, prev_floor, floor_ch>>
        /\ n # 0 /\ Leave(call_buttons, hall_call_start_dir(call_buttons[n].floor, at))
    BY <1>11 DEF DepartToward
  <2> QED  BY <1>10, <2>1, DirectionType DEF TypeOK
<1>12. CASE ImmediateCall
  <2> DEFINE n == decide_next_call(call_buttons, current_floor, current_direction)
  <2>1. /\ n \in DOMAIN call_buttons /\ pc = "depart"
        /\ UNCHANGED <<current_floor, pos, prev_floor, floor_ch>>
    BY <1>12, NextCallFound DEF ImmediateCall, TypeOK
  <2>2. CASE call_buttons[n].call = CAB
    <3>1. call_buttons' = RemoveAt(call_buttons, n) /\ call_buttons' \in Seq(Calls)
          /\ Leave(call_buttons', DIRN_STOP)
      BY <1>12, <2>1, <2>2, RemoveAtWithin DEF ImmediateCall, TypeOK, Within
    <3> QED  BY <1>10, <2>1, <3>1, Values
  <2>3. CASE call_buttons[n].call # CAB
    <3>1. pc' = "completing_next" /\ UNCHANGED motor
      BY <1>12, <2>1, <2>3 DEF ImmediateCall
    <3>2. motor = DIRN_STOP
      BY <2>1 DEF Motion, Standing, Serving
    <3>3. Heading'
      BY <3>1 DEF Heading
    <3> QED  BY <2>1, <3>1, <3>2, <3>3, SamePlace DEF Ground, Serving
  <2> QED  BY <2>2, <2>3
<1>13. CASE RemoveNext
  <2>1. pc = "removing_next" /\ UNCHANGED <<current_floor, pos, prev_floor, floor_ch>>
    BY <1>13 DEF RemoveNext
  <2>2. CASE next_index \in DOMAIN call_buttons
    <3>1. call_buttons' = RemoveAt(call_buttons, next_index) /\ call_buttons' \in Seq(Calls)
          /\ Leave(call_buttons', DIRN_STOP)
      BY <1>13, <2>2, RemoveAtWithin DEF RemoveNext, TypeOK, Within
    <3> QED  BY <1>10, <2>1, <3>1, Values
  <2>3. CASE next_index \notin DOMAIN call_buttons
    <3>1. pc' = "panicked" /\ UNCHANGED motor
      BY <1>13, <2>3 DEF RemoveNext
    <3>2. motor = DIRN_STOP
      BY <2>1 DEF Motion, Standing, Serving
    <3>3. Heading'
      BY <3>1 DEF Heading
    <3> QED  BY <2>1, <3>1, <3>2, <3>3, SamePlace DEF Ground, Serving
  <2> QED  BY <2>2, <2>3
<1>14. CASE ReverseAfterPause
  <2>1. pc = "reversing" /\ pc' = "select" /\ motor' = new_dir
        /\ UNCHANGED <<call_buttons, current_floor, pos, prev_floor, floor_ch>>
    BY <1>14 DEF ReverseAfterPause, Drive
  <2>2. Heading'
    BY <2>1 DEF Motion, Heading, HasCallAhead
  <2> QED  BY <2>1, <2>2, SamePlace DEF Ground, Serving
<1>15. CASE OtherThreads \/ Crash
  <2>1. Limit["background"] = 0 /\ Limit["crash"] = 0 /\ {"background", "crash"} \subseteq Inputs
    BY DEF Limit, Inputs, NoBackground, NoCrash
  <2>2. ~ Spend("background") /\ ~ Spend("crash")
    BY <2>1, NeverSpent
  <2> QED  BY <1>15, <2>2 DEF OtherThreads, ReceiveHallCall, ReceiveCompleted, ReassignLost,
           Background, Crash
<1>16. CASE PressStop \/ ToggleLever \/ UNCHANGED vars \/ \E c \in Buttons : PressCall(c)
  <2>1. UNCHANGED <<call_buttons, current_floor, current_direction, pc, new_dir, pos, motor,
                    prev_floor, floor_ch>>
    BY <1>16 DEF PressStop, ToggleLever, PressCall, Outside, vars
  <2> QED  BY <2>1 DEF Motion, InShaft, Homing, Located, Standing, Heading, HasCallAhead
<1>17. CASE StartUp \/ Home \/ FloorSensor \/ MoveCar
  BY <1>17, StartUpKeepsMotion, HomeKeepsMotion, FloorSensorKeepsMotion, MoveKeepsMotion
<1> QED  BY <1>1, <1>2, <1>3, <1>4, <1>5, <1>6, <1>7, <1>8, <1>9, <1>11, <1>12, <1>13,
            <1>14, <1>15, <1>16, <1>17
         DEF Next, MainThread, SelectLoop, ServeSteps, Environment

(* Undisturbed by background handlers and crashes, and whether or not      *)
(* other elevators take its hall calls, the car is always where            *)
(* current_floor and the floor events on their way say.                    *)
LEMMA MotionCorrect ==
    ASSUME NoBackground, NoCrash
    PROVE  Spec => []Motion
<1>1. Init => Motion
  <2> SUFFICES ASSUME Init PROVE Motion
    OBVIOUS
  <2>1. InShaft /\ Homing /\ Located
    BY DEF Init, InShaft, Homing, Located, Ground
  <2>2. Standing /\ Heading
    BY DEF Init, Standing, Heading, Serving
  <2> QED  BY <2>1, <2>2 DEF Motion
<1>2. Init => TurnsWhenDone
  BY DEF Init, TurnsWhenDone, Serving
<1>3. TypeOK /\ TurnsWhenDone /\ [Next]_vars => TurnsWhenDone'
  <2>1. pc' = "start" => TurnsWhenDone'
    BY DEF TurnsWhenDone, Serving
  <2> QED  BY <2>1, TurnStep
<1>4. TypeOK /\ TurnsWhenDone /\ MotorFollowsDirection /\ Motion /\ [Next]_vars => Motion'
  BY MotionStep
<1> QED  BY <1>1, <1>2, <1>3, <1>4, TypeCorrect, MotorIsFollowed, PTL DEF Spec

(* The car stays between the bottom and the top floor: it is always        *)
(* stopped or turned round in time.                                        *)
THEOREM StaysInShaft ==
    ASSUME NoBackground, NoCrash
    PROVE  Spec => []InShaft
<1>1. Motion => InShaft
  BY DEF Motion
<1> QED  BY <1>1, MotionCorrect, PTL

(* A running car that has handled its floor events has a call to go to in  *)
(* the direction it runs (control.rs:107, :143, :245, system.rs:487).      *)
THEOREM AlwaysHeadingToCall ==
    ASSUME NoBackground, NoCrash
    PROVE  Spec => []HeadingToCall
<1>1. TypeOK /\ Motion => HeadingToCall
  <2> SUFFICES ASSUME TypeOK, Motion, pc = "select", floor_ch = <<>>, motor # DIRN_STOP
               PROVE  \E i \in DOMAIN call_buttons :
                         IF motor = DIRN_UP THEN 2 * call_buttons[i].floor > pos
                                            ELSE 2 * call_buttons[i].floor < pos
    BY DEF HeadingToCall
  <2>1. PICK i \in DOMAIN call_buttons : IsAhead(call_buttons[i].floor, current_floor, motor)
    BY DEF Motion, Heading, HasCallAhead, is_more_request_in_dir, CallsAhead
  <2>2. pos \in (2 * current_floor - 1)..(2 * current_floor + 1) /\ current_floor \in Int
    BY NumFloorsAssumption DEF Motion, Located, Ground, TypeOK, Floors
  <2>3. call_buttons[i].floor \in Int
    <3>1. call_buttons[i] \in Calls
      BY LenProperties, ElementOfSeq DEF TypeOK
    <3>2. \A c \in Calls : c.floor \in Floors
      BY Values
    <3> QED  BY <3>1, <3>2, NumFloorsAssumption DEF Floors
  <2>4. IF motor = DIRN_UP THEN 2 * call_buttons[i].floor > pos
                           ELSE 2 * call_buttons[i].floor < pos
    BY <2>1, <2>2, <2>3 DEF IsAhead, DIRN_UP, DIRN_DOWN
  <2> QED  BY <2>4
<1> QED  BY <1>1, TypeCorrect, MotionCorrect, PTL

-----------------------------------------------------------------------------
(* The position kept over the release of the mutex.                        *)

(* Between the search for the next call and its removal the position kept  *)
(* in next_index is the position of that call.                             *)
NextKnown ==
    pc \in {"completing_next", "removing_next"} =>
        /\ next_index \in DOMAIN call_buttons
        /\ call_buttons[next_index] = [floor |-> at, call |-> next_type]

(* Pushing leaves every call where it is.                                  *)
LEMMA EnqueueKeepsPosition ==
    ASSUME NEW q \in Seq(Calls), NEW c \in Calls, NEW i \in DOMAIN q
    PROVE  i \in DOMAIN Enqueue(q, c) /\ Enqueue(q, c)[i] = q[i]
<1>1. CASE Contains(q, c)
  BY <1>1 DEF Enqueue
<1>2. CASE ~ Contains(q, c)
  <2>1. DOMAIN q = 1..Len(q) /\ Len(q) \in Nat
    BY LenProperties
  <2>2. /\ Append(q, c) \in Seq(Calls) /\ Len(Append(q, c)) = Len(q) + 1
        /\ \A j \in 1..Len(q) : Append(q, c)[j] = q[j]
    BY AppendProperties
  <2>3. DOMAIN Append(q, c) = 1..(Len(q) + 1)
    BY <2>2, LenProperties
  <2> QED  BY <1>2, <2>1, <2>2, <2>3 DEF Enqueue
<1> QED  BY <1>1, <1>2

LEMMA NextKnownStep ==
    ASSUME TypeOK, NextKnown, [Next]_vars, ~ HasPeers \/ NoBackground
    PROVE  NextKnown'
<1> USE DEF elevator, locals, NextKnown
<1>1. CASE StartUp \/ Home \/ SelectLoop
  BY <1>1 DEF StartUp, Home, SelectLoop, CabButton, HallButton, FloorSensor,
     StopButton, StopDoorCloses, StopReassign, Obstruction, ObstructionReassign
<1>2. CASE ServeNothing \/ ServeCall \/ CompleteServed \/ DoorWait \/ DepartIdle
  BY <1>2 DEF ServeNothing, ServeCall, OpenDoor, CompleteServed, DoorWait, DepartIdle
<1>3. ASSUME NEW q, NEW d, Leave(q, d) PROVE NextKnown'
  BY <1>3 DEF Leave, Drive
<1>4. CASE DepartToward \/ RemoveNext \/ ReverseAfterPause
  BY <1>3, <1>4 DEF DepartToward, RemoveNext, ReverseAfterPause, Drive
<1>5. CASE ImmediateCall
  <2> DEFINE n == decide_next_call(call_buttons, current_floor, current_direction)
             c == call_buttons[n]
             i == find_call_button_index(call_buttons, c)
  <2>1. n \in DOMAIN call_buttons /\ c \in Calls /\ Contains(call_buttons, c)
    BY <1>5, NextCallFound, LenProperties, ElementOfSeq DEF ImmediateCall, TypeOK, Contains
  <2>2. i \in DOMAIN call_buttons /\ call_buttons[i] = c
    BY <2>1, IndexFound DEF TypeOK
  <2>3. c = [floor |-> c.floor, call |-> c.call]
    BY <2>1 DEF Calls
  <2>4. \/ Leave(call_buttons', DIRN_STOP)
        \/ /\ next_index' = i /\ next_type' = c.call /\ c.floor = at
           /\ UNCHANGED <<call_buttons, at>>
    BY <1>5 DEF ImmediateCall
  <2> HIDE DEF i, c
  <2> QED  BY <1>3, <2>2, <2>3, <2>4
<1>6. CASE CompleteNext
  BY <1>6 DEF CompleteNext
<1>7. ASSUME NEW c \in Buttons \cap HallCalls,
             ReceiveHallCall(c) \/ ReceiveCompleted(c) \/ ReassignLost(c)
      PROVE  NextKnown'
  <2>1. Limit["background"] = MaxBackground /\ "background" \in Inputs
    BY DEF Limit, Inputs
  <2>2. ~ NoBackground
    BY <1>7, <2>1, NeverSpent DEF NoBackground, ReceiveHallCall, ReceiveCompleted,
       ReassignLost, Background
  <2>3. /\ call_buttons' \in {call_buttons, Enqueue(call_buttons, c)}
        /\ UNCHANGED <<pc, at, next_index, next_type>>
    BY <1>7, <2>2 DEF ReceiveHallCall, ReceiveCompleted, ReassignLost, Background, assign_hall_call
  <2> QED  BY <2>3, Values, EnqueueKeepsPosition DEF TypeOK
<1>8. CASE Environment
  BY <1>8 DEF Environment, PressCall, PressStop, ToggleLever, MoveCar, Crash, Outside
<1>9. CASE UNCHANGED vars
  BY <1>9 DEF vars
<1> QED  BY <1>1, <1>2, <1>4, <1>5, <1>6, <1>7, <1>8, <1>9
         DEF Next, MainThread, ServeSteps, OtherThreads

LEMMA NextAlwaysKnown ==
    ASSUME ~ HasPeers \/ NoBackground
    PROVE  Spec => []NextKnown
<1>1. Init => NextKnown
  BY DEF Init, NextKnown
<1>2. TypeOK /\ NextKnown /\ [Next]_vars => NextKnown'
  BY NextKnownStep
<1> QED  BY <1>1, <1>2, TypeCorrect, PTL DEF Spec

(* The position control.rs:211 unwraps is still the call's when            *)
(* control.rs:221 removes it, as long as no other elevator sends messages: *)
(* the health monitor alone only appends to the queue.  With messages it   *)
(* is not (run "stale_position").                                          *)
THEOREM NextIndexIsRight ==
    ASSUME ~ HasPeers \/ NoBackground
    PROVE  Spec => []NextIndexIsNextCall
<1>1. NextKnown => NextIndexIsNextCall
  BY DEF NextKnown, NextIndexIsNextCall
<1> QED  BY <1>1, NextAlwaysKnown, PTL

-----------------------------------------------------------------------------
(* Where calls leave the queue, and the door.                              *)

(* A call of the queue that is not in it any more.                         *)
Leaves(c) == Contains(call_buttons, c) /\ ~ Contains(call_buttons', c)

LEMMA LeavesWhereServed ==
    ASSUME TypeOK, TurnsWhenDone, Motion, NextKnown, [Next]_vars,
           NoBackground, NoCrash, NEW c \in Calls, Leaves(c)
    PROVE  \/ stop_ch' # stop_ch
           \/ pos = 2 * c.floor /\ DIRN_STOP \in {motor, motor'}
<1> USE DEF elevator
<1>1. call_buttons' # call_buttons
  BY DEF Leaves
<1>2. \A d \in Calls : call_buttons' # Enqueue(call_buttons, d)
  BY EnqueueProperties DEF Leaves, TypeOK
<1>3. CASE StartUp \/ Home \/ FloorSensor \/ StopDoorCloses \/ Obstruction
  BY <1>1, <1>3 DEF StartUp, Home, FloorSensor, StopDoorCloses, Obstruction
<1>4. CASE CabButton \/ HallButton \/ StopReassign \/ ObstructionReassign
  <2>1. call_ch # <<>> => Head(call_ch) \in Calls
    BY HeadTailProperties DEF TypeOK
  <2>2. todo \subseteq Calls
    BY DEF TypeOK, HallCalls
  <2> QED  BY <1>1, <1>2, <1>4, <2>1, <2>2 DEF CabButton, HallButton, StopReassign,
           ObstructionReassign, assign_hall_call
<1>5. CASE StopButton
  BY <1>5 DEF StopButton, TypeOK
<1>6. CASE ServeNothing \/ CompleteServed \/ DoorWait \/ DepartIdle \/ DepartToward
           \/ CompleteNext \/ ReverseAfterPause
  BY <1>1, <1>6 DEF ServeNothing, CompleteServed, DoorWait, DepartIdle, DepartToward,
     CompleteNext, ReverseAfterPause
<1>7. CASE ServeCall
  <2> DEFINE i    == serving_call(call_buttons, current_floor, at, current_direction)
             cab  == [floor |-> at, call |-> CAB]
             rest == RemoveAt(call_buttons, i)
  <2>1. i \in DOMAIN call_buttons /\ call_buttons[i].floor = at /\ cab \in Calls
    BY <1>7, ServingCallFound, Values DEF ServeCall, TypeOK
  <2>2. rest \in Seq(Calls) /\ call_buttons' = RemoveCall(rest, cab) /\ motor' = DIRN_STOP
    BY <1>7, <2>1, RemoveAtWithin DEF ServeCall, TypeOK, Within
  <2>3. pos = 2 * at
    BY <1>7 DEF ServeCall, TurnsWhenDone, Motion, Standing, Serving
  <2>4. c = call_buttons[i] \/ c = cab
    BY <2>1, <2>2, RemoveAtKeeps, RemoveCallKeeps DEF Leaves, TypeOK
  <2> QED  BY <2>1, <2>2, <2>3, <2>4
<1>8. ASSUME pc \in {"depart", "removing_next"}, NEW n \in DOMAIN call_buttons,
             call_buttons[n].floor = at, call_buttons' = RemoveAt(call_buttons, n)
      PROVE  pos = 2 * c.floor /\ DIRN_STOP \in {motor, motor'}
  <2>1. pos = 2 * at /\ motor = DIRN_STOP
    BY <1>8 DEF TurnsWhenDone, Motion, Standing, Serving
  <2>2. c = call_buttons[n]
    BY <1>8, RemoveAtKeeps DEF Leaves, TypeOK
  <2> QED  BY <1>8, <2>1, <2>2
<1>9. CASE ImmediateCall
  BY <1>1, <1>8, <1>9, NextCallFound DEF ImmediateCall, TypeOK
<1>10. CASE RemoveNext
  BY <1>8, <1>10 DEF RemoveNext, NextKnown
<1>11. CASE OtherThreads \/ Crash
  <2>1. Limit["background"] = 0 /\ Limit["crash"] = 0 /\ {"background", "crash"} \subseteq Inputs
    BY DEF Limit, Inputs, NoBackground, NoCrash
  <2>2. ~ Spend("background") /\ ~ Spend("crash")
    BY <2>1, NeverSpent
  <2> QED  BY <1>11, <2>2 DEF OtherThreads, ReceiveHallCall, ReceiveCompleted, ReassignLost,
           Background, Crash
<1>12. CASE PressStop \/ ToggleLever \/ MoveCar \/ UNCHANGED vars \/ \E b \in Buttons : PressCall(b)
  BY <1>1, <1>12 DEF PressStop, ToggleLever, MoveCar, PressCall, Outside, vars
<1> QED  BY <1>3, <1>4, <1>5, <1>6, <1>7, <1>9, <1>10, <1>11, <1>12
         DEF Next, MainThread, SelectLoop, ServeSteps, Environment

(* Short of the stop button, a call leaves the queue only when the car     *)
(* stands at its floor (control.rs:103, :131, :221, main.rs:290).          *)
THEOREM LeavesAtItsFloor ==
    ASSUME NoBackground, NoCrash
    PROVE  Spec => ServedAtItsFloor
<1> DEFINE Served == \A c \in Panel : Contains(call_buttons, c) /\ ~ Contains(call_buttons', c) =>
                        \/ stop_ch' # stop_ch
                        \/ pos = 2 * c.floor /\ DIRN_STOP \in {motor, motor'}
<1>1. Init => TurnsWhenDone
  BY DEF Init, TurnsWhenDone, Serving
<1>2. TypeOK /\ TurnsWhenDone /\ [Next]_vars => TurnsWhenDone'
  <2>1. pc' = "start" => TurnsWhenDone'
    BY DEF TurnsWhenDone, Serving
  <2> QED  BY <2>1, TurnStep
<1>3. TypeOK /\ TurnsWhenDone /\ Motion /\ NextKnown /\ [Next]_vars => [Served]_vars
  BY LeavesWhereServed DEF Leaves, Panel
<1>4. ServedAtItsFloor <=> [][Served]_vars
  BY PTL DEF ServedAtItsFloor
<1>5. ~ HasPeers \/ NoBackground
  OBVIOUS
<1>6. Spec => []NextKnown
  BY <1>5, NextAlwaysKnown
<1> QED  BY <1>1, <1>2, <1>3, <1>4, <1>6, TypeCorrect, MotionCorrect, PTL DEF Spec

-----------------------------------------------------------------------------
(* Lamps and owners, without other elevators.                              *)

(* Nobody else owns a hall call; before the car is homed nobody owns one.  *)
Sole ==
    /\ \A c \in HallCalls : assigned_to[c] \in {"none", "self"}
    /\ pc \in Ground => \A c \in HallCalls : assigned_to[c] = "none"
    /\ pc \in {"stop_door", "stop_reassign"} => todo \subseteq Mine

LEMMA SoleStep ==
    ASSUME TypeOK, Sole, [Next]_vars, ~ HasPeers
    PROVE  Sole'
<1> USE DEF locals, Sole, Ground, Mine
<1>0. Winners = {"self"}
  BY DEF Winners
<1>1. ASSUME NEW c \in HallCalls, NEW owner, NEW lit,
             assign_hall_call(c, owner, "self", lit), owner \in {"none", "self", "unassigned"}
      PROVE  assigned_to' = [assigned_to EXCEPT ![c] = "self"]
  BY <1>1 DEF assign_hall_call
<1>2. ASSUME UNCHANGED assigned_to, pc' \in Ground => pc \in Ground,
             pc' \in {"stop_door", "stop_reassign"} =>
                 \/ pc \in {"stop_door", "stop_reassign"} /\ UNCHANGED todo
                 \/ todo' = Mine
      PROVE  Sole'
  BY <1>2
<1>3. ASSUME NEW c \in HallCalls, assigned_to' = [assigned_to EXCEPT ![c] = "none"],
             pc' \notin Ground \cup {"stop_door", "stop_reassign"}
      PROVE  Sole'
  BY <1>3 DEF TypeOK
<1>4. ASSUME NEW c \in HallCalls, assigned_to' = [assigned_to EXCEPT ![c] = "self"],
             pc' \notin Ground,
             pc' \in {"stop_door", "stop_reassign"} =>
                 pc \in {"stop_door", "stop_reassign"} /\ todo' \subseteq todo
      PROVE  Sole'
  BY <1>4 DEF TypeOK
<1>5. CASE StartUp \/ Home \/ CabButton \/ FloorSensor \/ StopButton \/ StopDoorCloses
           \/ Obstruction
  BY <1>2, <1>5 DEF StartUp, Home, CabButton, FloorSensor, StopButton, StopDoorCloses,
     Obstruction
<1>6. CASE HallButton
  <2>1. Head(call_ch) \in HallCalls
    BY <1>6, HeadTailProperties DEF HallButton, TypeOK, HallCalls
  <2> QED  BY <1>0, <1>1, <1>4, <1>6, <2>1 DEF HallButton
<1>7. CASE StopReassign \/ ObstructionReassign
  <2>1. CASE UNCHANGED <<assigned_to, todo>> /\ pc' = "select"
    BY <1>2, <2>1
  <2>2. ASSUME NEW c \in todo, NEW owner \in {"none", "self", "unassigned"},
               assign_hall_call(c, owner, "self", lamps), todo' = todo \ {c}, UNCHANGED pc
        PROVE  Sole'
    <3>1. c \in HallCalls /\ pc \notin Ground
      BY <1>7 DEF TypeOK, StopReassign, ObstructionReassign
    <3> QED  BY <1>1, <1>4, <2>2, <3>1
  <2>3. \A c \in todo : assigned_to[c] \in {"none", "self", "unassigned"}
    BY DEF TypeOK
  <2> QED  BY <1>0, <1>7, <2>1, <2>2, <2>3 DEF StopReassign, ObstructionReassign
<1>8. CASE ServeNothing \/ ServeCall \/ DoorWait \/ DepartIdle
  BY <1>2, <1>8 DEF ServeNothing, ServeCall, OpenDoor, DoorWait, DepartIdle
<1>9. CASE CompleteServed \/ CompleteNext
  <2> DEFINE c == [floor |-> at, call |-> next_type]
  <2>1. /\ assigned_to' = [assigned_to EXCEPT ![c] = "none"]
        /\ pc' \notin Ground \cup {"stop_door", "stop_reassign"}
    BY <1>9 DEF CompleteServed, CompleteNext, complete_call, OpenDoor
  <2>2. CASE c \in HallCalls
    BY <1>3, <2>1, <2>2
  <2>3. CASE c \notin HallCalls
    <3>1. assigned_to' = assigned_to
      BY <2>1, <2>3 DEF TypeOK
    <3> QED  BY <1>2, <2>1, <3>1
  <2> QED  BY <2>2, <2>3
<1>10. ASSUME NEW q, NEW d, Leave(q, d) PROVE pc' \in {"reversing", "select"}
  BY <1>10 DEF Leave, Drive
<1>11. CASE DepartToward \/ ImmediateCall \/ RemoveNext \/ ReverseAfterPause
  <2>1. pc' \in {"reversing", "select", "completing_next", "panicked"}
    BY <1>10, <1>11 DEF DepartToward, ImmediateCall, RemoveNext, ReverseAfterPause, Drive
  <2> QED  BY <1>2, <1>11, <2>1 DEF DepartToward, ImmediateCall, RemoveNext, ReverseAfterPause
<1>12. ASSUME NEW c \in Buttons \cap HallCalls, ReassignLost(c)
       PROVE  Sole'
  <2>1. assign_hall_call(c, "unassigned", "self", lamps) /\ UNCHANGED <<pc, todo>>
    BY <1>0, <1>12 DEF ReassignLost, Background
  <2>2. pc \notin Ground
    BY <1>12 DEF ReassignLost
  <2> QED  BY <1>1, <1>4, <2>1, <2>2
<1>13. ASSUME NEW c \in Buttons \cap HallCalls, ReceiveHallCall(c) \/ ReceiveCompleted(c)
       PROVE  Sole'
  BY <1>13 DEF ReceiveHallCall, ReceiveCompleted
<1>14. CASE PressStop \/ ToggleLever \/ MoveCar \/ UNCHANGED vars \/ \E b \in Buttons : PressCall(b)
  BY <1>2, <1>14 DEF PressStop, ToggleLever, MoveCar, PressCall, Outside, vars
<1>15. CASE Crash
  BY <1>15 DEF Crash
<1> QED  BY <1>5, <1>6, <1>7, <1>8, <1>9, <1>11, <1>12, <1>13, <1>14, <1>15
         DEF Next, MainThread, SelectLoop, ServeSteps, OtherThreads, Environment

LEMMA SoleCorrect ==
    ASSUME ~ HasPeers
    PROVE  Spec => []Sole
<1>1. Init => Sole
  BY DEF Init, Sole, Ground
<1>2. TypeOK /\ Sole /\ [Next]_vars => Sole'
  BY SoleStep
<1> QED  BY <1>1, <1>2, TypeCorrect, PTL DEF Spec

(* The lit lamps are the calls of the queue.  Before the car is homed it   *)
(* has no calls.                                                           *)
Lit ==
    /\ \A c \in Calls : c \in lamps <=> Contains(call_buttons, c)
    /\ pc \in Ground => call_buttons = <<>>

LEMMA LitStep ==
    ASSUME TypeOK, NoDuplicateCalls, NextKnown, Sole, Lit, [Next]_vars,
           ~ HasPeers, NoCrash
    PROVE  Lit'
<1> USE DEF elevator, hardware, Ground
<1>0. Winners = {"self"} /\ Distinct(call_buttons) /\ call_buttons \in Seq(Calls)
  BY DEF Winners, NoDuplicateCalls, TypeOK
<1>1. ASSUME UNCHANGED <<call_buttons, lamps>>, pc' \in Ground => pc \in Ground
      PROVE  Lit'
  BY <1>1 DEF Lit
<1>2. ASSUME NEW c \in Calls, call_buttons' = Enqueue(call_buttons, c),
             lamps' = lamps \cup {c}, pc' \notin Ground
      PROVE  Lit'
  BY <1>0, <1>2, EnqueueProperties DEF Lit
<1>3. ASSUME NEW n \in DOMAIN call_buttons, call_buttons' = RemoveAt(call_buttons, n),
             lamps' = lamps \ {call_buttons[n]}, pc' \notin Ground
      PROVE  Lit'
  <2>1. \A c \in Calls : Contains(call_buttons', c) <=>
                            Contains(call_buttons, c) /\ c # call_buttons[n]
    BY <1>0, <1>3, RemoveAtKeeps, RemoveAtRemoves, RemoveAtWithin DEF Within
  <2> QED  BY <1>3, <2>1 DEF Lit
<1>4. CASE StartUp
  <2>1. lamps = {}
    BY <1>4, EmptySeq DEF StartUp, Lit, Contains, TypeOK
  <2> QED  BY <1>1, <1>4, <2>1 DEF StartUp
<1>5. CASE Home \/ FloorSensor \/ StopDoorCloses \/ Obstruction
  BY <1>1, <1>5 DEF Home, FloorSensor, StopDoorCloses, Obstruction
<1>6. CASE CabButton
  <2>1. Head(call_ch) \in Calls
    BY <1>6, HeadTailProperties DEF CabButton, TypeOK
  <2> QED  BY <1>2, <1>6, <2>1 DEF CabButton
<1>7. ASSUME NEW c \in HallCalls, NEW lit \in {lamps, lamps \cup {c}}, pc' \notin Ground,
             assign_hall_call(c, "unassigned", "self", lit)
      PROVE  Lit'
  <2>1. c \in Calls /\ call_buttons' = Enqueue(call_buttons, c) /\ lamps' = lamps \cup {c}
    BY <1>7 DEF assign_hall_call, HallCalls
  <2> QED  BY <1>2, <1>7, <2>1
<1>8. CASE HallButton
  <2>1. Head(call_ch) \in HallCalls
    BY <1>8, HeadTailProperties DEF HallButton, TypeOK, HallCalls
  <2> QED  BY <1>0, <1>7, <1>8, <2>1 DEF HallButton
<1>9. CASE StopButton
  <2>1. call_buttons' = <<>> /\ lamps' = {} /\ pc' \notin Ground
    BY <1>9 DEF StopButton, Halt
  <2> QED  BY <2>1, EmptySeq DEF Lit, Contains
<1>10. CASE StopReassign
  <2>1. \A c \in todo : assigned_to[c] = "self"
    BY <1>10 DEF StopReassign, Sole, Mine
  <2>2. UNCHANGED <<call_buttons, lamps>> /\ pc' \notin Ground
    BY <1>10, <2>1 DEF StopReassign, assign_hall_call
  <2> QED  BY <1>1, <2>2
<1>11. CASE ObstructionReassign
  <2>1. todo \subseteq HallCalls
    BY DEF TypeOK
  <2>2. CASE UNCHANGED <<call_buttons, lamps>> /\ pc' = "select"
    BY <1>1, <2>2
  <2>3. CASE \E c \in todo : assign_hall_call(c, "unassigned", "self", lamps) /\ UNCHANGED pc
    BY <1>7, <1>11, <2>1, <2>3 DEF ObstructionReassign
  <2> QED  BY <1>0, <1>11, <2>2, <2>3 DEF ObstructionReassign
<1>12. CASE ServeNothing \/ CompleteServed \/ DoorWait \/ DepartIdle \/ CompleteNext
  BY <1>1, <1>12 DEF ServeNothing, CompleteServed, OpenDoor, DoorWait, DepartIdle, CompleteNext
<1>13. CASE ServeCall
  <2> DEFINE i    == serving_call(call_buttons, current_floor, at, current_direction)
             cab  == [floor |-> at, call |-> CAB]
             rest == RemoveAt(call_buttons, i)
  <2>1. i \in DOMAIN call_buttons /\ cab \in Calls
    BY <1>13, ServingCallFound, Values DEF ServeCall, TypeOK
  <2>2. /\ call_buttons' = RemoveCall(rest, cab) /\ pc' \notin Ground
        /\ lamps' = lamps \ ({call_buttons[i]} \cup (IF Contains(rest, cab) THEN {cab} ELSE {}))
    BY <1>13 DEF ServeCall, OpenDoor
  <2>3. rest \in Seq(Calls) /\ Distinct(rest)
    BY <1>0, <2>1, RemoveAtWithin DEF Within
  <2>4. \A c \in Calls : Contains(rest, c) <=> Contains(call_buttons, c) /\ c # call_buttons[i]
    BY <1>0, <2>1, RemoveAtKeeps, RemoveAtRemoves, RemoveAtWithin DEF Within
  <2> HIDE DEF rest, i, cab
  <2>5. \A c \in Calls : Contains(RemoveCall(rest, cab), c) <=> Contains(rest, c) /\ c # cab
    BY <2>1, <2>3, RemoveCallKeeps, RemoveCallRemoves, RemoveCallWithin DEF Within
  <2>6. \A c \in Calls : c \in lamps' <=> Contains(call_buttons', c)
    BY <2>1, <2>2, <2>4, <2>5 DEF Lit
  <2> QED  BY <2>2, <2>6 DEF Lit
<1>14. ASSUME NEW q, NEW d, Leave(q, d) PROVE pc' \in {"reversing", "select"}
  BY <1>14 DEF Leave, Drive
<1>15. CASE DepartToward \/ ReverseAfterPause
  BY <1>1, <1>14, <1>15 DEF DepartToward, ReverseAfterPause, Drive
<1>16. CASE ImmediateCall
  <2> DEFINE n == decide_next_call(call_buttons, current_floor, current_direction)
  <2>1. n \in DOMAIN call_buttons
    BY <1>0, <1>16, NextCallFound DEF ImmediateCall
  <2>2. \/ /\ call_buttons' = RemoveAt(call_buttons, n) /\ lamps' = lamps \ {call_buttons[n]}
           /\ Leave(call_buttons', DIRN_STOP)
        \/ UNCHANGED <<call_buttons, lamps>> /\ pc' = "completing_next"
    BY <1>16 DEF ImmediateCall
  <2> QED  BY <1>1, <1>3, <1>14, <2>1, <2>2
<1>17. CASE RemoveNext
  <2>1. /\ next_index \in DOMAIN call_buttons
        /\ call_buttons[next_index] = [floor |-> at, call |-> next_type]
    BY <1>17 DEF RemoveNext, NextKnown
  <2>2. /\ call_buttons' = RemoveAt(call_buttons, next_index)
        /\ lamps' = lamps \ {call_buttons[next_index]}
        /\ Leave(call_buttons', DIRN_STOP)
    BY <1>17, <2>1 DEF RemoveNext
  <2> QED  BY <1>3, <1>14, <2>1, <2>2
<1>18. ASSUME NEW c \in Buttons \cap HallCalls, ReassignLost(c)
       PROVE  Lit'
  <2>1. assign_hall_call(c, "unassigned", "self", lamps) /\ UNCHANGED pc
    BY <1>0, <1>18 DEF ReassignLost, Background
  <2>2. pc \notin Ground
    BY <1>18 DEF ReassignLost, Sole
  <2> QED  BY <1>7, <2>1, <2>2
<1>19. ASSUME NEW c \in Buttons \cap HallCalls, ReceiveHallCall(c) \/ ReceiveCompleted(c)
       PROVE  Lit'
  BY <1>19 DEF ReceiveHallCall, ReceiveCompleted
<1>20. CASE PressStop \/ ToggleLever \/ MoveCar \/ UNCHANGED vars \/ \E b \in Buttons : PressCall(b)
  BY <1>1, <1>20 DEF PressStop, ToggleLever, MoveCar, PressCall, Outside, vars
<1>21. CASE Crash
  <2>1. Limit["crash"] = 0 /\ "crash" \in Inputs
    BY DEF Limit, Inputs, NoCrash
  <2> QED  BY <1>21, <2>1, NeverSpent DEF Crash
<1> QED  BY <1>4, <1>5, <1>6, <1>8, <1>9, <1>10, <1>11, <1>12, <1>13, <1>15, <1>16, <1>17,
            <1>18, <1>19, <1>20, <1>21
         DEF Next, MainThread, SelectLoop, ServeSteps, OtherThreads, Environment

(* The lit buttons are the calls of the queue, through every button, stop, *)
(* obstruction and reassignment by the health monitor.  A restart, which   *)
(* forgets the lamps of the calls it reads back, and messages of others,   *)
(* which light lamps of calls this car does not serve, break it.           *)
THEOREM LampsAreRight ==
    ASSUME ~ HasPeers, NoCrash
    PROVE  Spec => []LampsShowCalls
<1>1. Init => Lit
  BY EmptySeq DEF Init, Lit, Contains
<1>2. TypeOK /\ NoDuplicateCalls /\ NextKnown /\ Sole /\ Lit /\ [Next]_vars => Lit'
  BY LitStep
<1>3. Lit => LampsShowCalls
  BY DEF Lit, LampsShowCalls, Panel
<1>4. ~ HasPeers \/ NoBackground
  OBVIOUS
<1>5. Spec => []NextKnown
  BY <1>4, NextAlwaysKnown
<1> QED  BY <1>1, <1>2, <1>3, <1>5, TypeCorrect, NoDuplicates, SoleCorrect, PTL DEF Spec

-----------------------------------------------------------------------------
(* Owned calls, without other elevators.                                   *)

(* An owned hall call is queued, or the one being completed.               *)
Kept ==
    /\ \A c \in Mine : \/ Contains(call_buttons, c)
                       \/ pc = "completing" /\ c = [floor |-> at, call |-> next_type]
    /\ pc = "removing_next" => [floor |-> at, call |-> next_type] \notin Mine
    /\ stop_ch = 0 /\ pc \notin {"stop_door", "stop_reassign"}

LEMMA KeptStep ==
    ASSUME TypeOK, NextKnown, Sole, Kept, [Next]_vars, ~ HasPeers, ~ Spend("stop")
    PROVE  Kept'
<1> USE DEF elevator, locals, channels, Mine
<1>0. Winners = {"self"} /\ call_buttons \in Seq(Calls) /\ Mine \subseteq Calls
  BY DEF Winners, TypeOK, HallCalls
<1>1. ASSUME UNCHANGED <<call_buttons, assigned_to, stop_ch>>,
             pc # "completing", pc' \notin {"removing_next", "stop_door", "stop_reassign"}
      PROVE  Kept'
  BY <1>1 DEF Kept
<1>2. ASSUME NEW c \in Calls, call_buttons' = Enqueue(call_buttons, c),
             \/ UNCHANGED assigned_to
             \/ c \in HallCalls /\ assigned_to' = [assigned_to EXCEPT ![c] = "self"],
             UNCHANGED <<at, next_type, stop_ch>>,
             pc' = pc, pc = "removing_next" => assigned_to[c] = "self"
      PROVE  Kept'
  <2>1. \A d \in Mine' : d \in Mine \/ d = c
    BY <1>2 DEF TypeOK
  <2>2. \A d \in Calls : Contains(call_buttons', d) <=> d = c \/ Contains(call_buttons, d)
    BY <1>0, <1>2, EnqueueProperties
  <2>3. pc = "removing_next" => [floor |-> at, call |-> next_type] # c \/ c \notin HallCalls
    BY <1>2 DEF Kept
  <2>4. \A d \in Mine' : \/ Contains(call_buttons', d)
                         \/ pc = "completing" /\ d = [floor |-> at, call |-> next_type]
    BY <1>0, <2>1, <2>2, <1>2 DEF Kept
  <2> QED  BY <1>2, <2>1, <2>3, <2>4 DEF Kept
<1>3. ASSUME pc \notin {"completing"}, NEW n \in DOMAIN call_buttons,
             call_buttons' = RemoveAt(call_buttons, n), call_buttons[n] \notin Mine,
             UNCHANGED <<assigned_to, stop_ch>>, pc' \in {"select", "reversing"}
      PROVE  Kept'
  BY <1>0, <1>3, RemoveAtKeeps DEF Kept
<1>4. ASSUME UNCHANGED <<call_buttons, assigned_to, stop_ch, pc, at, next_type>>
      PROVE  Kept'
  BY <1>4 DEF Kept
<1>5. CASE StartUp \/ Home \/ FloorSensor \/ Obstruction
  BY <1>1, <1>5 DEF StartUp, Home, FloorSensor, Obstruction
<1>6. CASE CabButton
  <2>1. Head(call_ch) \in Calls
    BY <1>6, HeadTailProperties DEF CabButton, TypeOK
  <2> QED  BY <1>2, <1>6, <2>1 DEF CabButton
<1>7. ASSUME NEW c \in HallCalls, NEW lit, assign_hall_call(c, "unassigned", "self", lit),
             UNCHANGED <<at, next_type, stop_ch, pc>>,
             pc = "removing_next" => assigned_to[c] = "self"
      PROVE  Kept'
  <2>1. /\ c \in Calls /\ call_buttons' = Enqueue(call_buttons, c)
        /\ assigned_to' = [assigned_to EXCEPT ![c] = "self"]
    BY <1>7 DEF assign_hall_call, HallCalls
  <2> QED  BY <1>2, <1>7, <2>1
<1>8. CASE HallButton
  <2>1. Head(call_ch) \in HallCalls
    BY <1>8, HeadTailProperties DEF HallButton, TypeOK, HallCalls
  <2> QED  BY <1>0, <1>7, <1>8, <2>1 DEF HallButton
<1>9. CASE StopButton \/ StopDoorCloses \/ StopReassign
  BY <1>9 DEF Kept, StopButton, StopDoorCloses, StopReassign
<1>10. CASE ObstructionReassign
  <2>1. todo \subseteq HallCalls
    BY DEF TypeOK
  <2>2. CASE UNCHANGED <<call_buttons, assigned_to>> /\ pc' = "select"
    BY <1>1, <1>10, <2>2 DEF ObstructionReassign
  <2>3. CASE \E c \in todo : assign_hall_call(c, "unassigned", "self", lamps) /\ UNCHANGED pc
    BY <1>7, <1>10, <2>1, <2>3 DEF ObstructionReassign
  <2> QED  BY <1>0, <1>10, <2>2, <2>3 DEF ObstructionReassign
<1>11. CASE ServeNothing \/ DoorWait \/ DepartIdle
  BY <1>1, <1>11 DEF ServeNothing, DoorWait, DepartIdle
<1>12. CASE ServeCall
  <2> DEFINE i    == serving_call(call_buttons, current_floor, at, current_direction)
             c    == call_buttons[i]
             cab  == [floor |-> at, call |-> CAB]
             rest == RemoveAt(call_buttons, i)
  <2>1. i \in DOMAIN call_buttons /\ cab \in Calls /\ c \in Calls /\ c.floor = at
    BY <1>12, ServingCallFound, Values, LenProperties, ElementOfSeq DEF ServeCall, TypeOK
  <2>2. /\ call_buttons' = RemoveCall(rest, cab) /\ pc = "serve"
        /\ pc' \in {"completing", "select", "door_wait"}
        /\ c.call # CAB => pc' = "completing" /\ next_type' = c.call /\ at' = at
        /\ UNCHANGED <<assigned_to, stop_ch>>
    BY <1>12 DEF ServeCall, OpenDoor
  <2>3. rest \in Seq(Calls)
    BY <1>0, <2>1, RemoveAtWithin DEF Within
  <2>4. \A d \in Calls : Contains(call_buttons, d) => d = c \/ Contains(rest, d)
    BY <1>0, <2>1, RemoveAtKeeps
  <2> HIDE DEF rest
  <2>5. \A d \in Calls : Contains(rest, d) => d = cab \/ Contains(RemoveCall(rest, cab), d)
    BY <2>1, <2>3, RemoveCallKeeps
  <2>6. c = [floor |-> at, call |-> c.call] /\ cab \notin HallCalls
    BY <2>1 DEF Calls, HallCalls
  <2>7. c \in HallCalls => c.call # CAB
    BY DEF HallCalls
  <2> HIDE DEF c, cab, i
  <2>8. ASSUME NEW d \in Mine'
        PROVE  \/ Contains(call_buttons', d)
               \/ pc' = "completing" /\ d = [floor |-> at', call |-> next_type']
    <3>1. d \in Calls /\ d \in HallCalls /\ Contains(call_buttons, d)
      BY <1>0, <2>2, <2>8 DEF Kept
    <3> QED  BY <2>2, <2>4, <2>5, <2>6, <2>7, <3>1
  <2> QED  BY <2>2, <2>8 DEF Kept
<1>13. CASE CompleteServed \/ CompleteNext
  <2> DEFINE c == [floor |-> at, call |-> next_type]
  <2>1. /\ assigned_to' = [assigned_to EXCEPT ![c] = "none"]
        /\ UNCHANGED <<call_buttons, stop_ch>>
        /\ \/ pc' \in {"select", "door_wait"}
           \/ pc = "completing_next" /\ pc' = "removing_next" /\ UNCHANGED <<at, next_type>>
    BY <1>13 DEF CompleteServed, CompleteNext, complete_call, OpenDoor
  <2>2. Mine' = Mine \ {c}
    BY <2>1 DEF TypeOK
  <2> QED  BY <2>1, <2>2 DEF Kept
<1>14. ASSUME NEW q, NEW d, Leave(q, d) PROVE pc' \in {"reversing", "select"}
  BY <1>14 DEF Leave, Drive
<1>15. CASE DepartToward \/ ReverseAfterPause
  BY <1>1, <1>14, <1>15 DEF DepartToward, ReverseAfterPause, Drive
<1>16. CASE ImmediateCall
  <2> DEFINE n == decide_next_call(call_buttons, current_floor, current_direction)
  <2>1. n \in DOMAIN call_buttons
    BY <1>0, <1>16, NextCallFound DEF ImmediateCall
  <2>2. \/ /\ call_buttons[n].call = CAB
           /\ call_buttons' = RemoveAt(call_buttons, n) /\ Leave(call_buttons', DIRN_STOP)
        \/ UNCHANGED call_buttons /\ pc' = "completing_next"
    BY <1>16 DEF ImmediateCall
  <2>3. pc = "depart" /\ UNCHANGED <<assigned_to, stop_ch>>
    BY <1>16 DEF ImmediateCall
  <2>4. call_buttons[n].call = CAB => call_buttons[n] \notin Mine
    BY DEF HallCalls
  <2> QED  BY <1>1, <1>3, <1>14, <2>1, <2>2, <2>3, <2>4
<1>17. CASE RemoveNext
  <2>1. /\ next_index \in DOMAIN call_buttons
        /\ call_buttons[next_index] \notin Mine
    BY <1>17 DEF RemoveNext, NextKnown, Kept
  <2>2. /\ call_buttons' = RemoveAt(call_buttons, next_index)
        /\ Leave(call_buttons', DIRN_STOP) /\ pc = "removing_next"
        /\ UNCHANGED <<assigned_to, stop_ch>>
    BY <1>17, <2>1 DEF RemoveNext
  <2> QED  BY <1>3, <1>14, <2>1, <2>2
<1>18. ASSUME NEW c \in Buttons \cap HallCalls, ReassignLost(c)
       PROVE  Kept'
  <2>1. /\ assign_hall_call(c, "unassigned", "self", lamps)
        /\ UNCHANGED <<pc, at, next_type, stop_ch>>
    BY <1>0, <1>18 DEF ReassignLost, Background
  <2>2. assigned_to[c] = "self"
    BY <1>18 DEF ReassignLost, Sole
  <2> QED  BY <1>7, <2>1, <2>2
<1>19. ASSUME NEW c \in Buttons \cap HallCalls, ReceiveHallCall(c) \/ ReceiveCompleted(c)
       PROVE  Kept'
  BY <1>19 DEF ReceiveHallCall, ReceiveCompleted
<1>20. CASE ToggleLever \/ MoveCar \/ UNCHANGED vars \/ \E b \in Buttons : PressCall(b)
  BY <1>4, <1>20 DEF ToggleLever, MoveCar, PressCall, Outside, vars
<1>21. CASE PressStop
  BY <1>21 DEF PressStop
<1>22. CASE Crash
  BY <1>22 DEF Crash, Kept
<1> QED  BY <1>5, <1>6, <1>8, <1>9, <1>10, <1>11, <1>12, <1>13, <1>15, <1>16, <1>17, <1>18,
            <1>19, <1>20, <1>21, <1>22
         DEF Next, MainThread, SelectLoop, ServeSteps, OtherThreads, Environment

(* Until the stop button is pressed a hall call this elevator owns is in   *)
(* its queue, or just being completed: through cabin calls, obstructions,  *)
(* restarts and reassignments by the health monitor.  The stop button,     *)
(* which clears the queue and leaves the owners (main.rs:290-325), and     *)
(* messages of others break it.                                            *)
THEOREM OwnedCallsStay ==
    ASSUME ~ HasPeers
    PROVE  Spec => []OwnedCallsQueued
<1> DEFINE KeptOK == used["stop"] = 0 => Kept
<1>1. Init => KeptOK
  BY DEF Init, Kept, Mine
<1>2. TypeOK /\ NextKnown /\ Sole /\ KeptOK /\ [Next]_vars => KeptOK'
  <2> SUFFICES ASSUME TypeOK, NextKnown, Sole, KeptOK, [Next]_vars, used'["stop"] = 0
               PROVE  Kept'
    OBVIOUS
  <2>1. "stop" \in Inputs
    BY DEF Inputs
  <2>2. used["stop"] = 0 /\ ~ Spend("stop")
    BY <2>1, UnspentBefore
  <2> QED  BY <2>2, KeptStep
<1>3. TypeOK /\ KeptOK => OwnedCallsQueued
  <2>1. TypeOK => used["stop"] \in Nat
    BY DEF TypeOK, Inputs
  <2> QED  BY <2>1 DEF Kept, OwnedCallsQueued
<1>4. ~ HasPeers \/ NoBackground
  OBVIOUS
<1>5. Spec => []NextKnown
  BY <1>4, NextAlwaysKnown
<1> QED  BY <1>1, <1>2, <1>3, <1>5, TypeCorrect, SoleCorrect, PTL DEF Spec
=============================================================================
