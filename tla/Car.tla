-------------------------------- MODULE Car --------------------------------
(***************************************************************************)
(* One elevator: the main thread of main.rs (start-up, the select! loop    *)
(* and serve_call of control.rs), the car it drives, the pollers that feed *)
(* its channels, and the background threads that reach the same            *)
(* Mutex<Elevator>: the message listener and the health monitor.           *)
(*                                                                         *)
(* An action is what a thread does between two points where another thread *)
(* can get in: one hold of the elevator mutex, or a channel receive and    *)
(* the work up to the next release.  Two waits of the main thread keep the *)
(* mutex (the door of the stop arm, the pause before reversing); the       *)
(* three-second door wait does not.                                        *)
(*                                                                         *)
(* main.rs does not compile at this commit.  Its cab-call and floor arms   *)
(* are read the way its stop and obstruction arms are written: "elevator"  *)
(* is the locked elevator_system.local_elevator, the one serve_call        *)
(* serves; the missing test of the call arm is "call == CAB".              *)
(*                                                                         *)
(* An operator named X_Something is the plausible mistake in X that the    *)
(* properties must be able to see; nothing uses it.                        *)
(***************************************************************************)
EXTENDS Control

CONSTANTS
    Buttons,        \* the buttons somebody presses
    HasPeers,       \* whether other elevators are on the network
    MaxPresses,     \* bound: call buttons pressed
    MaxStops,       \* bound: stop button presses
    MaxToggles,     \* bound: movements of the obstruction lever
    MaxBackground,  \* bound: handlers run by listener and health monitor
    MaxCrashes      \* bound: crashes of the process

ASSUME CarAssumption ==
    /\ Buttons \subseteq Panel
    /\ HasPeers \in BOOLEAN
    /\ {MaxPresses, MaxStops, MaxToggles, MaxBackground, MaxCrashes} \subseteq Nat

VARIABLES
    \* Mutex<Elevator>: elevator_system.local_elevator
    call_buttons, current_floor, current_direction, is_obstructed,
    \* hall_calls: who each hall call is assigned to
    assigned_to,
    \* the main thread: where it is, and its locals
    pc, at, next_index, next_type, new_dir, todo,
    \* the hardware: position in half floors, motor, door lamp, call lamps
    pos, motor, door, lamps, lever,
    \* floor poller's prev, and the channels into the select! loop
    prev_floor, call_ch, floor_ch, stop_ch, obstr_ch,
    \* elevator_<id>_state.txt
    disk,
    \* how much of each bound is used up
    used

elevator == <<call_buttons, current_floor, current_direction, is_obstructed>>
locals   == <<at, next_index, next_type, new_dir, todo>>
hardware == <<pos, motor, door, lamps, lever>>
channels == <<call_ch, floor_ch, stop_ch, obstr_ch>>
vars == <<elevator, assigned_to, pc, locals, hardware, prev_floor, channels,
          disk, used>>

-----------------------------------------------------------------------------
(* Sets of values.                                                         *)

NoFloor == 255                              \* u8::MAX in floor_sensor
Shaft   == 0..(2 * (NumFloors - 1))         \* even: at a floor
Owners  == {"none", "unassigned", "self", "other"}

PCs == {"start", "homing", "select", "serve", "completing", "door_wait",
        "depart", "completing_next", "removing_next", "reversing",
        "stop_door", "stop_reassign", "obstr_reassign", "panicked"}

(* The car moves on while the main thread sleeps, sets up connections, or  *)
(* is gone: a panic of the main thread ends the process.                   *)
Slow == {"start", "door_wait", "reversing", "stop_door", "panicked"}

(* The pollers run from the end of the start-up code on.                   *)
Polling == pc \notin {"start", "panicked"}

(* The elevator mutex is free for a background thread.                     *)
LockFree == pc \notin {"reversing", "stop_door", "panicked"}

Inputs == {"press", "stop", "toggle", "background", "crash"}
Limit  == [press |-> MaxPresses, stop |-> MaxStops, toggle |-> MaxToggles,
           background |-> MaxBackground, crash |-> MaxCrashes]

Spend(k) == /\ used[k] < Limit[k]
            /\ used' = [used EXCEPT ![k] = @ + 1]

AtFloor(p) == \E f \in Floors : p = 2 * f
Mine == {c \in HallCalls : assigned_to[c] = "self"}

(* The winner of assign_hall_call: whoever has the lowest cost.  Alone, it *)
(* is always this elevator.                                                *)
Winners == IF HasPeers THEN {"self", "other"} ELSE {"self"}

(* What persist_elevator_state writes.                                     *)
Saved_BeforePush(q, floor, dirn) ==
    [calls |-> IF q = <<>> THEN q ELSE Front(q), floor |-> floor, direction |-> dirn]
Saved(q, floor, dirn) == [calls |-> q, floor |-> floor, direction |-> dirn]

-----------------------------------------------------------------------------
(* The functions the arms share.                                           *)

(* control.rs start_elevator, on the queue q as just updated.              *)
start_elevator(q, go_floor) ==
    LET dirn == hall_call_start_dir(go_floor, current_floor)
    IN  IF StartsNow(q, current_direction)
        THEN current_direction' = dirn /\ motor' = dirn
        ELSE UNCHANGED <<current_direction, motor>>

(* system.rs assign_hall_call, called with the timestamp of the entry:     *)
(* an entry somebody owns is left alone, and only the winner queues the    *)
(* call.  owner is the entry the function finds, lit the lamps its caller  *)
(* has switched on by then.                                                *)
assign_hall_call(c, owner, best, lit) ==
    IF owner \in {"self", "other"}
    THEN /\ assigned_to' = [assigned_to EXCEPT ![c] = owner]
         /\ lamps' = lit
         /\ UNCHANGED <<call_buttons, current_direction, motor>>
    ELSE /\ assigned_to' = [assigned_to EXCEPT ![c] = best]
         /\ IF best = "self"
            THEN /\ lamps' = lit \cup {c}
                 /\ call_buttons' = Enqueue(call_buttons, c)
                 /\ start_elevator(call_buttons', c.floor)
            ELSE /\ lamps' = lit
                 /\ UNCHANGED <<call_buttons, current_direction, motor>>

(* system.rs complete_call; the broadcast is not this module's.            *)
complete_call_Kept(c) == UNCHANGED assigned_to
complete_call(c) == assigned_to' = [assigned_to EXCEPT ![c] = "none"]

(* poll.rs floor_sensor on a car at p whose last event was for floor prev: *)
(* an event when the floor is new.                                         *)
PollFloor(p, prev) ==
    IF Polling' /\ \E f \in Floors : p = 2 * f /\ f # prev
    THEN \E f \in Floors : /\ p = 2 * f
                           /\ prev_floor' = f
                           /\ floor_ch' = Append(floor_ch, f)
    ELSE UNCHANGED <<prev_floor, floor_ch>>

-----------------------------------------------------------------------------
(* Start-up.                                                               *)

Init ==
    /\ call_buttons = <<>> /\ current_floor = 0
    /\ current_direction = DIRN_STOP /\ is_obstructed = FALSE
    /\ assigned_to = [c \in HallCalls |-> "none"]
    /\ pc = "start"
    /\ at = 0 /\ next_index = 0 /\ next_type = CAB /\ new_dir = DIRN_STOP
    /\ todo = {}
    /\ pos \in Shaft /\ motor = DIRN_STOP /\ door = FALSE /\ lamps = {}
    /\ lever = FALSE
    /\ prev_floor = NoFloor
    /\ call_ch = <<>> /\ floor_ch = <<>> /\ stop_ch = 0 /\ obstr_ch = <<>>
    /\ disk = Saved(<<>>, 0, DIRN_STOP)
    /\ used = [k \in Inputs |-> 0]

(* Start the pollers, which have seen no floor and no obstruction; drive   *)
(* down unless at a floor; switch call lamps off, "for floor in 0..3".     *)
StartUp ==
    /\ pc = "start" /\ pc' = "homing"
    /\ PollFloor(pos, NoFloor)
    /\ obstr_ch' = IF lever THEN <<TRUE>> ELSE <<>>
    /\ motor' = IF AtFloor(pos) THEN motor ELSE DIRN_DOWN
    /\ lamps' = {c \in lamps : c.floor \notin 0..2}
    /\ UNCHANGED <<elevator, assigned_to, locals, pos, door, lever, call_ch,
                   stop_ch, disk, used>>

(* "while starting_floor != 0": down to the ground floor.  The elevator's  *)
(* own current_floor and current_direction are not touched.                *)
Home ==
    /\ pc = "homing" /\ floor_ch # <<>>
    /\ floor_ch' = Tail(floor_ch)
    /\ IF Head(floor_ch) = 0
       THEN motor' = DIRN_STOP /\ pc' = "select"
       ELSE motor' = DIRN_DOWN /\ UNCHANGED pc
    /\ UNCHANGED <<elevator, assigned_to, locals, pos, door, lamps, lever,
                   prev_floor, call_ch, stop_ch, obstr_ch, disk, used>>

-----------------------------------------------------------------------------
(* The arms of the select! loop.                                           *)

CabButton ==
    /\ pc = "select" /\ call_ch # <<>> /\ Head(call_ch).call = CAB
    /\ LET c == Head(call_ch)
       IN  /\ call_ch' = Tail(call_ch)
           /\ lamps' = lamps \cup {c}
           /\ call_buttons' = Enqueue(call_buttons, c)
           /\ disk' = IF Contains(call_buttons, c) THEN disk
                      ELSE Saved(call_buttons', current_floor, current_direction)
           /\ start_elevator(call_buttons', c.floor)
    /\ UNCHANGED <<current_floor, is_obstructed, assigned_to, pc, locals, pos,
                   door, lever, prev_floor, floor_ch, stop_ch, obstr_ch, used>>

(* system.rs process_hall_call: the entry starts out unassigned.           *)
HallButton ==
    /\ pc = "select" /\ call_ch # <<>> /\ Head(call_ch).call # CAB
    /\ LET c == Head(call_ch)
       IN  \E best \in Winners :
               assign_hall_call(c, "unassigned", best, lamps \cup {c})
    /\ call_ch' = Tail(call_ch)
    /\ UNCHANGED <<current_floor, is_obstructed, pc, locals, pos, door, lever,
                   prev_floor, floor_ch, stop_ch, obstr_ch, disk, used>>

FloorSensor ==
    /\ pc = "select" /\ floor_ch # <<>>
    /\ current_floor' = Head(floor_ch) /\ at' = Head(floor_ch)
    /\ floor_ch' = Tail(floor_ch)
    /\ pc' = "serve"
    /\ UNCHANGED <<call_buttons, current_direction, is_obstructed, assigned_to,
                   next_index, next_type, new_dir, todo, hardware, prev_floor,
                   call_ch, stop_ch, obstr_ch, disk, used>>

(* The car stands still, and forgets every call.                           *)
Halt_Bright == /\ motor' = DIRN_STOP /\ current_direction' = DIRN_STOP
               /\ UNCHANGED lamps /\ call_buttons' = <<>>
Halt == /\ motor' = DIRN_STOP /\ current_direction' = DIRN_STOP
        /\ lamps' = {} /\ call_buttons' = <<>>

(* The calls this elevator owns are noted down before the queue they are   *)
(* in is cleared, and handed to assign_hall_call once the door has closed. *)
StopButton ==
    /\ pc = "select" /\ stop_ch > 0
    /\ stop_ch' = stop_ch - 1
    /\ Halt
    /\ todo' = Mine
    /\ IF AtFloor(pos)
       THEN door' = TRUE /\ pc' = "stop_door" /\ UNCHANGED disk
       ELSE /\ disk' = Saved(<<>>, current_floor, DIRN_STOP)
            /\ pc' = "stop_reassign" /\ UNCHANGED door
    /\ UNCHANGED <<current_floor, is_obstructed, assigned_to, at, next_index,
                   next_type, new_dir, pos, lever, prev_floor, call_ch,
                   floor_ch, obstr_ch, used>>

StopDoorCloses ==
    /\ pc = "stop_door"
    /\ door' = FALSE
    /\ disk' = Saved(call_buttons, current_floor, current_direction)
    /\ pc' = "stop_reassign"
    /\ UNCHANGED <<elevator, assigned_to, locals, pos, motor, lamps, lever,
                   prev_floor, channels, used>>

(* The timestamp noted down is the entry's own unless a peer's message has *)
(* renewed the entry since.                                                *)
StopReassign ==
    /\ pc = "stop_reassign"
    /\ \/ /\ todo = {} /\ pc' = "select"
          /\ UNCHANGED <<call_buttons, current_direction, assigned_to, todo,
                         motor, lamps>>
       \/ \E c \in todo, best \in Winners, renewed \in {FALSE, HasPeers} :
             /\ todo' = todo \ {c}
             /\ assign_hall_call(c, IF renewed THEN "unassigned" ELSE assigned_to[c],
                                 best, lamps)
             /\ UNCHANGED pc
    /\ UNCHANGED <<current_floor, is_obstructed, at, next_index, next_type,
                   new_dir, pos, door, lever, prev_floor, channels, disk, used>>

(* The lever counts only while the floor sensor is active.                 *)
Obstruction ==
    /\ pc = "select" /\ obstr_ch # <<>>
    /\ obstr_ch' = Tail(obstr_ch)
    /\ IF AtFloor(pos)
       THEN /\ is_obstructed' = Head(obstr_ch)
            /\ IF Head(obstr_ch)
               THEN door' = TRUE /\ todo' = Mine /\ pc' = "obstr_reassign"
               ELSE UNCHANGED <<door, todo, pc>>
       ELSE UNCHANGED <<is_obstructed, door, todo, pc>>
    /\ UNCHANGED <<call_buttons, current_floor, current_direction, assigned_to,
                   at, next_index, next_type, new_dir, pos, motor, lamps,
                   lever, prev_floor, call_ch, floor_ch, stop_ch, disk, used>>

(* Each call is marked unassigned first, so that it really is reassigned.  *)
ObstructionReassign ==
    /\ pc = "obstr_reassign"
    /\ \/ /\ todo = {} /\ pc' = "select"
          /\ UNCHANGED <<call_buttons, current_direction, assigned_to, todo,
                         motor, lamps>>
       \/ \E c \in todo, best \in Winners :
             /\ todo' = todo \ {c}
             /\ assign_hall_call(c, "unassigned", best, lamps)
             /\ UNCHANGED pc
    /\ UNCHANGED <<current_floor, is_obstructed, at, next_index, next_type,
                   new_dir, pos, door, lever, prev_floor, channels, disk, used>>

-----------------------------------------------------------------------------
(* serve_call.                                                             *)

ServeNothing ==
    /\ pc = "serve"
    /\ serving_call(call_buttons, current_floor, at, current_direction) = 0
    /\ pc' = "select" /\ at' = 0
    /\ UNCHANGED <<elevator, assigned_to, next_index, next_type, new_dir, todo,
                   hardware, prev_floor, channels, disk, used>>

(* With the mutex held: open the door, and wait unless obstructed.         *)
OpenDoor == /\ door' = TRUE
            /\ IF is_obstructed
               THEN pc' = "select" /\ at' = 0
               ELSE pc' = "door_wait" /\ UNCHANGED at

(* Take the call, and the cabin call for this floor with it; stop.  A hall *)
(* call is completed with the mutex released, a cabin call leads straight  *)
(* to the door.                                                            *)
ServeCall ==
    /\ pc = "serve"
    /\ LET i     == serving_call(call_buttons, current_floor, at, current_direction)
           c     == call_buttons[i]
           cab   == [floor |-> at, call |-> CAB]
           rest  == RemoveAt(call_buttons, i)
           extra == Contains(rest, cab)
       IN  /\ i # 0
           /\ call_buttons' = RemoveCall(rest, cab)
           /\ lamps' = lamps \ ({c} \cup (IF extra THEN {cab} ELSE {}))
           /\ disk' = IF extra \/ c.call = CAB
                      THEN Saved(call_buttons', current_floor, current_direction)
                      ELSE disk
           /\ IF c.call = CAB
              THEN OpenDoor /\ UNCHANGED next_type
              ELSE pc' = "completing" /\ next_type' = c.call /\ UNCHANGED <<at, door>>
    /\ motor' = DIRN_STOP
    /\ UNCHANGED <<current_floor, current_direction, is_obstructed, assigned_to,
                   next_index, new_dir, todo, pos, lever, prev_floor, channels,
                   used>>

(* complete_call, then the mutex again for the door.                       *)
CompleteServed ==
    /\ pc = "completing"
    /\ complete_call([floor |-> at, call |-> next_type])
    /\ next_type' = CAB
    /\ OpenDoor
    /\ UNCHANGED <<elevator, next_index, new_dir, todo, pos, motor, lamps,
                   lever, prev_floor, channels, disk, used>>

(* Three seconds, looking every 100 ms whether the door is blocked.        *)
DoorWait ==
    /\ pc = "door_wait"
    /\ IF is_obstructed
       THEN pc' = "select" /\ at' = 0
       ELSE pc' = "depart" /\ UNCHANGED at
    /\ UNCHANGED <<elevator, assigned_to, next_index, next_type, new_dir, todo,
                   hardware, prev_floor, channels, disk, used>>

DepartIdle ==
    /\ pc = "depart"
    /\ decide_next_call(call_buttons, current_floor, current_direction) = 0
    /\ door' = FALSE /\ pc' = "select" /\ at' = 0
    /\ UNCHANGED <<elevator, assigned_to, next_index, next_type, new_dir, todo,
                   pos, motor, lamps, lever, prev_floor, channels, disk, used>>

(* Close the door and drive off.                                           *)
Drive_Unnoted(dirn) == /\ pc' = "select" /\ at' = 0 /\ door' = FALSE
                       /\ UNCHANGED current_direction /\ motor' = dirn
Drive_DoorOpen(dirn) == /\ pc' = "select" /\ at' = 0 /\ UNCHANGED door
                        /\ current_direction' = dirn /\ motor' = dirn
Drive(dirn) == /\ pc' = "select" /\ at' = 0 /\ door' = FALSE
               /\ current_direction' = dirn /\ motor' = dirn

(* The end of serve_call with queue q and the direction chosen so far:     *)
(* choose again if it is STOP, pause before reversing, close and drive.    *)
Leave(q, chosen) ==
    LET m    == decide_next_call(q, current_floor, current_direction)
        dirn == IF m # 0 /\ chosen = DIRN_STOP
                THEN hall_call_start_dir(q[m].floor, at) ELSE chosen
    IN  IF dirn = opposite_dir(current_direction)
        THEN /\ pc' = "reversing" /\ new_dir' = dirn
             /\ UNCHANGED <<at, door, current_direction, motor>>
        ELSE Drive(dirn) /\ UNCHANGED new_dir

DepartToward ==
    /\ pc = "depart"
    /\ LET n == decide_next_call(call_buttons, current_floor, current_direction)
       IN  /\ n # 0 /\ call_buttons[n].floor # at
           /\ Leave(call_buttons, hall_call_start_dir(call_buttons[n].floor, at))
    /\ UNCHANGED <<call_buttons, current_floor, is_obstructed, assigned_to,
                   next_index, next_type, todo, pos, lamps, lever, prev_floor,
                   channels, disk, used>>

(* The next call is for this floor too: a cabin call would be taken at     *)
(* once; of a hall call the position is kept while the mutex is released   *)
(* for complete_call.                                                      *)
ImmediateCall ==
    /\ pc = "depart"
    /\ LET n == decide_next_call(call_buttons, current_floor, current_direction)
           c == call_buttons[n]
       IN  /\ n # 0 /\ c.floor = at
           /\ IF c.call = CAB
              THEN /\ lamps' = lamps \ {c}
                   /\ call_buttons' = RemoveAt(call_buttons, n)
                   /\ disk' = Saved(call_buttons', current_floor, current_direction)
                   /\ Leave(call_buttons', DIRN_STOP)
                   /\ UNCHANGED <<next_index, next_type>>
              ELSE /\ next_index' = find_call_button_index(call_buttons, c)
                   /\ next_type' = c.call
                   /\ pc' = "completing_next"
                   /\ UNCHANGED <<call_buttons, lamps, disk, at, new_dir, door,
                                  current_direction, motor>>
    /\ UNCHANGED <<current_floor, is_obstructed, assigned_to, todo, pos, lever,
                   prev_floor, channels, used>>

CompleteNext ==
    /\ pc = "completing_next"
    /\ complete_call([floor |-> at, call |-> next_type])
    /\ pc' = "removing_next"
    /\ UNCHANGED <<elevator, locals, hardware, prev_floor, channels, disk, used>>

(* Vec::remove panics when the position is no longer in the queue.         *)
RemoveNext ==
    /\ pc = "removing_next"
    /\ lamps' = lamps \ {[floor |-> at, call |-> next_type]}
    /\ IF next_index \in DOMAIN call_buttons
       THEN /\ call_buttons' = RemoveAt(call_buttons, next_index)
            /\ Leave(call_buttons', DIRN_STOP)
       ELSE /\ pc' = "panicked"
            /\ UNCHANGED <<call_buttons, at, new_dir, door, current_direction, motor>>
    /\ next_index' = 0 /\ next_type' = CAB
    /\ UNCHANGED <<current_floor, is_obstructed, assigned_to, todo, pos, lever,
                   prev_floor, channels, disk, used>>

ReverseAfterPause ==
    /\ pc = "reversing"
    /\ Drive(new_dir) /\ new_dir' = DIRN_STOP
    /\ UNCHANGED <<call_buttons, current_floor, is_obstructed, assigned_to,
                   next_index, next_type, todo, pos, lamps, lever, prev_floor,
                   channels, disk, used>>

-----------------------------------------------------------------------------
(* Handlers of the listener and health-monitor threads that reach this     *)
(* elevator.                                                               *)

Background == /\ LockFree /\ Spend("background")
              /\ UNCHANGED <<current_floor, is_obstructed, pc, locals, pos,
                             door, lever, prev_floor, channels>>

(* handle_hall_call_message: the lamp always; the entry only if newer.     *)
ReceiveHallCall(c) ==
    /\ HasPeers /\ Background
    /\ \E best \in Winners, newer \in BOOLEAN :
          assign_hall_call(c, IF newer THEN "unassigned" ELSE assigned_to[c],
                           best, lamps \cup {c})
    /\ UNCHANGED disk

(* handle_completed_call_message.                                          *)
ReceiveCompleted(c) ==
    /\ HasPeers /\ Background
    /\ assigned_to' = [assigned_to EXCEPT ![c] = "none"]
    /\ lamps' = lamps \ {c}
    /\ IF assigned_to[c] = "self" /\ Contains(call_buttons, c)
       THEN /\ call_buttons' = RemoveCall(call_buttons, c)
            /\ disk' = Saved(call_buttons', current_floor, current_direction)
       ELSE UNCHANGED <<call_buttons, disk>>
    /\ UNCHANGED <<current_direction, motor>>

(* reassign_hall_calls and process_calls_from_disconnected_elevators: the  *)
(* calls of a peer gone silent, or, once, of this elevator itself, whose   *)
(* own heartbeat nobody renews.                                            *)
ReassignLost(c) ==
    /\ Background
    /\ assigned_to[c] \in {"self", "other"}
    /\ \E best \in Winners : assign_hall_call(c, "unassigned", best, lamps)
    /\ UNCHANGED disk

-----------------------------------------------------------------------------
(* The world outside.                                                      *)

Outside == UNCHANGED <<elevator, assigned_to, pc, locals, disk>>

PressCall(c) ==
    /\ Polling /\ Spend("press")
    /\ call_ch' = Append(call_ch, c)
    /\ Outside /\ UNCHANGED <<hardware, prev_floor, floor_ch, stop_ch, obstr_ch>>

PressStop ==
    /\ Polling /\ Spend("stop")
    /\ stop_ch' = stop_ch + 1
    /\ Outside /\ UNCHANGED <<hardware, prev_floor, call_ch, floor_ch, obstr_ch>>

ToggleLever ==
    /\ Spend("toggle")
    /\ lever' = ~ lever
    /\ obstr_ch' = IF Polling THEN Append(obstr_ch, lever') ELSE obstr_ch
    /\ Outside /\ UNCHANGED <<pos, motor, door, lamps, prev_floor, call_ch,
                              floor_ch, stop_ch>>

(* The car travels half a floor.  It leaves the sensor of a floor only     *)
(* when a main thread that is awake has handled the event; past the end of *)
(* the shaft it stays.                                                     *)
MoveCar ==
    /\ motor # DIRN_STOP /\ pos \in Shaft
    /\ pc \in Slow \/ (pc \in {"select", "homing"} /\ floor_ch = <<>>)
    /\ pos' = IF motor = DIRN_UP THEN pos + 1 ELSE pos - 1
    /\ Outside
    /\ PollFloor(pos', prev_floor)
    /\ UNCHANGED <<motor, door, lamps, lever, call_ch, stop_ch, obstr_ch, used>>

(* The process dies and is started again: channels, hall-call map and      *)
(* locals are lost, the file is read back, the hardware keeps its state.   *)
Crash ==
    /\ Spend("crash")
    /\ call_buttons' = disk.calls /\ current_floor' = disk.floor
    /\ current_direction' = disk.direction /\ is_obstructed' = FALSE
    /\ assigned_to' = [c \in HallCalls |-> "none"]
    /\ pc' = "start"
    /\ at' = 0 /\ next_index' = 0 /\ next_type' = CAB /\ new_dir' = DIRN_STOP
    /\ todo' = {}
    /\ UNCHANGED <<hardware, disk>>
    /\ prev_floor' = NoFloor
    /\ call_ch' = <<>> /\ floor_ch' = <<>> /\ stop_ch' = 0 /\ obstr_ch' = <<>>

-----------------------------------------------------------------------------
SelectLoop == \/ CabButton \/ HallButton \/ FloorSensor
              \/ StopButton \/ StopDoorCloses \/ StopReassign
              \/ Obstruction \/ ObstructionReassign

ServeSteps == \/ ServeNothing \/ ServeCall \/ CompleteServed \/ DoorWait
              \/ DepartIdle \/ DepartToward \/ ImmediateCall
              \/ CompleteNext \/ RemoveNext \/ ReverseAfterPause

MainThread == StartUp \/ Home \/ SelectLoop \/ ServeSteps

OtherThreads == \E c \in Buttons \cap HallCalls :
                   ReceiveHallCall(c) \/ ReceiveCompleted(c) \/ ReassignLost(c)

Environment == \/ \E c \in Buttons : PressCall(c)
               \/ PressStop \/ ToggleLever \/ MoveCar \/ Crash

Next == MainThread \/ OtherThreads \/ Environment

Spec == Init /\ [][Next]_vars

(* The main thread is never descheduled for good, and a driven car moves.  *)
FairSpec == Spec /\ WF_vars(MainThread) /\ WF_vars(MoveCar)

-----------------------------------------------------------------------------
(* Properties.                                                             *)

(* Every variable has its type.                                            *)
TypeOK ==
    /\ call_buttons \in Seq(Calls) /\ current_floor \in Floors
    /\ current_direction \in Directions /\ is_obstructed \in BOOLEAN
    /\ assigned_to \in [HallCalls -> Owners]
    /\ pc \in PCs
    /\ at \in Floors /\ next_index \in Nat /\ next_type \in CallTypes
    /\ new_dir \in Directions /\ todo \in SUBSET HallCalls
    /\ pos \in (-1)..(2 * NumFloors - 1) /\ motor \in Directions
    /\ door \in BOOLEAN /\ lamps \in SUBSET Calls /\ lever \in BOOLEAN
    /\ prev_floor \in Floors \cup {NoFloor}
    /\ call_ch \in Seq(Calls) /\ floor_ch \in Seq(Floors)
    /\ stop_ch \in Nat /\ obstr_ch \in Seq(BOOLEAN)
    /\ disk \in [calls : Seq(Calls), floor : Floors, direction : Directions]
    /\ used \in [Inputs -> Nat]

(* A call is in the queue at most once, although the main thread and the   *)
(* listener push calls from copies of the same test, and the file a        *)
(* restarted process reads its queue from holds it at most once as well    *)
(* (main.rs:236, system.rs:484).                                           *)
NoDuplicateCalls == Distinct(call_buttons) /\ Distinct(disk.calls)

(* A cabin call in the queue is in the file too, whatever was served,      *)
(* cancelled or crashed since: every path that rewrites the file writes    *)
(* the queue as it then is (main.rs:240, control.rs:134, system.rs:386).   *)
CabCallsSurvive ==
    \A c \in CabCalls : Contains(call_buttons, c) => Contains(disk.calls, c)

(* Once the car is homed the motor either stands still or runs the way     *)
(* current_direction says, which broadcasts and costs are computed from    *)
(* (control.rs:22, :143 and :245).                                         *)
MotorFollowsDirection ==
    pc \notin {"start", "homing"} => motor \in {DIRN_STOP, current_direction}

(* No cabin call for the floor is left once serve_call has taken a call    *)
(* there: the branches of control.rs:223-231 for an immediate cabin call   *)
(* are never taken, whatever is queued while the door is open.             *)
CabCallTaken ==
    pc \in {"completing", "door_wait", "depart", "completing_next", "removing_next"} =>
        ~ Contains(call_buttons, [floor |-> at, call |-> CAB])

(* The car stays between the bottom and the top floor.                     *)
InShaft == pos \in Shaft

(* A running car that has handled its floor events has a call to go to in  *)
(* the direction it runs: nothing else would ever stop it.                 *)
HeadingToCall ==
    pc = "select" /\ floor_ch = <<>> /\ motor # DIRN_STOP =>
        \E i \in DOMAIN call_buttons :
            IF motor = DIRN_UP THEN 2 * call_buttons[i].floor > pos
                               ELSE 2 * call_buttons[i].floor < pos

(* Between events the lit call buttons are exactly the calls in the queue. *)
LampsShowCalls ==
    pc \in {"select", "door_wait"} =>
        \A c \in Panel : c \in lamps <=> Contains(call_buttons, c)

(* Until the stop button is pressed a hall call assigned to this elevator  *)
(* is in its queue, or just being completed (system.rs:473 and :485,       *)
(* control.rs:103 and :150).                                               *)
OwnedCallsQueued ==
    \A c \in Mine : \/ Contains(call_buttons, c)
                    \/ pc \in {"completing", "completing_next"} /\ c.floor = at
                    \/ used["stop"] > 0

(* Short of the stop button, a call leaves the queue only when the car     *)
(* stands at its floor.                                                    *)
ServedAtItsFloor ==
    [][\A c \in Panel : Contains(call_buttons, c) /\ ~ Contains(call_buttons', c) =>
          \/ stop_ch' # stop_ch
          \/ pos = 2 * c.floor /\ DIRN_STOP \in {motor, motor'}]_vars

(* A car that is not being restarted turns round only when no call is left *)
(* ahead of it (control.rs:27-36, :107, :240).                             *)
KeepsDirection ==
    [][\/ pc' = "start" \/ current_direction = DIRN_STOP
       \/ current_direction' # opposite_dir(current_direction)
       \/ ~ is_more_request_in_dir(call_buttons', current_floor, current_direction)]_vars

(* A call for another floor than the one the car is at or has last passed  *)
(* is served in the end, unless somebody presses stop or moves the lever.  *)
ElsewhereServed ==
    \A c \in Buttons :
        pc = "select" /\ Contains(call_buttons, c) /\ c.floor # current_floor
            ~> ~ Contains(call_buttons, c) \/ used["stop"] + used["toggle"] > 0

(* Where the wait of serve_call, or what follows it, has the door open.    *)
Waiting == {"door_wait", "depart", "completing_next", "removing_next", "reversing",
            "panicked"}

(* As long as the lever rests and the process lives, the car runs with its *)
(* door open only before serve_call has come to its end: an assignment by  *)
(* another thread may start the motor in the wait (control.rs:175), and    *)
(* each of the ways out closes the door (control.rs:244, :248).  The wait  *)
(* of the stop arm keeps the mutex, and nobody starts the motor in it      *)
(* (main.rs:276-309).                                                      *)
RunsOpenOnlyInWait ==
    used["toggle"] + used["crash"] = 0 /\ door /\ motor # DIRN_STOP => pc \in Waiting

-----------------------------------------------------------------------------
(* What an assertion, a comment or the README says, and what does not      *)
(* hold.                                                                   *)

(* The position found by find_call_button_index(next_call).unwrap() is the *)
(* position of that call when it is removed.                               *)
NextIndexIsNextCall ==
    pc = "removing_next" =>
        /\ next_index \in DOMAIN call_buttons
        /\ call_buttons[next_index] = [floor |-> at, call |-> next_type]

(* The lever halts the elevator if the door is open, or at the moment when *)
(* the door opens (README.md:6).  When main has taken the event, or in the *)
(* wait that looks periodically for an obstruction (control.rs:181): with  *)
(* lever and door open the car stands, and the wait ends without departure.*)
LeverHalts ==
    [][lever /\ door /\ (obstr_ch = <<>> \/ pc = "door_wait") =>
          motor' = DIRN_STOP /\ pc' # "depart"]_vars
=============================================================================
