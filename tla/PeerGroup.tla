----------------------------- MODULE PeerGroup -----------------------------
(***************************************************************************)
(* Several elevators, each with a hall-call map of its own, and the        *)
(* messages between them: late, lost, or overtaking one another; crashes   *)
(* and restarts.  Every elevator computes from what it last heard who      *)
(* takes a call, and tells nobody.                                         *)
(*                                                                         *)
(* An action is a handler: what its lock sections allow in between is the  *)
(* subject of HallCallThreads, the car's steps that of Car.  Left out are  *)
(* cabin calls, stop button, lever (is_obstructed is FALSE), lamps, and    *)
(* the monitor's entry of the elevator itself (HallCallThreads has it).    *)
(*                                                                         *)
(* An operator named X_Something is the plausible mistake in X that the    *)
(* properties must be able to see; nothing uses it.                        *)
(***************************************************************************)
EXTENDS Cost, Functions

CONSTANTS
    Elevators,      \* the ids; their order breaks ties
    Pressed,        \* the hall calls that occur
    MaxTime,        \* bound: timestamps, in seconds
    MaxPresses,     \* bound: how often a button is pressed
    MaxFaults       \* bound: crashes, lost and overtaking messages and timeouts
                    \* of elevators that are alive, together

Absent     == -1    \* HashMap::get gives None
Unassigned == -2    \* String::new()

ASSUME GroupAssumption ==
    /\ Elevators \subseteq Nat /\ Pressed \subseteq HallCalls \cap Panel
    /\ MaxTime \in Nat /\ MaxPresses \in Nat /\ MaxFaults \in Nat

VARIABLES
    \* of each elevator: whether its process runs, the fields of its
    \* Mutex<Elevator>, its motor, whether its main thread holds the door open
    up, call_buttons, current_floor, current_direction, motor, waiting,
    \* its hall_calls, and whom its listener and its health monitor know
    assigned_to, timestamp, elevator_states, last_seen,
    \* whether it has written a state file; what is under way; the bounds
    saved, network, used

car  == <<current_floor, current_direction, motor, waiting>>
map  == <<assigned_to, timestamp>>
peer == <<elevator_states, last_seen>>
vars == <<up, call_buttons, car, map, peer, saved, network, used>>

Spend(k, max) == used[k] < max /\ used' = [used EXCEPT ![k] = @ + 1]

-----------------------------------------------------------------------------
(* Messages.                                                               *)

HallCall(c, ts)     == [kind |-> "HALL", call |-> c, time |-> ts]
CompletedCall(c)    == [kind |-> "COMPLETED", call |-> c]
ElevatorState(s) == [kind |-> "STATE", state |-> s]

Others_All(e) == {d \in Elevators : up[d]}
Others(e) == {d \in Elevators \ {e} : up[d]}

(* network[e][d] is what e has sent to d, in order.                        *)
Sent(e, to, m) ==
    [network EXCEPT ![e] = [d \in Elevators |-> IF d \in to THEN Append(@[d], m) ELSE @[d]]]

(* HashMap::insert.                                                        *)
Put(f, k, v) == [x \in DOMAIN f \cup {k} |-> IF x = k THEN v ELSE f[x]]

(* What e says of itself, and computes with.                               *)
State(e) == [floor |-> current_floor[e], direction |-> current_direction[e],
             queue |-> Len(call_buttons[e]), is_obstructed |-> FALSE]

-----------------------------------------------------------------------------
(* The hall-call map of elevator e.                                        *)

Forget_Kept(e, c) == UNCHANGED map
Forget(e, c) ==
    /\ assigned_to' = [assigned_to EXCEPT ![e][c] = Absent]
    /\ timestamp' = [timestamp EXCEPT ![e][c] = 0]

(* assign_hall_call at e, which knows the others by heard, for a call that *)
(* has no owner (for any other it returns at once); a is what it changes.  *)
AssignCall(e, heard, a, c) ==
    LET own  == [floor |-> current_floor[e], direction |-> a.direction,
                 queue |-> Len(a.queue), is_obstructed |-> FALSE]
        st   == Put(heard, e, own)
        best == CHOOSE i \in DOMAIN st : \A j \in DOMAIN st : Precedes(st, c, i, j)
        q    == Enqueue(a.queue, c)
        dirn == hall_call_start_dir(c.floor, current_floor[e])
        mine == [a EXCEPT !.owner[c] = e, !.queue = q]
    IN  IF a.owner[c] # Unassigned THEN a
        ELSE IF best # e THEN [a EXCEPT !.owner[c] = best]
        ELSE IF StartsNow(q, a.direction) THEN [mine EXCEPT !.direction = dirn, !.motor = dirn]
        ELSE mine

(* The same for the calls S, in the order of the map's iterator, after     *)
(* their owners have become owner.                                         *)
AssignInOrder(e, heard, owner, order) ==
    LET a[k \in 0..Len(order)] ==
            IF k = 0
            THEN [owner |-> owner, queue |-> call_buttons[e],
                  direction |-> current_direction[e], motor |-> motor[e]]
            ELSE AssignCall(e, heard, a[k - 1], order[k])
    IN  a[Len(order)]

AssignCalls(e, heard, owner, S) ==
    \E order \in SetToSeqs(S) :
        LET a == AssignInOrder(e, heard, owner, order)
        IN  /\ assigned_to' = [assigned_to EXCEPT ![e] = a.owner]
            /\ call_buttons' = [call_buttons EXCEPT ![e] = a.queue]
            /\ current_direction' = [current_direction EXCEPT ![e] = a.direction]
            /\ motor' = [motor EXCEPT ![e] = a.motor]

(* A hall call becomes known to e: without an owner, then assigned.        *)
Insert(e, c, ts) ==
    /\ timestamp' = [timestamp EXCEPT ![e][c] = ts]
    /\ AssignCalls(e, elevator_states[e], [assigned_to[e] EXCEPT ![c] = Unassigned], {c})

(* The calls of d lose their owner, and are assigned again.                *)
Reassign(e, d, heard) ==
    LET S == {c \in Pressed : assigned_to[e][c] = d}
    IN  AssignCalls(e, heard,
                    [c \in Pressed |-> IF c \in S THEN Unassigned ELSE assigned_to[e][c]], S)

-----------------------------------------------------------------------------
(* The main thread.                                                        *)

(* process_hall_call.                                                      *)
Press(e, c, ts) ==
    /\ up[e] /\ ~ waiting[e] /\ Spend("press", MaxPresses)
    /\ Insert(e, c, ts)
    /\ network' = Sent(e, Others(e), HallCall(c, ts))
    /\ UNCHANGED <<up, current_floor, waiting, peer, saved>>

NextFloor(e) == current_floor[e] + (IF motor[e] = DIRN_UP THEN 1 ELSE -1)
Moving(e) == motor[e] # DIRN_STOP /\ NextFloor(e) \in Floors
Serving(e) == serving_call(call_buttons[e], NextFloor(e), NextFloor(e), current_direction[e])

(* The floor arm, and serve_call up to the door: a floor without a call to *)
(* serve, and one with a call, which is completed.                         *)
Pass(e) ==
    /\ up[e] /\ ~ waiting[e] /\ Moving(e) /\ Serving(e) = 0
    /\ current_floor' = [current_floor EXCEPT ![e] = NextFloor(e)]
    /\ UNCHANGED <<up, call_buttons, current_direction, motor, waiting, map, peer,
                   saved, network, used>>

Serve(e) ==
    /\ up[e] /\ ~ waiting[e] /\ Moving(e) /\ Serving(e) # 0
    /\ current_floor' = [current_floor EXCEPT ![e] = NextFloor(e)]
    /\ call_buttons' = [call_buttons EXCEPT ![e] = RemoveAt(@, Serving(e))]
    /\ motor' = [motor EXCEPT ![e] = DIRN_STOP]
    /\ waiting' = [waiting EXCEPT ![e] = TRUE]
    /\ Forget(e, call_buttons[e][Serving(e)])
    /\ network' = Sent(e, Others(e), CompletedCall(call_buttons[e][Serving(e)]))
    /\ UNCHANGED <<up, current_direction, peer, saved, used>>

NextCall(e) == decide_next_call(call_buttons[e], current_floor[e], current_direction[e])

(* The end of serve_call, with queue q and the direction chosen so far.    *)
Leave(e, q, chosen) ==
    LET m    == decide_next_call(q, current_floor[e], current_direction[e])
        dirn == IF m # 0 /\ chosen = DIRN_STOP
                THEN hall_call_start_dir(q[m].floor, current_floor[e]) ELSE chosen
    IN  /\ call_buttons' = [call_buttons EXCEPT ![e] = q]
        /\ current_direction' = [current_direction EXCEPT ![e] = dirn]
        /\ motor' = [motor EXCEPT ![e] = dirn]

(* The door has been open for three seconds: no call is left, the next one *)
(* is for another floor, or it is for this floor too.                      *)
Depart(e) ==
    /\ up[e] /\ waiting[e]
    /\ waiting' = [waiting EXCEPT ![e] = FALSE]
    /\ UNCHANGED <<up, current_floor, peer, saved, used>>

DepartIdle(e) ==
    /\ Depart(e) /\ NextCall(e) = 0
    /\ UNCHANGED <<call_buttons, current_direction, motor, map, network>>

DepartToward(e) ==
    /\ Depart(e) /\ NextCall(e) # 0
    /\ LET c == call_buttons[e][NextCall(e)]
       IN  /\ c.floor # current_floor[e]
           /\ Leave(e, call_buttons[e], hall_call_start_dir(c.floor, current_floor[e]))
    /\ UNCHANGED <<map, network>>

DepartServing(e) ==
    /\ Depart(e) /\ NextCall(e) # 0
    /\ LET c == call_buttons[e][NextCall(e)]
       IN  /\ c.floor = current_floor[e]
           /\ Forget(e, c) /\ network' = Sent(e, Others(e), CompletedCall(c))
           /\ Leave(e, RemoveAt(call_buttons[e], NextCall(e)), DIRN_STOP)

-----------------------------------------------------------------------------
(* The listener and the health monitor.                                    *)

(* e handles message i of those under way from d, which is the first one,  *)
(* or overtakes others because d has connected again.                      *)
Receive(e, d, i) ==
    /\ up[e] /\ i \in DOMAIN network[d][e]
    /\ IF i = 1 THEN UNCHANGED used ELSE Spend("fault", MaxFaults)
    /\ network' = [network EXCEPT ![d][e] = RemoveAt(@, i)]

ReceiveHall(e, d, i) ==
    /\ Receive(e, d, i)
    /\ LET m == network[d][e][i]
       IN  /\ m.kind = "HALL"
           /\ IF assigned_to[e][m.call] = Absent \/ m.time > timestamp[e][m.call]
              THEN Insert(e, m.call, m.time)
              ELSE UNCHANGED <<map, call_buttons, current_direction, motor>>
    /\ UNCHANGED <<up, current_floor, waiting, peer, saved>>

ReceiveCompleted(e, d, i) ==
    /\ Receive(e, d, i)
    /\ LET m    == network[d][e][i]
           ours == assigned_to[e][m.call] = e /\ Contains(call_buttons[e], m.call)
       IN  /\ m.kind = "COMPLETED"
           /\ Forget(e, m.call)
           /\ call_buttons' = IF ours THEN [call_buttons EXCEPT ![e] = RemoveCall(@, m.call)]
                              ELSE call_buttons
           /\ saved' = [saved EXCEPT ![e] = @ \/ ours]
    /\ UNCHANGED <<up, car, peer>>

(* The state is noted, and "hall call assignments" are "re-evaluated".     *)
ReceiveState(e, d, i) ==
    /\ Receive(e, d, i)
    /\ network[d][e][i].kind = "STATE"
    /\ elevator_states' = [elevator_states EXCEPT ![e] = Put(@, d, network[d][e][i].state)]
    /\ last_seen' = [last_seen EXCEPT ![e] = @ \cup {d}]
    /\ AssignCalls(e, elevator_states'[e], assigned_to[e],
                   {c \in Pressed : assigned_to[e][c] # Absent})
    /\ UNCHANGED <<up, current_floor, waiting, timestamp, saved>>

(* A state of d is on its way to e.                                        *)
OnItsWay(e, d) == \E i \in DOMAIN network[d][e] : network[d][e][i].kind = "STATE"

(* broadcast_state, to those it tells something new; bound: one state      *)
(* under way between two elevators.                                        *)
Heartbeat(e) ==
    LET told == {d \in Others(e) :
                    /\ ~ OnItsWay(d, e)
                    /\ \/ e \notin DOMAIN elevator_states[d] \cap last_seen[d]
                       \/ elevator_states[d][e] # State(e)}
    IN  /\ up[e] /\ told # {}
        /\ network' = Sent(e, told, ElevatorState(State(e)))
        /\ UNCHANGED <<up, call_buttons, car, map, peer, saved, used>>

(* Five seconds without a state of d, for the listener (check_             *)
(* disconnected_elevators of system.rs) and for the monitor (that of       *)
(* fault_handler.rs); it is a fault that d is alive all the same, or a     *)
(* state of it on its way.                                                 *)
Overdue(e, d) ==
    IF ~ up[d] /\ ~ OnItsWay(e, d) THEN UNCHANGED used ELSE Spend("fault", MaxFaults)

Timeout_Unmarked(e, d) ==
    /\ up[e] /\ d \in DOMAIN elevator_states[e] /\ Overdue(e, d)
    /\ elevator_states' = [elevator_states EXCEPT ![e] = Restrict(@, DOMAIN @ \ {d})]
    /\ UNCHANGED <<up, call_buttons, car, map, last_seen, saved, network>>

Timeout(e, d) ==
    /\ up[e] /\ d \in DOMAIN elevator_states[e] /\ Overdue(e, d)
    /\ elevator_states' = [elevator_states EXCEPT ![e] = Restrict(@, DOMAIN @ \ {d})]
    /\ Reassign(e, d, elevator_states'[e])
    /\ UNCHANGED <<up, current_floor, waiting, timestamp, last_seen, saved, network>>

Expiry(e, d) ==
    /\ up[e] /\ d \in last_seen[e] /\ Overdue(e, d)
    /\ last_seen' = [last_seen EXCEPT ![e] = @ \ {d}]
    /\ Reassign(e, d, elevator_states[e])
    /\ UNCHANGED <<up, current_floor, waiting, timestamp, elevator_states, saved, network>>

-----------------------------------------------------------------------------
(* Faults.                                                                 *)

(* A message is lost with its connection, or merged with another in a read. *)
Lose(e, d, i) ==
    /\ i \in DOMAIN network[d][e] /\ Spend("fault", MaxFaults)
    /\ network' = [network EXCEPT ![d][e] = RemoveAt(@, i)]
    /\ UNCHANGED <<up, call_buttons, car, map, peer, saved>>

(* The process ends; what is on its way to it is lost.                     *)
Crash(e) ==
    /\ up[e] /\ Spend("fault", MaxFaults)
    /\ up' = [up EXCEPT ![e] = FALSE]
    /\ call_buttons' = [call_buttons EXCEPT ![e] = <<>>]
    /\ current_floor' = [current_floor EXCEPT ![e] = 0]
    /\ current_direction' = [current_direction EXCEPT ![e] = DIRN_STOP]
    /\ motor' = [motor EXCEPT ![e] = DIRN_STOP]
    /\ waiting' = [waiting EXCEPT ![e] = FALSE]
    /\ assigned_to' = [assigned_to EXCEPT ![e] = [c \in Pressed |-> Absent]]
    /\ timestamp' = [timestamp EXCEPT ![e] = [c \in Pressed |-> 0]]
    /\ elevator_states' = [elevator_states EXCEPT ![e] = <<>>]
    /\ last_seen' = [last_seen EXCEPT ![e] = {}]
    /\ network' = [d \in Elevators |-> [network[d] EXCEPT ![e] = <<>>]]
    /\ UNCHANGED saved

(* main, up to the loop, of an elevator that finds no state file: at floor *)
(* 0, knowing nothing.  What a file adds is Car's and Persist's.           *)
Restart(e) ==
    /\ ~ up[e] /\ ~ saved[e] /\ up' = [up EXCEPT ![e] = TRUE]
    /\ UNCHANGED <<call_buttons, car, map, peer, saved, network, used>>

-----------------------------------------------------------------------------
(* The elevators have been up for five seconds and know one another.       *)
Init ==
    /\ up = [e \in Elevators |-> TRUE]
    /\ call_buttons = [e \in Elevators |-> <<>>]
    /\ current_floor = [e \in Elevators |-> 0]
    /\ current_direction = [e \in Elevators |-> DIRN_STOP]
    /\ motor = [e \in Elevators |-> DIRN_STOP]
    /\ waiting = [e \in Elevators |-> FALSE]
    /\ assigned_to = [e \in Elevators |-> [c \in Pressed |-> Absent]]
    /\ timestamp = [e \in Elevators |-> [c \in Pressed |-> 0]]
    /\ elevator_states = [e \in Elevators |-> [d \in Elevators \ {e} |-> State(d)]]
    /\ last_seen = [e \in Elevators |-> Elevators \ {e}]
    /\ saved = [e \in Elevators |-> FALSE]
    /\ network = [e \in Elevators |-> [d \in Elevators |-> <<>>]]
    /\ used = [k \in {"press", "fault"} |-> 0]

Next ==
    \/ \E e \in Elevators :
          \/ \E c \in Pressed, ts \in 0..MaxTime : Press(e, c, ts)
          \/ Pass(e) \/ Serve(e) \/ DepartIdle(e) \/ DepartToward(e) \/ DepartServing(e)
          \/ Heartbeat(e) \/ Crash(e) \/ Restart(e)
          \/ \E d \in Elevators : Timeout(e, d) \/ Expiry(e, d)
    \/ \E e, d \in Elevators : \E i \in DOMAIN network[d][e] :
          ReceiveHall(e, d, i) \/ ReceiveCompleted(e, d, i) \/ ReceiveState(e, d, i)
              \/ Lose(e, d, i)

Spec == Init /\ [][Next]_vars

-----------------------------------------------------------------------------
(* Properties.                                                             *)

States == [floor : Floors, direction : Directions, queue : Nat, is_obstructed : {FALSE}]

(* The state of every elevator and every message has the form of the code. *)
TypeOK ==
    /\ up \in [Elevators -> BOOLEAN] /\ waiting \in [Elevators -> BOOLEAN]
    /\ call_buttons \in [Elevators -> Seq(Pressed)]
    /\ current_floor \in [Elevators -> Floors]
    /\ current_direction \in [Elevators -> Directions] /\ motor \in [Elevators -> Directions]
    /\ assigned_to \in [Elevators -> [Pressed -> Elevators \cup {Absent}]]
    /\ timestamp \in [Elevators -> [Pressed -> 0..MaxTime]]
    /\ \A e \in Elevators : \A d \in DOMAIN elevator_states[e] :
          d \in Elevators \ {e} /\ elevator_states[e][d] \in States
    /\ last_seen \in [Elevators -> SUBSET Elevators]
    /\ saved \in [Elevators -> BOOLEAN]

(* Nothing is left to happen but a press, a fault or a late timeout: every *)
(* message is handled, every car stands with its door closed or has run    *)
(* past the last floor, and every elevator knows the states of all others  *)
(* and has given up those that are down.                                   *)
Quiet ==
    /\ \A e, d \in Elevators : network[e][d] = <<>>
    /\ \A e \in Elevators : up[e] =>
          /\ ~ waiting[e] /\ ~ Moving(e)
          /\ elevator_states[e] = [d \in Others(e) |-> State(d)]
          /\ last_seen[e] = Others(e)

Owner(e, c) == assigned_to[e][c]

(* The calls of an elevator that is down are taken over by every elevator  *)
(* that knows of them, although the monitor may come first and give them   *)
(* to the dead elevator again (check_disconnected_elevators, twice).       *)
TakenOver ==
    Quiet => \A e \in Elevators, c \in Pressed :
                 up[e] /\ Owner(e, c) # Absent => up[Owner(e, c)]

(* e leaves call c to another elevator, which does not have it.            *)
Disowned(e, c) ==
    Owner(e, c) # e /\ ~ Contains(call_buttons[Owner(e, c)], c)

(* The owner has the call, but its car has run past the last floor, or     *)
(* stands still with direction STOP, as it does at a call for its floor:   *)
(* the next call that is assigned to it starts it.                         *)
Stranded(e, c) ==
    LET o == Owner(e, c)
    IN  /\ Contains(call_buttons[o], c)
        /\ motor[o] = DIRN_STOP => current_direction[o] = DIRN_STOP

(* A hall call that an elevator knows of and that is not served when all   *)
(* is done is one it leaves to an elevator that does not have it, or one   *)
(* whose car is stuck: an elevator that owns a call has it queued, and no  *)
(* car stands still with a call that a further one would not get going     *)
(* (control.rs:20).                                                        *)
LostInTwoWays ==
    Quiet => \A e \in Elevators, c \in Pressed :
                 up[e] /\ Owner(e, c) # Absent => Disowned(e, c) \/ Stranded(e, c)

(* "Re-evaluate hall call assignments" (system.rs:343): the states all     *)
(* elevators keep sending one another settle who takes a call, so none is  *)
(* left to another elevator for good.                                      *)
StatesSettleOwners ==
    Quiet => \A e \in Elevators, c \in Pressed :
                 up[e] /\ Owner(e, c) # Absent => ~ Disowned(e, c)
=============================================================================
