-------------------------- MODULE HallCallThreads --------------------------
(***************************************************************************)
(* The hall-call map of one elevator and the queue it feeds, as the three  *)
(* threads of the process change them: the main thread (buttons, serving,  *)
(* stop, lever), the listener (messages and its 500 ms timeout) and the    *)
(* health monitor.                                                         *)
(*                                                                         *)
(* An action is one lock section: no thread holds one mutex while another  *)
(* thread could wait for a second one in between (the stop arm, which      *)
(* takes the map inside the elevator mutex, is one action).  What happens  *)
(* to the car, and the costs behind a choice, are Car's and Assignment's:  *)
(* here any elevator that is known may win.                                *)
(*                                                                         *)
(* An operator named X_Something is the plausible mistake in X that the    *)
(* properties must be able to see; nothing uses it.                        *)
(***************************************************************************)
EXTENDS Control

CONSTANTS
    Me,             \* local_id
    Peers,          \* the ids of the other elevators
    Pressed,        \* the hall calls that occur
    MaxTime,        \* bound: timestamps, in seconds
    Limit,          \* bound: how often each operation begins
    MaxOperations   \* bound: how many operations begin

Operations == {"press", "serve", "serve_next", "stop", "lever", "hall_msg",
               "state_msg", "completed_msg", "timeout", "expiry"}

Absent     == "absent"      \* HashMap::get gives None
Unassigned == ""            \* String::new()
Ids        == {Me} \cup Peers

ASSUME ThreadsAssumption ==
    /\ Me \notin Peers /\ {Absent, Unassigned} \cap Ids = {}
    /\ Pressed \subseteq HallCalls /\ Pressed # {}
    /\ MaxTime \in Nat /\ MaxOperations \in Nat /\ Limit \in [Operations -> Nat]

Threads == {"main", "listener", "monitor"}

VARIABLES
    \* hall_calls: (floor, direction) to (owner, timestamp)
    assigned_to, timestamp,
    \* Mutex<Elevator>: the queue, and the call lamps it is shown by
    call_buttons, lamps,
    \* whom the listener and the health monitor have heard of lately
    elevator_states, last_seen,
    \* of each thread: where it is, the arguments of assign_hall_call, its
    \* choice, the calls a loop has still to handle, and whether that loop
    \* marks a call unassigned before it assigns it
    pc, call, time, best, todo, marks,
    \* main: next_call_index; listener: was_assigned_to_us, whether a sweep
    \* follows; listener and monitor: disconnected_ids
    index, ours, sweeps, gone,
    used

map    == <<assigned_to, timestamp>>
queue  == <<call_buttons, lamps>>
heard  == <<elevator_states, last_seen>>
args   == <<call, time, best>>
rest   == <<todo, marks, index, ours, sweeps, gone>>
locals == <<args, rest>>
vars   == <<map, queue, heard, pc, locals, used>>

-----------------------------------------------------------------------------
(* Helpers.                                                                *)

PCs == {"idle", "insert", "mark", "check", "choose", "write", "push", "loop",
        "completing", "completing_next", "removing_next", "panicked",
        "update", "snapshot", "darken", "dequeue", "find", "mark_all", "sweep"}

Item == [call : Pressed, timestamp : 0..MaxTime]

(* A panic of the main thread ends the process.                            *)
Running == pc["main"] # "panicked"

Goto(t, l) == pc' = [pc EXCEPT ![t] = l]

(* Thread t begins operation k, at l.                                      *)
Begin(t, k, l) ==
    /\ Running /\ pc[t] = "idle" /\ Goto(t, l)
    /\ used[k] < Limit[k] /\ SumFunction(used) < MaxOperations
    /\ used' = [used EXCEPT ![k] = @ + 1]

At(t, l) == Running /\ pc[t] = l

NoCall == CHOOSE c \in Pressed : TRUE

(* Thread t goes on at l; its arguments and choice end with the operation. *)
Proceed(t, l) ==
    /\ Goto(t, l)
    /\ IF l = "idle" THEN /\ call' = [call EXCEPT ![t] = NoCall]
                          /\ time' = [time EXCEPT ![t] = 0]
                          /\ best' = [best EXCEPT ![t] = Me]
       ELSE UNCHANGED args

(* Where t goes from the last section of an assignment, with items left.   *)
Resume(t, items) ==
    IF items # {} THEN "loop"
    ELSE IF t = "listener" /\ sweeps THEN "sweep" ELSE "idle"

Entries(owners) == {c \in Pressed : assigned_to[c] \in owners}
Items(owners) ==
    {[call |-> c, timestamp |-> timestamp[c]] : c \in Entries(owners)}

Insert_Later(c, owner, ts) ==
    /\ assigned_to' = [assigned_to EXCEPT ![c] = owner]
    /\ timestamp' = [timestamp EXCEPT ![c] = ts + 1]

Insert(c, owner, ts) ==
    /\ assigned_to' = [assigned_to EXCEPT ![c] = owner]
    /\ timestamp' = [timestamp EXCEPT ![c] = ts]

Forget(c) == Insert(c, Absent, 0)

-----------------------------------------------------------------------------
(* system.rs assign_hall_call, by thread t.                                *)

(* "If already assigned to someone, and no newer timestamp, do nothing".   *)
Check_AnyOwner(t) ==
    /\ At(t, "check")
    /\ Proceed(t, IF assigned_to[call[t]] # Absent /\ timestamp[call[t]] = time[t]
               THEN Resume(t, todo[t]) ELSE "choose")
    /\ UNCHANGED <<map, queue, heard, rest, used>>

Check(t) ==
    /\ At(t, "check")
    /\ Proceed(t, IF assigned_to[call[t]] \in Ids /\ timestamp[call[t]] = time[t]
               THEN Resume(t, todo[t]) ELSE "choose")
    /\ UNCHANGED <<map, queue, heard, rest, used>>

(* The costs of this elevator and of all in elevator_states; the lowest.   *)
Choose(t) ==
    /\ At(t, "choose") /\ Goto(t, "write")
    /\ \E winner \in {Me} \cup elevator_states : best' = [best EXCEPT ![t] = winner]
    /\ UNCHANGED <<map, queue, heard, call, time, rest, used>>

Write(t) ==
    /\ At(t, "write")
    /\ Insert(call[t], best[t], time[t])
    /\ Proceed(t, IF best[t] = Me THEN "push" ELSE Resume(t, todo[t]))
    /\ UNCHANGED <<queue, heard, rest, used>>

Push_Dark(t) ==
    /\ At(t, "push") /\ Proceed(t, Resume(t, todo[t]))
    /\ call_buttons' = Enqueue(call_buttons, call[t])
    /\ UNCHANGED <<map, lamps, heard, rest, used>>

Push_Front(t) ==
    /\ At(t, "push") /\ Proceed(t, Resume(t, todo[t]))
    /\ lamps' = lamps \cup {call[t]}
    /\ call_buttons' = IF Contains(call_buttons, call[t]) THEN call_buttons
                       ELSE <<call[t]>> \o call_buttons
    /\ UNCHANGED <<map, heard, rest, used>>

Push(t) ==
    /\ At(t, "push") /\ Proceed(t, Resume(t, todo[t]))
    /\ lamps' = lamps \cup {call[t]}
    /\ call_buttons' = Enqueue(call_buttons, call[t])
    /\ UNCHANGED <<map, heard, rest, used>>

(* The next of several calls to assign, in the order of the hash map.      *)
Loop(t) ==
    /\ At(t, "loop")
    /\ \E r \in todo[t] :
          /\ call' = [call EXCEPT ![t] = r.call]
          /\ time' = [time EXCEPT ![t] = r.timestamp]
          /\ todo' = [todo EXCEPT ![t] = @ \ {r}]
    /\ Goto(t, IF marks[t] THEN "mark" ELSE "check")
    /\ UNCHANGED <<map, queue, heard, best, marks, index, ours, sweeps, gone, used>>

(* The obstruction arm and reassign_hall_calls reset the owner first.      *)
Mark(t) ==
    /\ At(t, "mark") /\ Goto(t, "check")
    /\ Insert(call[t], Unassigned, time[t])
    /\ UNCHANGED <<queue, heard, locals, used>>

Assigning(t) == Check(t) \/ Choose(t) \/ Write(t) \/ Push(t) \/ Loop(t) \/ Mark(t)

-----------------------------------------------------------------------------
(* The main thread.                                                        *)

(* process_hall_call: the lamp, the entry, and from there an assignment.   *)
(* The system clock, the timestamp, may be any.                            *)
Press(c, ts) ==
    /\ Begin("main", "press", "insert")
    /\ call' = [call EXCEPT !["main"] = c]
    /\ time' = [time EXCEPT !["main"] = ts]
    /\ lamps' = lamps \cup {c}
    /\ UNCHANGED <<map, call_buttons, heard, best, rest>>

InsertPressed ==
    /\ At("main", "insert") /\ Goto("main", "check")
    /\ Insert(call["main"], Unassigned, time["main"])
    /\ UNCHANGED <<queue, heard, locals, used>>

(* serve_call takes a call from the queue, and then from the map.          *)
Serve(i) ==
    /\ Begin("main", "serve", "completing")
    /\ call' = [call EXCEPT !["main"] = call_buttons[i]]
    /\ lamps' = lamps \ {call_buttons[i]}
    /\ call_buttons' = RemoveAt(call_buttons, i)
    /\ UNCHANGED <<map, heard, time, best, rest>>

CompleteServed_Kept ==
    /\ At("main", "completing") /\ Proceed("main", "idle")
    /\ UNCHANGED <<map, queue, heard, rest, used>>

CompleteServed ==
    /\ At("main", "completing") /\ Proceed("main", "idle")
    /\ Forget(call["main"])
    /\ UNCHANGED <<queue, heard, rest, used>>

(* A further call for the floor: first from the map, then from the queue,  *)
(* where it is expected at the position it was found at.                   *)
ServeNext(i) ==
    /\ Begin("main", "serve_next", "completing_next")
    /\ call' = [call EXCEPT !["main"] = call_buttons[i]]
    /\ index' = i
    /\ UNCHANGED <<map, queue, heard, time, best, todo, marks, ours, sweeps, gone>>

CompleteNext ==
    /\ At("main", "completing_next") /\ Goto("main", "removing_next")
    /\ Forget(call["main"])
    /\ UNCHANGED <<queue, heard, locals, used>>

RemoveNext ==
    /\ At("main", "removing_next")
    /\ lamps' = lamps \ {call["main"]}
    /\ IF index \in DOMAIN call_buttons
       THEN call_buttons' = RemoveAt(call_buttons, index) /\ Proceed("main", "idle")
       ELSE Proceed("main", "panicked") /\ UNCHANGED call_buttons
    /\ index' = 0
    /\ UNCHANGED <<map, heard, todo, marks, ours, sweeps, gone, used>>

(* The stop arm: the map is read with the elevator mutex held.             *)
StopButton ==
    /\ Begin("main", "stop", Resume("main", Items({Me})))
    /\ call_buttons' = <<>> /\ lamps' = {}
    /\ todo' = [todo EXCEPT !["main"] = Items({Me})]
    /\ marks' = [marks EXCEPT !["main"] = FALSE]
    /\ UNCHANGED <<map, heard, args, index, ours, sweeps, gone>>

(* The obstruction arm.                                                    *)
Obstruction ==
    /\ Begin("main", "lever", Resume("main", Items({Me})))
    /\ todo' = [todo EXCEPT !["main"] = Items({Me})]
    /\ marks' = [marks EXCEPT !["main"] = TRUE]
    /\ UNCHANGED <<map, queue, heard, args, index, ours, sweeps, gone>>

MainSteps == \/ InsertPressed \/ CompleteServed \/ CompleteNext \/ RemoveNext
             \/ Assigning("main")

-----------------------------------------------------------------------------
(* The listener.                                                           *)

(* handle_hall_call_message: the lamp always, the entry if the press is    *)
(* newer than the one known, or that one is unassigned.                    *)
HallMessage(c, ts) ==
    /\ Begin("listener", "hall_msg", "update")
    /\ call' = [call EXCEPT !["listener"] = c]
    /\ time' = [time EXCEPT !["listener"] = ts]
    /\ lamps' = lamps \cup {c}
    /\ UNCHANGED <<map, call_buttons, heard, best, rest>>

UpdateEntry ==
    /\ At("listener", "update")
    /\ LET c == call["listener"]  ts == time["listener"]
       IN  IF assigned_to[c] \in {Absent, Unassigned} \/ ts > timestamp[c]
           THEN Insert(c, Unassigned, ts) /\ Proceed("listener", "check")
           ELSE UNCHANGED map /\ Proceed("listener", "idle")
    /\ UNCHANGED <<queue, heard, rest, used>>

(* handle_elevator_state_message, with the heartbeat message_listener      *)
(* records first; then every call of the map is assigned again.            *)
StateMessage(id) ==
    /\ Begin("listener", "state_msg", "snapshot")
    /\ elevator_states' = elevator_states \cup {id}
    /\ last_seen' = last_seen \cup {id}
    /\ UNCHANGED <<map, queue, locals>>

Snapshot ==
    /\ At("listener", "snapshot")
    /\ LET items == Items(Ids \cup {Unassigned})
       IN  /\ todo' = [todo EXCEPT !["listener"] = items]
           /\ Goto("listener", Resume("listener", items))
    /\ marks' = [marks EXCEPT !["listener"] = FALSE]
    /\ UNCHANGED <<map, queue, heard, args, index, ours, sweeps, gone, used>>

(* handle_completed_call_message: the entry, the lamp, the queue.          *)
CompletedMessage(c) ==
    /\ Begin("listener", "completed_msg", "darken")
    /\ call' = [call EXCEPT !["listener"] = c]
    /\ ours' = (assigned_to[c] = Me)
    /\ Forget(c)
    /\ UNCHANGED <<queue, heard, time, best, todo, marks, index, sweeps, gone>>

Darken ==
    /\ At("listener", "darken")
    /\ lamps' = lamps \ {call["listener"]}
    /\ Proceed("listener", IF ours THEN "dequeue" ELSE "idle")
    /\ ours' = FALSE
    /\ UNCHANGED <<map, call_buttons, heard, todo, marks, index, sweeps, gone, used>>

Dequeue ==
    /\ At("listener", "dequeue") /\ Proceed("listener", "idle")
    /\ call_buttons' = RemoveCall(call_buttons, call["listener"])
    /\ UNCHANGED <<map, lamps, heard, rest, used>>

(* The timeout: forget the elevators not heard of (check_disconnected_     *)
(* elevators), mark all their calls, assign them, and sweep up what is     *)
(* unassigned (check_unassigned_hall_calls).                               *)
Timeout(ids) ==
    /\ ids \subseteq elevator_states
    /\ Begin("listener", "timeout", IF ids = {} THEN "sweep" ELSE "find")
    /\ elevator_states' = elevator_states \ ids
    /\ gone' = [gone EXCEPT !["listener"] = ids]
    /\ sweeps' = TRUE
    /\ UNCHANGED <<map, queue, last_seen, args, todo, marks, index, ours>>

MarkAll_Skipped ==
    /\ At("listener", "mark_all")
    /\ todo' = [todo EXCEPT !["listener"] = {}] /\ Goto("listener", "sweep")
    /\ assigned_to' = [c \in Pressed |->
            IF \E r \in todo["listener"] : r.call = c THEN Unassigned ELSE assigned_to[c]]
    /\ UNCHANGED <<timestamp, queue, heard, call, time, best, marks, index, ours, sweeps, gone, used>>

MarkAll ==
    /\ At("listener", "mark_all")
    /\ assigned_to' = [c \in Pressed |->
            IF \E r \in todo["listener"] : r.call = c THEN Unassigned ELSE assigned_to[c]]
    /\ timestamp' = [c \in Pressed |->
            IF \E r \in todo["listener"] : r.call = c
            THEN (CHOOSE r \in todo["listener"] : r.call = c).timestamp
            ELSE timestamp[c]]
    /\ Goto("listener", Resume("listener", todo["listener"]))
    /\ UNCHANGED <<queue, heard, locals, used>>

Sweep ==
    /\ At("listener", "sweep")
    /\ todo' = [todo EXCEPT !["listener"] = Items({Unassigned})]
    /\ marks' = [marks EXCEPT !["listener"] = FALSE]
    /\ sweeps' = FALSE
    /\ Goto("listener", IF Items({Unassigned}) = {} THEN "idle" ELSE "loop")
    /\ UNCHANGED <<map, queue, heard, args, index, ours, gone, used>>

ListenerSteps == \/ UpdateEntry \/ Snapshot \/ Darken \/ Dequeue
                 \/ MarkAll \/ Sweep \/ Assigning("listener")

-----------------------------------------------------------------------------
(* The health monitor.                                                     *)

(* check_disconnected_elevators of fault_handler.rs; an elevator never     *)
(* renews its own heartbeat, so that it may find itself.                   *)
Expiry(ids) ==
    /\ ids \subseteq last_seen /\ ids # {}
    /\ Begin("monitor", "expiry", "find")
    /\ last_seen' = last_seen \ ids
    /\ gone' = [gone EXCEPT !["monitor"] = ids]
    /\ UNCHANGED <<map, queue, elevator_states, args, todo, marks, index, ours, sweeps>>

(* The calls of the elevators that are gone: process_calls_from_           *)
(* disconnected_elevators marks all of them, then assigns them;            *)
(* reassign_hall_calls marks and assigns one after the other.              *)
Find(t) ==
    /\ At(t, "find")
    /\ LET items == Items(gone[t])
       IN  /\ todo' = [todo EXCEPT ![t] = items]
           /\ Goto(t, IF items = {} \/ t = "monitor" THEN Resume(t, items)
                      ELSE "mark_all")
    /\ marks' = [marks EXCEPT ![t] = (t = "monitor")]
    /\ gone' = [gone EXCEPT ![t] = {}]
    /\ UNCHANGED <<map, queue, heard, args, index, ours, sweeps, used>>

-----------------------------------------------------------------------------
Init ==
    /\ assigned_to = [c \in Pressed |-> Absent]
    /\ timestamp = [c \in Pressed |-> 0]
    /\ call_buttons = <<>> /\ lamps = {}
    /\ elevator_states = {} /\ last_seen = {Me}
    /\ pc = [t \in Threads |-> "idle"]
    /\ call = [t \in Threads |-> NoCall]
    /\ time = [t \in Threads |-> 0]
    /\ best = [t \in Threads |-> Me]
    /\ todo = [t \in Threads |-> {}]
    /\ marks = [t \in Threads |-> FALSE]
    /\ index = 0 /\ ours = FALSE /\ sweeps = FALSE
    /\ gone = [t \in Threads |-> {}]
    /\ used = [k \in Operations |-> 0]

Thread(t) == \/ Assigning(t) \/ Find(t)
             \/ t = "main" /\ MainSteps
             \/ t = "listener" /\ ListenerSteps

Begins == \/ \E c \in Pressed : \/ \E ts \in 0..MaxTime : Press(c, ts) \/ HallMessage(c, ts)
                                \/ CompletedMessage(c)
          \/ \E i \in DOMAIN call_buttons : Serve(i) \/ ServeNext(i)
          \/ StopButton \/ Obstruction
          \/ \E id \in Peers : StateMessage(id)
          \/ \E ids \in SUBSET Ids : Timeout(ids) \/ Expiry(ids)

Next == (\E t \in Threads : Thread(t)) \/ Begins

Spec == Init /\ [][Next]_vars

(* No thread is descheduled for good.                                      *)
FairSpec == Spec /\ \A t \in Threads : WF_vars(Thread(t))

-----------------------------------------------------------------------------
(* Properties.                                                             *)

(* Everything stays in the range the code's types and states allow.        *)
TypeOK ==
    /\ assigned_to \in [Pressed -> Ids \cup {Unassigned, Absent}]
    /\ timestamp \in [Pressed -> 0..MaxTime]
    /\ call_buttons \in Seq(Pressed) /\ lamps \subseteq Pressed
    /\ elevator_states \subseteq Ids /\ last_seen \subseteq Ids
    /\ pc \in [Threads -> PCs]
    /\ call \in [Threads -> Pressed] /\ time \in [Threads -> 0..MaxTime]
    /\ best \in [Threads -> Ids] /\ todo \in [Threads -> SUBSET Item]
    /\ marks \in [Threads -> BOOLEAN]
    /\ index \in Nat /\ ours \in BOOLEAN /\ sweeps \in BOOLEAN
    /\ gone \in [Threads -> SUBSET Ids]
    /\ used \in [Operations -> Nat]

(* Thread t is on its way to give c an owner.                              *)
Committed(t, c) ==
    \/ pc[t] \in {"mark", "check", "choose", "write"} /\ call[t] = c
    \/ pc[t] \in {"mark", "check", "choose", "write", "push", "loop", "mark_all"}
       /\ \E r \in todo[t] : r.call = c

(* No call is left unassigned without a thread at work on it, whatever the *)
(* three threads do to the map between each other's lock sections: the     *)
(* sweep of check_unassigned_hall_calls is a safety net nothing falls in.  *)
Attended ==
    \A c \in Pressed : assigned_to[c] = Unassigned => \E t \in Threads : Committed(t, c)

(* So, if every thread goes on, an unassigned call gets an owner, or is    *)
(* completed: no two threads keep undoing each other's assignment.  (A     *)
(* panic, see PositionHolds, ends the process.)                            *)
Owned == \A c \in Pressed :
    assigned_to[c] = Unassigned ~> assigned_to[c] # Unassigned \/ ~ Running

(* A call this elevator owns is in its queue, or about to be pushed by the *)
(* thread that took it, or just served, as long as nobody else empties the *)
(* queue: no stop, no completion reported by a peer, and no second call    *)
(* removed at a position found earlier.  Assignments of all three threads  *)
(* and the removal of served calls may interleave.                         *)
OwnedIsQueued ==
    used["stop"] + used["completed_msg"] + used["serve_next"] = 0 =>
        \A c \in Entries({Me}) :
            \/ Contains(call_buttons, c)
            \/ \E t \in Threads : pc[t] = "push" /\ call[t] = c
            \/ pc["main"] = "completing" /\ call["main"] = c

(* A queued call is lit, although lamps and queue are switched by all      *)
(* threads, unless a peer reports a completion: a call it owns is darkened *)
(* here and stays in a queue it was in before it changed hands.            *)
QueuedIsLit ==
    used["completed_msg"] = 0 =>
        \A c \in Pressed : Contains(call_buttons, c) => c \in lamps

(* The position serve_call found before it released the mutex is still the *)
(* one of its call when it removes it (control.rs:211-221), however many   *)
(* calls are pushed in between: only a reported completion moves it.       *)
PositionHolds ==
    used["completed_msg"] = 0 /\ pc["main"] \in {"completing_next", "removing_next"} =>
        index \in DOMAIN call_buttons /\ call_buttons[index] = call["main"]
=============================================================================
