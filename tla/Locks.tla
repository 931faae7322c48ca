------------------------------- MODULE Locks -------------------------------
(***************************************************************************)
(* In which order the threads of one elevator process take its mutexes,    *)
(* and what they do while they hold them.                                  *)
(*                                                                         *)
(* A function of the code is a set of rows, one for each lock operation,   *)
(* and one for each wait: a sleep, a connect, a read or a write to a peer. *)
(* A row leads from a point to the points the code may go on at; data are  *)
(* left out, so that a test is a choice and a loop may repeat any number   *)
(* of times.  A function that is called from several places is a set of    *)
(* rows for each of them.                                                  *)
(*                                                                         *)
(* A point is <<f, n, part, held>>: the operation the thread is in, the    *)
(* place in it, where in the function called there, and the mutexes held.  *)
(*                                                                         *)
(* An operator named X_Something is the plausible mistake in X that the    *)
(* properties must be able to see; nothing uses it.                        *)
(***************************************************************************)
EXTENDS Naturals

CONSTANTS
    Threads,        \* the threads of the process that take a mutex
    Role            \* what each of them runs

Roles == {"main", "listener", "monitor", "reconnection", "greeter",
          "acceptor", "client", "poller"}

ASSUME LocksAssumption == Role \in [Threads -> Roles]

VARIABLE pc         \* of each thread: the point it is at

(* local_elevator, hall_calls, elevator_states and peers of ElevatorSystem,*)
(* peers of NetworkManager, socket of Elevator, the monitor and its        *)
(* active_elevators.                                                       *)
Mutexes == {"elevator", "hall_calls", "elevator_states", "peers",
            "streams", "socket", "monitor", "active"}

-----------------------------------------------------------------------------
(* Rows.                                                                   *)

Row(p, kind, mutex, next) == [at |-> p, kind |-> kind, mutex |-> mutex, next |-> next]

Into(f, names, held) == {<<f, n, "call", held>> : n \in names}

(* mutex.lock(), and the end of the guard's scope (or drop).               *)
Take(f, n, held, m, names) ==
    {Row(<<f, n, "call", held>>, "take", m, Into(f, names, held \cup {m}))}

Drop(f, n, held, m, names) ==
    {Row(<<f, n, "call", held>>, "drop", m, Into(f, names, held \ {m}))}

(* The mutex is taken, and dropped before anything else is done with locks.*)
Section(f, n, held, m, names) ==
    {Row(<<f, n, "call", held>>, "take", m, {<<f, n, "in", held \cup {m}>>}),
     Row(<<f, n, "in", held \cup {m}>>, "drop", m, Into(f, names, held))}

(* A sleep, a connect or a read.                                           *)
Wait(f, n, held, names) ==
    {Row(<<f, n, "call", held>>, "wait", "none", Into(f, names, held))}

-----------------------------------------------------------------------------
(* elev.rs and p2p_connect.rs.                                             *)

(* One command to the hardware, or several.                                *)
Hardware(f, n, held, names) == Section(f, n, held, "socket", names \cup {n})

(* NetworkManager::connect_to_peer.                                        *)
connect_to_peer(f, n, names) ==
    {Row(<<f, n, "call", {}>>, "wait", "none", {<<f, n, "add", {}>>} \cup Into(f, names, {})),
     Row(<<f, n, "add", {}>>, "take", "streams", {<<f, n, "in", {"streams"}>>}),
     Row(<<f, n, "in", {"streams"}>>, "drop", "streams", Into(f, names, {}))}

(* start_listener, for one connection, and handle_client, for one read.    *)
start_listener == Wait("accept", "start", {}, {"add"})
                  \cup Section("accept", "add", {}, "streams", {"end"})

handle_client == Wait("client", "start", {}, {"end", "remove"})
                 \cup Section("client", "remove", {}, "streams", {"end"})

-----------------------------------------------------------------------------
(* system.rs: sending.                                                     *)

add_peer(f, n, names) == Section(f, n, {}, "peers", names)

(* broadcast_message: send_message for each peer, which locks the streams  *)
(* and, if there is one for the peer, writes to it.                        *)
broadcast_message(f, n, held, names) ==
    LET listed == held \cup {"peers"}  both == listed \cup {"streams"}
        more == {<<f, n, "peer", listed>>, <<f, n, "done", listed>>}
    IN  {Row(<<f, n, "call", held>>, "take", "peers", more),
         Row(<<f, n, "peer", listed>>, "take", "streams",
             {<<f, n, "write", both>>, <<f, n, "sent", both>>}),
         Row(<<f, n, "write", both>>, "wait", "none", {<<f, n, "sent", both>>}),
         Row(<<f, n, "sent", both>>, "drop", "streams", more),
         Row(<<f, n, "done", listed>>, "drop", "peers", Into(f, names, held))}

(* broadcast_state holds the elevator while it sends; n and the two names  *)
(* after it are its places.                                                *)
broadcast_state(f, n, sending, sent, names) ==
    Take(f, n, {}, "elevator", {sending})
    \cup broadcast_message(f, sending, {"elevator"}, {sent})
    \cup Drop(f, sent, {"elevator"}, "elevator", names)

(* establish_bidirectional_connection holds it while it writes its state.  *)
establish_bidirectional_connection(f, names) ==
    Wait(f, "dial", {}, {"list"} \cup names)
    \cup add_peer(f, "list", {"connect"})
    \cup connect_to_peer(f, "connect", {"state"})
    \cup Take(f, "state", {}, "elevator", {"tell"})
    \cup Wait(f, "tell", {"elevator"}, {"told"})
    \cup Drop(f, "told", {"elevator"}, "elevator", names)

complete_call(f, n, sending, names) ==
    Section(f, n, {}, "hall_calls", {sending})
    \cup broadcast_message(f, sending, {}, names)

-----------------------------------------------------------------------------
(* system.rs: assigning.                                                   *)

assign_hall_call(f, n, names) ==
    LET E == {"elevator"}  H == {"hall_calls"}  S == {"elevator_states"}
        K == {"elevator", "socket"}  after == Into(f, names, {})
    IN  {Row(<<f, n, "call", {}>>, "take", "hall_calls", {<<f, n, "check", H>>}),
         Row(<<f, n, "check", H>>, "drop", "hall_calls", {<<f, n, "cost", {}>>} \cup after),
         Row(<<f, n, "cost", {}>>, "take", "elevator", {<<f, n, "own", E>>}),
         Row(<<f, n, "own", E>>, "drop", "elevator", {<<f, n, "costs", {}>>}),
         Row(<<f, n, "costs", {}>>, "take", "elevator_states", {<<f, n, "others", S>>}),
         Row(<<f, n, "others", S>>, "drop", "elevator_states", {<<f, n, "best", {}>>}),
         Row(<<f, n, "best", {}>>, "take", "hall_calls", {<<f, n, "write", H>>}),
         Row(<<f, n, "write", H>>, "drop", "hall_calls", {<<f, n, "mine", {}>>} \cup after),
         Row(<<f, n, "mine", {}>>, "take", "elevator", {<<f, n, "push", E>>}),
         Row(<<f, n, "push", E>>, "take", "socket", {<<f, n, "lamp", K>>}),
         Row(<<f, n, "lamp", K>>, "drop", "socket", {<<f, n, "push", E>>, <<f, n, "pushed", E>>}),
         Row(<<f, n, "pushed", E>>, "drop", "elevator", after)}

-----------------------------------------------------------------------------
(* The main thread.                                                        *)

(* main, before its loop: nothing is held by the hardware commands.        *)
start_up ==
    LET f == "start_up" IN
    broadcast_state(f, "start", "sending", "sent", {"register"})
    \cup Take(f, "register", {}, "monitor", {"active"})
    \cup Section(f, "active", {"monitor"}, "active", {"registered"})
    \cup Drop(f, "registered", {"monitor"}, "monitor", {"dial"})
    \cup establish_bidirectional_connection(f, {"dial", "home"})
    \cup Hardware(f, "home", {}, {"floor"})
    \cup Wait(f, "floor", {}, {"home", "end"})

cab_button ==
    Take("cab", "start", {}, "elevator", {"lamp"})
    \cup Hardware("cab", "lamp", {"elevator"}, {"done"})
    \cup Drop("cab", "done", {"elevator"}, "elevator", {"end"})

process_hall_call ==
    Take("press", "start", {}, "elevator", {"lamp"})
    \cup Hardware("press", "lamp", {"elevator"}, {"lit"})
    \cup Drop("press", "lit", {"elevator"}, "elevator", {"insert"})
    \cup Section("press", "insert", {}, "hall_calls", {"send"})
    \cup broadcast_message("press", "send", {}, {"assign"})
    \cup assign_hall_call("press", "assign", {"end"})

(* The floor arm calls serve_call, whose door wait holds nothing, while its *)
(* pause before a reversal holds the elevator.                             *)
floor_sensor ==
    LET f == "floor"  E == {"elevator"} IN
    Take(f, "start", {}, "elevator", {"indicator"})
    \cup Hardware(f, "indicator", E, {"arrived"})
    \cup Drop(f, "arrived", E, "elevator", {"serve"})

serve_call ==
    LET f == "floor"  E == {"elevator"} IN
    Take(f, "serve", {}, "elevator", {"leave", "stop"})
    \cup Hardware(f, "stop", E, {"served", "door", "leave"})
    \cup Drop(f, "served", E, "elevator", {"complete"})
    \cup complete_call(f, "complete", "completing", {"again"})
    \cup Take(f, "again", {}, "elevator", {"door"})
    \cup Hardware(f, "door", E, {"leave", "wait"})
    \cup Drop(f, "wait", E, "elevator", {"sleep"})
    \cup Wait(f, "sleep", {}, {"glance"})
    \cup Section(f, "glance", {}, "elevator", {"sleep", "depart", "end"})
    \cup Drop(f, "leave", E, "elevator", {"end"})

(* The rest of serve_call: the next call is decided.                       *)
serve_next ==
    LET f == "floor"  E == {"elevator"} IN
    Take(f, "depart", {}, "elevator", {"next", "remove", "pause", "shut"})
    \cup Drop(f, "next", E, "elevator", {"complete_next"})
    \cup complete_call(f, "complete_next", "completing_next", {"regain"})
    \cup Take(f, "regain", {}, "elevator", {"remove"})
    \cup Hardware(f, "remove", E, {"pause", "shut"})
    \cup Wait(f, "pause", E, {"shut"})
    \cup Hardware(f, "shut", E, {"leave"})

(* The stop arm reads the map, and waits for the door, with the elevator   *)
(* held.                                                                   *)
stop_button ==
    LET f == "stop"  E == {"elevator"} IN
    Take(f, "start", {}, "elevator", {"halt"})
    \cup Hardware(f, "halt", E, {"collect"})
    \cup Section(f, "collect", E, "hall_calls", {"sensor"})
    \cup Hardware(f, "sensor", E, {"open", "release"})
    \cup Wait(f, "open", E, {"close"})
    \cup Hardware(f, "close", E, {"release"})
    \cup Drop(f, "release", E, "elevator", {"reassign", "tell"})
    \cup assign_hall_call(f, "reassign", {"reassign", "tell"})
    \cup broadcast_state(f, "tell", "telling", "told", {"end"})

(* The obstruction arm releases the elevator before it reassigns.          *)
obstruction_Keeping ==
    LET f == "lever"  E == {"elevator"} IN
    Take(f, "start", {}, "elevator", {"sensor"})
    \cup Hardware(f, "sensor", E, {"leave", "find"})
    \cup Section(f, "find", E, "hall_calls", {"reassign", "leave"})
    \cup Section(f, "reassign", E, "elevator", {"leave"})
    \cup Drop(f, "leave", E, "elevator", {"end"})

obstruction ==
    LET f == "lever"  E == {"elevator"} IN
    Take(f, "start", {}, "elevator", {"sensor"})
    \cup Hardware(f, "sensor", E, {"leave", "release"})
    \cup Drop(f, "release", E, "elevator", {"find"})
    \cup Section(f, "find", {}, "hall_calls", {"mark", "regain"})
    \cup Section(f, "mark", {}, "hall_calls", {"reassign"})
    \cup assign_hall_call(f, "reassign", {"mark", "regain"})
    \cup Take(f, "regain", {}, "elevator", {"leave"})
    \cup Drop(f, "leave", E, "elevator", {"end"})

-----------------------------------------------------------------------------
(* The listener: messages and the timeout.                                 *)

handle_hall_call_message ==
    LET f == "hall_msg"  E == {"elevator"} IN
    add_peer(f, "start", {"light"})
    \cup Take(f, "light", {}, "elevator", {"lamp"})
    \cup Hardware(f, "lamp", E, {"lit"})
    \cup Drop(f, "lit", E, "elevator", {"update"})
    \cup Section(f, "update", {}, "hall_calls", {"assign", "end"})
    \cup assign_hall_call(f, "assign", {"end"})

(* message_listener records the heartbeat of a state first.                *)
handle_elevator_state_message_Shared ==
    LET f == "state_msg" IN
    Section(f, "start", {}, "monitor", {"list"})
    \cup add_peer(f, "list", {"state"})
    \cup Section(f, "state", {}, "elevator_states", {"calls"})
    \cup Take(f, "calls", {}, "hall_calls", {"cost"})
    \cup Section(f, "cost", {"hall_calls"}, "elevator", {"cost", "done"})
    \cup Drop(f, "done", {"hall_calls"}, "hall_calls", {"end"})

handle_elevator_state_message ==
    LET f == "state_msg" IN
    Take(f, "start", {}, "monitor", {"active"})
    \cup Section(f, "active", {"monitor"}, "active", {"recorded"})
    \cup Drop(f, "recorded", {"monitor"}, "monitor", {"list"})
    \cup add_peer(f, "list", {"state"})
    \cup Section(f, "state", {}, "elevator_states", {"calls"})
    \cup Section(f, "calls", {}, "hall_calls", {"assign", "end"})
    \cup assign_hall_call(f, "assign", {"assign", "end"})

handle_completed_call_message ==
    LET f == "completed_msg"  E == {"elevator"} IN
    add_peer(f, "start", {"entry"})
    \cup Section(f, "entry", {}, "hall_calls", {"light"})
    \cup Take(f, "light", {}, "elevator", {"lamp"})
    \cup Hardware(f, "lamp", E, {"dark"})
    \cup Drop(f, "dark", E, "elevator", {"queue", "end"})
    \cup Section(f, "queue", {}, "elevator", {"end"})

(* check_disconnected_elevators, process_calls_from_disconnected_elevators,*)
(* check_unassigned_hall_calls and broadcast_state.                        *)
timeout ==
    LET f == "timeout" IN
    Section(f, "start", {}, "elevator_states", {"forget", "unassigned"})
    \cup Section(f, "forget", {}, "elevator_states", {"find"})
    \cup Section(f, "find", {}, "hall_calls", {"mark"})
    \cup Section(f, "mark", {}, "hall_calls", {"reassign", "unassigned"})
    \cup assign_hall_call(f, "reassign", {"reassign", "unassigned"})
    \cup Section(f, "unassigned", {}, "hall_calls", {"sweep", "tell"})
    \cup assign_hall_call(f, "sweep", {"sweep", "tell"})
    \cup broadcast_state(f, "tell", "telling", "told", {"end"})

-----------------------------------------------------------------------------
(* The other threads.                                                      *)

(* start_health_monitoring: check_disconnected_elevators of                *)
(* fault_handler.rs, and reassign_hall_calls.                              *)
health_monitoring ==
    LET f == "expiry" IN
    Take(f, "start", {}, "monitor", {"active", "checked"})
    \cup Section(f, "active", {"monitor"}, "active", {"active", "checked"})
    \cup Drop(f, "checked", {"monitor"}, "monitor", {"find", "end"})
    \cup Section(f, "find", {}, "hall_calls", {"mark", "end"})
    \cup Section(f, "mark", {}, "hall_calls", {"reassign"})
    \cup assign_hall_call(f, "reassign", {"mark", "end"})

start_reconnection_service ==
    Wait("reconnect", "start", {}, {"dial"})
    \cup establish_bidirectional_connection("reconnect", {"dial", "end"})

(* The thread of main that greets one peer, once.                          *)
greet ==
    LET f == "greet"  E == {"elevator"} IN
    connect_to_peer(f, "start", {"list"})
    \cup add_peer(f, "list", {"connect"})
    \cup Wait(f, "connect", {}, {"state", "sleep"})
    \cup Take(f, "state", {}, "elevator", {"tell"})
    \cup Wait(f, "tell", E, {"told"})
    \cup Drop(f, "told", E, "elevator", {"sleep"})
    \cup Wait(f, "sleep", {}, {"end"})

poll == Hardware("poll", "start", {}, {"sleep"}) \cup Wait("poll", "sleep", {}, {"end"})

-----------------------------------------------------------------------------
Code == UNION {start_listener, handle_client, start_up, cab_button,
               process_hall_call, floor_sensor, serve_call, serve_next,
               stop_button, obstruction, handle_hall_call_message,
               handle_elevator_state_message, handle_completed_call_message, timeout, health_monitoring,
               start_reconnection_service, greet, poll}

(* What a thread runs, again and again; main runs start_up first.          *)
Repertoire ==
    [main         |-> {"cab", "press", "floor", "stop", "lever"},
     listener     |-> {"hall_msg", "state_msg", "completed_msg", "timeout"},
     monitor      |-> {"expiry"},
     reconnection |-> {"reconnect"},
     greeter      |-> {"greet"},
     acceptor     |-> {"accept"},
     client       |-> {"client"},
     poller       |-> {"poll"}]

Held(t) == pc[t][4]

(* The rows of a point, looked up rather than searched for.                *)
RowsAt == [p \in {r.at : r \in Code} |-> {r \in Code : r.at = p}]

AtEnd(t) == pc[t][2] = "end"

Rows(t) == IF pc[t] \in DOMAIN RowsAt THEN RowsAt[pc[t]] ELSE {}

Begin(t) ==
    /\ AtEnd(t)
    /\ \E f \in Repertoire[Role[t]] : pc' = [pc EXCEPT ![t] = <<f, "start", "call", {}>>]

GoOn(t, r) == \E p \in r.next : pc' = [pc EXCEPT ![t] = p]

Acquire_Shared(t) == \E r \in Rows(t) : r.kind = "take" /\ GoOn(t, r)

(* A take goes on when no thread holds the mutex, not even this one.       *)
Acquire(t) ==
    \E r \in Rows(t) :
        r.kind = "take" /\ (\A u \in Threads : r.mutex \notin Held(u)) /\ GoOn(t, r)

Release(t) == \E r \in Rows(t) : r.kind = "drop" /\ GoOn(t, r)

Pass(t) == \E r \in Rows(t) : r.kind = "wait" /\ GoOn(t, r)

Init == pc = [t \in Threads |-> IF Role[t] = "main"
                                THEN <<"start_up", "start", "call", {}>>
                                ELSE <<"none", "end", "call", {}>>]

Next == \E t \in Threads : Begin(t) \/ Acquire(t) \/ Release(t) \/ Pass(t)

Spec == Init /\ [][Next]_pc

-----------------------------------------------------------------------------
(* Properties.                                                             *)

Waits(t, m) == \E r \in Rows(t) : r.kind = "take" /\ r.mutex = m

(* Every point the code goes on at has rows, or is the end of an operation *)
(* at which nothing is held; and a mutex has one holder.                   *)
TypeOK ==
    /\ \A t \in Threads : IF AtEnd(t) THEN Held(t) = {} ELSE pc[t] \in DOMAIN RowsAt
    /\ \A t, u \in Threads : t # u => Held(t) \cap Held(u) = {}

(* No threads, and no single thread, wait for each other's mutexes in a    *)
(* circle, although the stop arm takes the map inside the elevator, the    *)
(* state is broadcast with the elevator, the peer list and the streams     *)
(* held, and every command to the car takes one more.                      *)
NoCircularWait ==
    \A S \in (SUBSET Threads) \ {{}} :
        ~ \A t \in S : \E u \in S : \E m \in Held(u) : Waits(t, m)

(* Whoever holds the hall-call map or the known states releases it next:   *)
(* it takes no other mutex, does not sleep, and does not write to a peer.  *)
(* So neither a peer that does not read nor an open door, which can keep   *)
(* the elevator mutex, the peer list and the streams, ever keeps the map.  *)
MapIsNeverHeldUp ==
    \A t \in Threads :
        Held(t) \cap {"hall_calls", "elevator_states"} # {} =>
            \A r \in Rows(t) : r.kind = "drop"
=============================================================================
