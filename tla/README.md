# A verification project for the elevator controller

This directory holds TLA+ modules for the Rust elevator controller in `src/`, the TLC
configurations that check them on small instances, and TLAPS proofs of what holds for every
instance. `PROJECT.json` maps each definition to its lines of code and lists runs, findings,
hazards and theorems.

## 1. Inventory

| Component | State it keeps | Operations | Correct when |
|---|---|---|---|
| Main loop and start-up (`main.rs`) | which arm of `select!` runs, its locals | load the saved state, start the pollers, drive to floor 0; cabin/hall button, floor event, stop button, obstruction lever | the car never leaves the shaft; lamps and queue agree; a cleared queue is not owned any more; a restart loses no cabin call and resumes |
| Serving (`control.rs`) | none of its own, all in `Mutex<Elevator>` | `start_elevator`, `decide_next_call`, `serve_call` and helpers | every call is served in the end, only at its floor, with the motor off; no turning round with calls ahead; the door is shut when the car runs |
| Pollers (`poll.rs`) | the last sample of each input | send an event on each change | each change is an event, once |
| Persistence (`fault_handler.rs`) | `elevator_<id>_state.txt` | `persist_elevator_state`, `load_elevator_state` | the file holds every cabin call of the queue |
| Hall calls (`system.rs`) | `hall_calls`: (floor, direction) to (owner, timestamp); `elevator_states`; `peers` | `process_hall_call`, `assign_hall_call`, `complete_call`, handlers of received messages, timeouts | an owned call is in its owner's queue; every call has exactly one owner in the end |
| Cost (`cost.rs`) | none | `calculate_cost` | equal knowledge gives the same choice; an obstructed elevator is the last resort |
| Health monitor (`fault_handler.rs`) | `last_seen` | `record_heartbeat`, `check_disconnected_elevators`, `reassign_hall_calls` | calls of a silent elevator, and only these, are reassigned |
| Messages, listener (`cost.rs`, `system.rs`) | a receive buffer, a channel | `to_string`, `from_string`, `message_listener` | what is sent is what is handled |
| Connections (`p2p_connect.rs`, `system.rs`) | the open streams | connect, send, reconnect | messages to a connected peer arrive |
| Hardware (`elev.rs`, Simulator-v2) | motor, door lamp, call lamps, sensors | four-byte commands over TCP | pure I/O |

**How they interact.** The pollers feed four unbounded channels; the main thread takes one event
at a time. The main thread, the listener thread (which handles messages and, every 500 ms without
one, disconnects) and the health monitor share `Mutex<Elevator>` and the mutex of the hall-call
map. Elevators talk through TCP streams: a hall call and its completion are broadcast, each elevator
sends its state (floor, direction, queue, obstruction) every 500 ms, and each computes for itself,
from what it has last heard, who takes a call.

**What is hard.** `serve_call` releases the elevator mutex for the three seconds of the open door
and around `complete_call`; two other threads change the queue and start the motor meanwhile. The
main thread handles nothing while it waits, so events are handled late and against another state.
The process may crash and restart with what the file holds, also in the middle of writing it. The
hall-call map and the queue are two structures under two mutexes, and an assignment takes five locks
one after the other. Elevators compute from outdated states; messages are lost, cut or merged, and
an elevator that is alive may be taken for dead. Each hazard is listed with its line under `hazards` in
`PROJECT.json`; a hazard that no property covers says why in its note.

## 2. Reading of main.rs

`main.rs` does not compile at this commit, so parts of it have to be read as meant:

- `main.rs:227-256`: the braces do not match; there is an `else` without `if`, for hall calls. The
  missing test is `call_button.call == CAB`.
- `main.rs:229-264`: `elevator` in the cabin-call and floor arms is the variable of `main.rs:43`,
  and is passed to `serve_call`, which takes an `&ElevatorSystem` and locks
  `local_elevator`. The stop and obstruction arms lock `elevator_system.local_elevator`. All arms
  are read as acting on this one.
- `is_obstructed` and `obstruction_start_time` are fields of `Elevator` in all uses and in no
  declaration (`elev.rs:10-16`). They are read as fields, at first `false` and `None`.
- `main.rs:397` assigns to an immutable local that only a log line reads afterwards: no effect.

## 3. Modules

| Module | Models |
|---|---|
| `Control` | the constants of `elev.rs` and the pure functions of `control.rs`; positions and removals in the queue |
| `Car`, `MCCar` | one elevator: main thread, pollers, car, lamps, file, and the handlers of the two background threads that reach it |
| `Cost` | `calculate_cost`, and the order by which `assign_hall_call` sorts |
| `Assignment`, `MCAssignment` | the choice of the winner among elevators that know the same |
| `HallCallThreads`, `MCHallCallThreads` | the hall-call map and the queue of one elevator, lock section by lock section: main thread, listener, health monitor |
| `PeerGroup`, `MCPeerGroup` | several elevators, each with its map, and the messages between them; composes `Cost` and `Control` |
| `Locks`, `MCLocks` | the lock operations and waits of every thread of a process |
| `StateFile` | what the state file promises (abstract) |
| `Persist`, `MCPersist` | writing the file piece by piece, reading it back; implements `StateFile` |
| `Messages`, `MCMessages` | one connection: formatting, parsing, reads of any length |
| `ControlLemmas` | lemmas about the queue operators |
| `CarProofs`, `AssignmentProofs`, `ThreadProofs`, `LockProofs`, `PersistProofs`, `PeerGroupProofs`, `MessageProofs` | theorems about the module of that name; the second half of `CarProofs` is about an elevator that runs undisturbed |

The modules divide the process by what can interfere. `Car` has everything the main thread does and
the background handlers as steps of their own; `HallCallThreads` opens those steps up and leaves the
car out; `PeerGroup` puts several maps side by side and takes a handler as one step again. What one
of them leaves open as a choice is what another one models.

**`Car`: state.** `call_buttons`, `current_floor`, `current_direction`, `is_obstructed` are the
fields of the locked `Elevator`; `assigned_to` is the hall-call map with the owner reduced to
nobody, unassigned, this elevator or another one, and the timestamp left out. `pc` says where the
main thread is, `at` is the argument `floor` of `serve_call`, `next_index`, `next_type`, `new_dir`,
`todo` are its other locals (reset when dead). `pos` is the position of the car in half floors:
even is at a floor, where the sensor is active. `disk` is the state file. The channels are
sequences; the stop channel only counts presses, because a release does nothing.

**`Car`: actions.** An action is what a thread does from one point where another can get in to the
next. `serve_call` is `ServeNothing` / `ServeCall`, `CompleteServed`, `DoorWait`, then one of
`DepartIdle`, `DepartToward`, `ImmediateCall` (+ `CompleteNext`, `RemoveNext` for a hall call),
and `ReverseAfterPause` when it pauses. The arms are `CabButton`, `HallButton`, `FloorSensor`,
`StopButton` + `StopDoorCloses` + `StopReassign`, `Obstruction` + `ObstructionReassign`. The
background threads are `ReceiveHallCall`, `ReceiveCompleted`, `ReassignLost`, guarded by the
elevator mutex being free. `Crash` loses everything but file and hardware, and restarts.

**`HallCallThreads`.** `assigned_to` and `timestamp` are the map, entry by entry; `call_buttons` and
`lamps` are what the elevator mutex guards; `elevator_states` and `last_seen` are whom the listener
and the monitor have heard of. Each of the three threads has a `pc` and the locals that outlive a
lock section. An action is one lock section: `assign_hall_call` is `Check`, `Choose`, `Write`,
`Push`, and the loops that call it take the next entry (`Loop`), reset it first where the code does
(`Mark`, or all at once in `MarkAll`). The beginnings of operations (`Press`, `Serve`, `ServeNext`,
`StopButton`, `Obstruction`, `HallMessage`, `StateMessage`, `CompletedMessage`, `Timeout`,
`Expiry`) come from outside in any order. The winner may be any elevator that is known.

**`PeerGroup`.** Each variable of the above is a function of the elevator; `network[e][d]` is what
`e` has sent to `d`, in order. An action is a whole handler: `Press` (`process_hall_call` with its
assignment and broadcast), `Pass` / `Serve` (the floor arm and `serve_call` up to the door),
`DepartIdle` / `DepartToward` / `DepartServing` (the rest of it), `ReceiveHall`,
`ReceiveCompleted`, `ReceiveState` (with the re-evaluation of all calls), `Heartbeat`, `Timeout` and
`Expiry` (the two records of silent elevators), `Lose`, `Crash`, `Restart`. The costs are those of
`Cost`, from the state an elevator has last received of each other one. Timeouts of a dead elevator
are free, those of one that is alive are faults. Left out: cabin calls, stop, lever, lamps, and the
monitor's entry of the elevator itself. An elevator restarts when it finds no state file; with one
it comes back as `Car` and `Persist` say.

**`Locks`.** A function is a set of rows: at a point, take or drop a mutex or wait, and go on at one
of some points; data are left out, so that tests are choices and loops repeat at will. `Repertoire`
says which functions a role runs. The eight mutexes are `local_elevator`, `hall_calls`,
`elevator_states`, `peers`, the streams of `NetworkManager`, the socket to the hardware, the monitor
and its `active_elevators`. A thread that sends an event to a channel never waits: they are unbounded.

**`StateFile` and `Persist`.** A line is the sequence of its parts between commas. Each number and
comma `writeln!` writes is a step (`WriteHeader`, `WriteCall`), any step may fail (`WriteFails`) and
a restart may come anywhere. The callers are reduced to what they do to queue and file: which ones
save (`Changed`) and which do not (`Unsaved`) is the point of `CabCallsRecovered`. The change of the
queue and the save are separate steps: after a press, a service or a completion `at` is `"changed"`,
in the three seconds of the stop arm it is `"stop_door"` (`main.rs:290-312`), and `Persist` begins
the save from either, so that a restart may also come in between. A newline at
the end of the file makes no difference to `BufRead::lines`, so it is written with the number
before it. That the operating system keeps the order of writes is assumed. The refinement maps
`content` to what `load_elevator_state` makes of the lines on disk.

**`Messages`.** Text is a sequence of tokens: digits, separators, words in two halves. `Read(n)`
takes any `n` tokens up to the size of the buffer and parses them as one message, as
`message_listener` does. `Fail` ends the connection with a part of the text undelivered.

**What is abstracted, and why it loses nothing the properties speak of.**

- Which elevator wins an assignment is a choice of `Car` and `HallCallThreads`; how it is made is
  `Assignment` and `PeerGroup`. In `Car` timestamps are the choice "newer or not".
- In `Car`, `assign_hall_call`, `handle_completed_call_message`, the reassignment of one call and
  `complete_call` are one step each, and writing the file always succeeds: what comes in between is
  in `HallCallThreads` and `Persist`. The steps of `PeerGroup` are whole handlers for the same reason.
- The floor poller samples every floor the car passes: 25 ms against seconds. While the main thread
  is awake it handles a floor event before the car has left the sensor (`MoveCar`); while it
  sleeps, or is busy connecting, the car may travel any distance (`Slow`).
- The car stops where it is when told to; past the end of the shaft it stays, one half floor out:
  `InShaft` is about this. In `PeerGroup` it stays at the last floor with its motor on. The lever
  may be moved at any time.
- In `PeerGroup` a car is at a floor or on its way to the next one, and its elevator handles the
  floor event when it gets there.
- A heartbeat that says nothing new is left out of `PeerGroup`: it would change no state there. So
  is the choice when five seconds are over: a timeout may come whenever nothing of a dead elevator is
  on its way, and at the price of a fault whenever it is alive.
- Costs compare ids as strings; the modules compare numbers, the same for ids of one digit.

**Constants.** `NumFloors \in 2..255`: floors are `u8` and 255 is the pollers' "none".
`Buttons` are buttons the panel has, `Pressed` the hall calls among them. The `Max...` constants and
`Limit` bound how often the outside world acts; they appear in guards only.

**Mutants.** An operator named `X_Something` is `X` with a plausible mistake: the wrong
comparison, a forgotten reset, a test left out. Nothing uses them; each shows that one property of
a passing run would notice the mistake.

## 4. Runs

| Run | Instance | Shows |
|---|---|---|
| `car_alone` | 3 floors, no peers; 4 presses, 1 stop, 1 lever movement | `InShaft`, `HeadingToCall`: the car never runs past its last call, and so never out of the shaft; `LampsShowCalls`; `ServedAtItsFloor`; until a stop `OwnedCallsQueued`; under fairness, until stop or lever, `ElsewhereServed` |
| `car_everything` | 3 floors, peers; 2 presses, 1 stop, 1 lever movement, 1 background handler, 1 crash | what holds whatever interleaves: `TypeOK`, `NoDuplicateCalls`, `CabCallsSurvive`, `MotorFollowsDirection`, `CabCallTaken`, `KeepsDirection` (also when the queue grows while the door is open); before a lever movement or crash `RunsOpenOnlyInWait` |
| `assignment` | 2 elevators, 3 floors, queues up to 2, all states and calls | `FreeBeforeObstructed`, `Agreement`, `NearestIdle` |
| `threads` | 2 calls, 1 peer, timestamps 0 and 1; any 4 operations, each at most once, presses twice | `Attended`, `OwnedIsQueued`, `QueuedIsLit`, `PositionHolds`; under fairness `Owned` |
| `locks` | main thread, listener, monitor, reconnection service | `NoCircularWait`, `MapIsNeverHeldUp`, and no deadlock |
| `persist` | 2 cabin calls and a hall call, queues up to 3 | `FileKeepsContract` (the refinement), `CabCallsRecovered`: between saves the cabin calls in the file are those of the queue, and all but one while a press or a service is yet to be saved |
| `peers` | 2 elevators, 3 floors, 2 calls, timestamps 0 and 1; 2 presses, 1 fault | `TakenOver`, `LostInTwoWays` |
| `messages` | 4 kinds of message, 3 sent, reads of 1 to 20 tokens | `HandledWereSent`, `WholeReadsHandled` |

*Bounds.* Three floors are the least where a middle floor has both hall buttons and calls on both
sides. A surprise of `serve_call` needs at most one call ahead, one behind and one at the floor:
three presses reach every combination, a fourth one a queue that changes while the first is served.
`car_alone` has at most two buttons for any one floor: with three `ElsewhereServed` fails (below);
`car_everything` and the proofs have all three. One stop, lever movement, background handler or crash at
any of the reachable states is every single interruption; that a lever goes up and down again is
left to the proofs. In `threads` each of the three threads is inside an operation
while a fourth one has changed the map before; a race over one entry needs two threads, and the
second call is there for loops that have more than one. Two presses and one fault in `peers` are a
call, a second one that makes the choice depend on what is known of the first, and one thing that
goes wrong at any point; timestamps 0 and 1 are a newer and an older press of the same call. The
buffer of `messages` holds any one message and up to three of the short ones, so that reads merge,
cut, and do both. The four threads of `locks` include all that take a mutex while they hold another;
the roles left out (greeter, acceptor, reader, poller) hold one at a time, and the theorem has them
all. The proofs of section 6 have no bounds.

*Deadlock* is checked in `locks` and `persist`, where the code goes on for ever. Elsewhere presses,
faults and messages are bounded, so that every run of the model ends with nothing left to do.

*Runs that fail* show where the code and what it says of itself disagree (`findings`):

| Run | Property | What happens |
|---|---|---|
| `recovery` | `ElsewhereServed` | the queue restored after a crash is never started |
| `stale_position` | `NextIndexIsNextCall` | a completed-call message shortens the queue between search and removal: another call is lost, or `Vec::remove` panics. Without such a message `PositionHolds`, as `threads` and `PositionKept` show |
| `standoff` | `StatesSettleOwners` | two elevators each leave a call to the other. Each takes the winner from what it last heard and tells nobody; a state that arrives later re-evaluates only calls without an owner, and there are none (`system.rs:343`, `:402`) |
| `lever` | `LeverHalts` | the lever "halts the elevator if the door is open, or [...] at the moment when the door opens" (`README.md:6`): raised while a running car leaves or passes a floor it opens the door lamp, and the motor goes on (`main.rs:338`, `:357`) |

`LeverHalts` fails in two more ways, which TLC finds when the first is excluded. Raised between
floors, the event of the lever is dropped (`main.rs:396-399`) and never repeated (`poll.rs:61`), so that
the next door opens and closes as usual. Raised while `serve_call` waits with the door open, it does
not interrupt the wait: "Check periodically for obstruction during the waiting period"
(`control.rs:181`) reads a flag that only the waiting thread could set.

Other disagreements, met while modelling and seen in behaviours of the modules; no run of their own
is spent on them:

- `control.rs:236-240`: `serve_call` serves two calls at a stop, the one it came for and one more
  after the door wait. A third call for the same floor makes `hall_call_start_dir` answer STOP, so
  that the car stays, with all the calls it has for other floors behind it, until a further
  press. TLC shows it in `Car` with the three buttons of the middle floor and one other call, and in
  `PeerGroup` with three calls and four presses. "Determine next direction based on remaining calls"
  (`README.md:42`) finds none. `ElsewhereServed` is checked with two buttons a floor; `Stranded` is
  about this case too.
- `README.md:36-40`, "If the elevator is idle, it starts moving toward the call": a call for the
  floor an idle car is at sets direction and motor to STOP (`control.rs:21`), and no floor event
  follows (`poll.rs:36`). It waits until another call brings the car back.
- `README.md:41-42`, "Open door for 3 seconds", then the direction: `serve_call` waits with the mutex free
  (`control.rs:175`), and an assignment by the listener starts the motor while the door is open
  (`system.rs:489`). `RunsOpenOnlyInWait` says how far this goes.
- `main.rs:321-324`, "Reassign the collected hall calls": after a stop `assign_hall_call` is called
  with the timestamp of the entry and returns at once (`system.rs:402-404`). The calls stay with an
  elevator that has forgotten them. `OwnedCallsQueued` and `OwnedIsQueued` speak of the time before
  a stop.
- `README.md:6`, the stop button "clears all queues": the file is saved only when the door has been
  open for three seconds (`main.rs:290-312`). A restart in these seconds brings back the calls that
  were cleared. `Persist` has this restart; `CabCallsRecovered` does not speak of these seconds.
- `cost.rs:39`, "Bonus if elevator is already moving in the right direction": line 40 compares a call type
  with a direction, so that an elevator going up gets the bonus for calls to go down.
- `system.rs:401`, "and no newer timestamp, do nothing": the test of the next line is equality of
  timestamps, so that a thread with an older press replaces the entry of a newer one.

`ElsewhereServed` speaks of calls for another floor than the one the car is at or has last passed,
and promises nothing after a stop or a lever movement. Without these restrictions it fails for reasons
listed among the hazards: a call for the current floor (`control.rs:21`); nothing resumes after an
obstruction, and the door stays open (`main.rs:389`); after a stop a call is handled with the
`current_floor` of before a floor event that is still in the channel.

`RunsOpenOnlyInWait` replaces "the door is closed when the car runs", which the code does not keep. An
assignment may start the motor while `serve_call` waits, and not while the stop arm does, which keeps
the mutex; and whatever `serve_call` does after its wait, it closes the door before it
returns. After a lever movement the car may run with its door open anywhere (`lever`; or when it is
lowered again and a call starts the car), and after a crash too: start-up does not switch the door
lamp off, and drives the car to floor 0.

## 5. Fairness

`Car!FairSpec` adds `WF(MainThread)` and `WF(MoveCar)`. The first: the operating system runs the
main thread again and again, its waits end (three seconds; a mutex no thread keeps), and a channel
with an event wakes `select!`. The second: a car whose motor runs moves. Nothing is assumed of
presses, peers, the lever or the other threads, and no arm of `select!` is assumed to be preferred:
`select!` picks among ready channels, and the number of inputs is bounded.

`HallCallThreads!FairSpec` has weak fairness for each of the three threads: none is descheduled for
good, and a mutex that it waits for is released, which `Locks` shows for the map. What begins an
operation is not fair.

`PeerGroup` states no fairness. Its properties speak of `Quiet` states: every message handled, every
car at rest, every elevator aware of the others' true states and of who is down. That is where a
group without further presses and faults comes to rest, and what is wrong there stays wrong.

## 6. What is proved

For every number of floors, set of buttons, calls, peers, threads, messages, queue length and bound, from the
named assumptions on the constants only:

| Theorem | Says | Argument |
|---|---|---|
| `CarProofs!TypeCorrect` | `[]TypeOK` | inductive as it stands (`InitType`, `TypeStep`); one step per action. The lemmas of `ControlLemmas` give that searches return positions and removals queues |
| `CarProofs!NoDuplicates` | `[]NoDuplicateCalls` | `QueueStep`: every step leaves the queue, pushes a call that is not in it, keeps a part of it in order, empties it, or reads it back; and the file stays or is the new queue. The saved queue is in the invariant because `Crash` reads it back |
| `CarProofs!CabCallsAreSaved` | `[]CabCallsSurvive` | from `QueueStep`: a pushed cabin call is saved in the same step, hall calls may be missing, removals only make the queue smaller |
| `CarProofs!WaitSeesNothing` | `pc = "door_wait"` implies `~ is_obstructed`, whatever the lever does | the flag changes only in `Obstruction`, when the main thread is in `select!`, and `OpenDoor` reads it before the wait. A fact about the code, not a merit of it: one of the reasons why `LeverHalts` fails |
| `CarProofs!OpenOnlyInWait` | `[]RunsOpenOnlyInWait` | `DoorShut`, as long as no lever movement and no crash is spent (`UnspentBefore`): the door is open only in a wait or in what follows it, and in the wait of the stop arm the motor is off, because the mutex is held |
| `CarProofs!NoImmediateCabCall` | `[]CabCallTaken` | with `NoDuplicateCalls`: `ServeCall` takes the only cabin call for its floor (`RemoveCallRemoves`), and until `serve_call` returns only hall calls are pushed, by other threads |
| `CarProofs!MotorIsFollowed` | `[]MotorFollowsDirection` | inductive with `TypeOK`: the motor is set to STOP or together with the direction; turning the direction to STOP alone does not occur once the car is homed |
| `CarProofs!DirectionIsKept` | `[]KeepsDirection` | no hypothesis; `TurnsWhenDone`: `serve_call` works on the floor the elevator is at, and a car that pauses before it reverses has no call left ahead |
| `CarProofs!StaysInShaft`, `AlwaysHeadingToCall` | `[]InShaft`, `[]HeadingToCall`, with `NoBackground` and `NoCrash` | `Motion`, see below |
| `CarProofs!LeavesAtItsFloor` | `[]ServedAtItsFloor`, with `NoBackground` and `NoCrash` | from `Motion`: while `serve_call` runs the car stands at `current_floor` |
| `CarProofs!NextIndexIsRight` | `[]NextIndexIsNextCall`, with `~ HasPeers` or `NoBackground` | `NextKnown`: the health monitor alone only appends to the queue, so that positions stay |
| `CarProofs!LampsAreRight` | `[]LampsShowCalls`, with `~ HasPeers` and `NoCrash` | `Lit`, with `Sole`: without peers every hall call the map knows is owned here |
| `CarProofs!OwnedCallsStay` | `[]OwnedCallsQueued`, with `~ HasPeers` | `Kept`, with `Sole`, as long as no stop is spent |
| `AssignmentProofs!ObstructedIsLastResort` | `[]FreeBeforeObstructed` | `ChosenIsFirst` (whoever was chosen comes first in the order) is inductive; `FreeCostBound`: at most 6400 for 255 floors and 765 queued calls, below `i32::MAX / 2`, so that the sum does not overflow either |
| `AssignmentProofs!EverybodyAgrees` | `[]Agreement` | two firsts of a total order are one |
| `AssignmentProofs!NearestIsChosen` | `[]NearestIdle` | from `ChosenIsFirst`: of two alike in all but the floor the nearer costs less (`NearerCostsLess`), also when it is at the floor of the call |
| `ThreadProofs!TypeCorrect` | `[]TypeOK` | inductive as it stands, thread by thread |
| `ThreadProofs!NoneForgotten` | `[]Attended` | a step makes a call unassigned only in a thread that has it as argument or in its list, and a thread lets go of a call only when it has written an owner, or found one (the timestamp in its hand is the entry's) |
| `ThreadProofs!OwnedCallsHeld` | `[]OwnedIsQueued` | `Write` leads to `Push`; a call leaves the queue only in `Serve`, which then forgets it. `Undisturbed` ties the bounds to the places of the threads: without a completed-call message the listener is not in its handler |
| `ThreadProofs!PositionKept`, `QueuedLit` | `[]PositionHolds`, `[]QueuedIsLit` | `Orderly`, inductive with `Undisturbed`: the queue has no doubles, pushes go to its end, and the lamp of a call goes out only with the only place it has in the queue |
| `LockProofs!DeadlockFree` | `[]NoCircularWait` | the mutexes have ranks, and every row of the code takes one of a higher rank than all it holds (`Sound`, function by function); in a circle the highest mutex held could not be waited for |
| `LockProofs!MapIsFree` | `[]MapIsNeverHeldUp` | from the same lemmas: every row at a point where the map is held is a drop |
| `LockProofs!TypeCorrect` | `[]TypeOK` | every row of every function goes on at a row of the same or of a called function (`InCode`, `Steps`), or ends the operation with nothing held; a mutex is taken only when it is free |
| `PersistProofs!TypeCorrect` | `[]TypeOK` | from `Inv == Types /\ Shape /\ Progress`: the file is two lines and whole lines for some calls of `saved`, the last perhaps cut off (`Shape`), and as long as the place in the save says (`Progress`) |
| `PersistProofs!KeepsContract` | `Spec => FileKeepsContract` | under `Inv` what is read is the beginning with the complete lines (`FoundAs`, from `NthOfInterval`: the lines that parse are the first ones); each step of a save leaves that alone or extends it by one |
| `PersistProofs!BeginningFound` | `[]FoundIsBeginning` | from `Inv` and `FoundAs` |
| `PersistProofs!CabCallsKept` | `[]CabCallsRecovered` | with `Inv`: at the end of a save all lines are complete (`ContractStep`); hall calls come and go without changing which cabin calls are in the queue, and what is yet to be saved differs in one call (`CabCallChanged`). It says nothing of the three seconds of the stop arm |
| `PeerGroupProofs!TypeCorrect` | `[]TypeOK` | from `Inv`, see below |
| `PeerGroupProofs!DeadOwnersAreReplaced` | `[]TakenOver` | from `OwnersKnown`: in a quiet state both records are the elevators that are up |
| `PeerGroupProofs!LostOnlyInTwoWays` | `[]LostInTwoWays` | an owner that is up has the call queued if it takes itself for the owner (`OwnQueued`), and its car is `Startable` |
| `MessageProofs!FromStringOfToString` | `from_string(to_string(m)) = m` for every message | the equations of the functions (`SplitIs`, `DecimalIs`, `ButtonsIs`), then field by field (`HallText`, `StateText`, `CompletedText`); a number is read back from its digits (`NumberOfDecimal`), a queue from its text (`QueueIs`) |
| `MessageProofs!NothingMadeUp` | `[]HandledWereSent` | from `TextInv`, see below |
| `MessageProofs!WholeMessagesHandled` | `WholeReadsHandled` | the step is a read (`to_string` is never empty) of just `to_string(m)`, then `FromStringOfToString` |

*Hypotheses.* `NoBackground` and `NoCrash` set the bound of that input to 0; they say what the theorem
is about, an elevator that runs undisturbed in that respect. TLC shows that none can be
dropped: with one handler of listener or monitor, or one crash, `InShaft` and `ServedAtItsFloor`
fail; `HeadingToCall` and `LampsShowCalls` fail with a crash, `LampsShowCalls` and `OwnedCallsQueued`
with peers. Where a property itself says "until a stop" or "before a lever movement", it reads
`used`, and the theorem has no hypothesis about these inputs. All other theorems have none but the
assumptions on the constants.

*Why the car stays in the shaft.* `InShaft` says nothing of why a car stops in time, so it is not
inductive. `Motion` adds to it: while the car is homed it runs down and has no call (`Homing`); later
it is next to `current_floor`, or at the floor before or after, whose event is then the only one in the
channel (`Located`); while `serve_call` runs it is at `current_floor`, with its motor off once it
serves (`Standing`); otherwise a running car has a call ahead, or takes the event of the floor of
its call (`Heading`). `serve_call` chooses a direction only to go to a call
(`NextCallAhead`, `PassedBy`, `StartDirection`), so that a call is there to stop it before the
last floor is passed.

*Why a dead elevator keeps no call.* `PeerGroupProofs!Inv` has, for every elevator `e` and besides the
types of its state and of the messages under way: it gives a call only to itself or to an
elevator that one of its two records still holds (`OwnersKnown`), so that a timeout is still to come
and takes the call away; what it takes for its own is in its queue (`OwnQueued`); a car with calls
that stands with its door closed has direction STOP (`Startable`). A timeout of one record that
assigns a call to the dead elevator again is no counterexample, because the other record holds it. That an
assignment finds a best elevator at all is `BestExists`: costs are at least -200 (`CostBound`), and
a set of naturals has a least element. The calls of a timeout are assigned in any order;
`InOrderResult` shows for every order that those without an owner get one, and only from the
elevators known.

*Why no message is made up.* `TextInv` says where the unread text comes from: its token at `i` is token
`K[i]` of message `J[i]`, behind it comes the rest of that message and then the beginning of a
later one, and as long as the connection is open nothing is missing at the end (`Stream`, `Ends`); what
was handled came of messages in their order, before every message of which the beginning is
still unread (`History`). A read that parses begins with a word, and only the first token of a message is
the first half of one (`Headed`, `LateText`). So it begins with the beginning of message `J[1]`. If it
is no longer than that message, it is a beginning of its text, and `CutText` says what becomes of one: no
message, or one that `BecomesOf` allows, because all pieces between the bars but the last are
those of the whole text (`SplitGrows`), and a number that is cut off is a number of fewer digits
(`DigitsOfDecimal`). If it is longer, the word of the next message stands in its last field, which is then no
number (`LongText`), and nothing is handled. The text of a message is never sent in part while
the connection is open: `write_all` is one step of `Send`.

*Induction.* The theorems on induction of the library take an operator as parameter, which the
provers cannot instantiate. The proofs use sets in place of operators. Where a proof has to follow a
loop over the calls in some order, the loop is written as a recursive function on `0..n`
(`AssignInOrder`), and the induction is done by the least counterexample (`LeastExists`, from
`NatLessThanWellFounded`; `UpTo`). In `MessageProofs` a set of texts with `<<>>` and closed under
`Append` is all texts (`SeqInduction`), and a recursive definition over texts has a solution, which `CHOOSE`
then finds, by induction over the set of lengths for which there is one (`SeqRecursion`; `DecimalIs`
does the same for numbers).

**Only model-checked.** Liveness (`ElsewhereServed`, `Owned`) and fairness, which are outside
what the prover handles. Every safety invariant and action property of a passing run is proved, some with
the hypotheses named above. The four runs that fail are
counterexamples and need no proof.

## 7. What the results mean for the code

- Whatever the threads interleave: no call is queued twice, no cabin call is missing from a
  completely written file, and direction and motor agree. An undisturbed elevator never leaves the
  shaft, always has a call to run to, and takes only calls of the floor it stands at; that it serves
  them in the end rests on TLC. The branches for an immediate cabin call (`control.rs:223-231`) are
  never taken.
- The obstruction lever does not do what the README says in any of three situations: it does not
  interrupt a wait that has begun, it is forgotten when it is moved between floors, and it does not
  stop a car that is just leaving a floor. `control.rs:191-194` is dead code for the first reason.
- A hall call assigned while the door is open starts the car at once; the door closes when `serve_call`
  has waited to the end. It does not start the car in the wait of the stop arm.
- The stop button leaves the hall-call map as it was, so that nobody takes over the calls it cleared,
  and leaves the file as it was for three seconds.
- No thread can leave a call of the map without an owner. So the sweep of
  `check_unassigned_hall_calls` (`system.rs:273-287`) never finds one nobody else is at work on, and
  the re-evaluation on every state message changes an owner only if another thread has changed the
  entry since it was collected.
- The mutexes cannot deadlock, and the map is always free soon. The elevator mutex is not: the stop
  arm sleeps with it for three seconds, and a broadcast writes to TCP with it.
- A save that fails or is cut short leaves a part of the queue, never something else. A hall call
  that was served may still be in the file, and is served again after a restart; a hall call assigned
  since the last save is missing.
- With equal knowledge elevators choose the same; without it they may both serve a call, or each
  leave it to the other. `LostInTwoWays` says that a call nobody serves in a group at rest is lost in
  one of two ways: it was left to an elevator that does not have it, or it is queued at a car that
  has run past the last floor, after a peer completed the call it was running for, or that stands
  with direction STOP because a call for its own floor was left (`control.rs:236`). The second kind of
  car gets going with the next call assigned to it (`control.rs:20`): no car stands with calls and a
  direction that keeps `start_elevator` from starting it.
- The calls of an elevator that is down are taken over, although listener and monitor time it out
  from two records, and the first may give a call to the dead elevator again.
- Messages that arrive in one read are lost together; the first part of one that is split may be
  handled with a shortened timestamp, or with a shortened queue and without its obstruction. No call,
  floor or direction is ever made up.

## 8. Not modelled

- `p2p_connect.rs` and `establish_bidirectional_connection`: which streams and addresses the two
  peer lists hold, and retries. Their locks and waits are in `Locks`, a broken connection in
  `Messages` and `PeerGroup`. Both lists only grow (listed as a hazard).
- The clock. Timeouts, the sweep and the own heartbeat run only in a read timeout of 500 ms without
  messages, so that many peers could starve them; the modules let them happen at any time.
- Homing at start-up against a listener that already runs (`main.rs:84`, `:213`): covered from its
  end on.
- `handle_sync_request` (no message is ever parsed as a sync request), `decide_call_by_direction`,
  `get_active_elevators`, `is_active` and `stop_button_light` are not called.
  `obstruction_start_time` and the monitor's `active_elevators` are written and never read.
- The TCP protocol to the hardware, the floor indicator, the stop lamp, logging, command line, build
  and CI: no state a property speaks of.

## 9. Plan

Done, in this order: `Control`, `Car` and its proofs, `Assignment` and its proofs; `Cost` as a
module of its own, `HallCallThreads`, `Locks`, `Persist` with `StateFile`, each with proofs;
`PeerGroup`, `Messages`; the proofs about an undisturbed car, the nearest elevator, the points of
`Locks`, the group of elevators and the messages. What is left: a clock for the 500 ms read timeout
and the two five-second limits, with the starvation by many peers.
