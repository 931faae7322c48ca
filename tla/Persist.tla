------------------------------ MODULE Persist ------------------------------
(***************************************************************************)
(* The state file of fault_handler.rs, written piece by piece, and read    *)
(* back by a restart that may come between two pieces.                     *)
(*                                                                         *)
(* A line is the sequence of its parts between commas.  writeln! on a File *)
(* writes each number, comma and newline by a system call of its own; a    *)
(* newline at the end of the file makes no difference to BufRead::lines,   *)
(* so its call is taken together with the number before it.  The elevator  *)
(* mutex is held during a save: nobody changes the queue meanwhile.        *)
(*                                                                         *)
(* An operator named X_Something is the plausible mistake in X that the    *)
(* properties must be able to see; nothing uses it.                        *)
(***************************************************************************)
EXTENDS Control

CONSTANTS
    Buttons,        \* the buttons that are pressed
    MaxQueue        \* bound: the length of the queue

ASSUME PersistAssumption == Buttons \subseteq Calls /\ MaxQueue \in Nat

VARIABLES
    call_buttons, position,     \* of the Elevator; the second is floor and direction
    file,                       \* the lines of elevator_<id>_state.txt, or of none
    at, index,                  \* "idle", or where the thread that saves is: with
                                \* the queue changed, in the door wait of the stop
                                \* arm, or at a piece, of which call
    saved,                      \* what it writes, or wrote last
    failed                      \* whether the last save ended with an Err

vars == <<call_buttons, position, file, at, index, saved, failed>>

(* The queue is changed, and its save has not begun.                       *)
Due == {"changed", "stop_door"}

Positions == [floor : Floors, direction : Directions]

(* Elevator::init.                                                         *)
Start == [floor |-> 0, direction |-> DIRN_STOP]

-----------------------------------------------------------------------------
(* load_elevator_state.                                                    *)

(* What follows a comma at the end of the file; it does not parse.         *)
Empty == 256

CallLines_Unparsed(lines) == {i \in 3..Len(lines) : Len(lines[i]) >= 2}

CallLines(lines) ==
    {i \in 3..Len(lines) : Len(lines[i]) >= 2 /\ lines[i][1] # Empty /\ lines[i][2] # Empty}

Nth(S, n) == CHOOSE i \in S : Cardinality({k \in S : k <= i}) = n

CallOf(line) == [floor |-> line[1], call |-> line[2]]

(* "if lines.len() >= 2"; None leaves main with what Elevator::init gives. *)
load_elevator_state(lines) ==
    IF Len(lines) < 2 THEN [found |-> FALSE, position |-> Start, calls |-> <<>>]
    ELSE [found |-> TRUE,
          position |-> [floor |-> lines[1][1], direction |-> lines[2][1]],
          calls |-> [n \in 1..Cardinality(CallLines(lines)) |->
                        CallOf(lines[Nth(CallLines(lines), n)])]]

-----------------------------------------------------------------------------
(* persist_elevator_state.                                                 *)

(* A save begins with the queue and position as they are: File::create     *)
(* leaves an empty file, or fails.                                         *)
Persist_Untruncated ==
    /\ at \in Due
    /\ \/ /\ file' = file /\ at' = "floor" /\ index' = 1 /\ failed' = FALSE
          /\ saved' = [position |-> position, calls |-> call_buttons]
       \/ at' = "idle" /\ failed' = TRUE /\ UNCHANGED <<file, index, saved>>
    /\ UNCHANGED <<call_buttons, position>>

Persist ==
    /\ at \in Due
    /\ \/ /\ file' = <<>> /\ at' = "floor" /\ index' = 1 /\ failed' = FALSE
          /\ saved' = [position |-> position, calls |-> call_buttons]
       \/ at' = "idle" /\ failed' = TRUE /\ UNCHANGED <<file, index, saved>>
    /\ UNCHANGED <<call_buttons, position>>

Put(here, lines, there) == at = here /\ file' = lines /\ at' = there

WriteHeader ==
    /\ \/ Put("floor", <<<<saved.position.floor>>>>, "direction")
       \/ Put("direction", Append(file, <<saved.position.direction>>), "call")
    /\ UNCHANGED <<call_buttons, position, index, saved, failed>>

WriteCall ==
    /\ index \in DOMAIN saved.calls
    /\ LET c == saved.calls[index]  last == Len(file)
       IN  \/ Put("call", Append(file, <<c.floor>>), "comma") /\ UNCHANGED index
           \/ Put("comma", [file EXCEPT ![last] = <<c.floor, Empty>>], "type") /\ UNCHANGED index
           \/ Put("type", [file EXCEPT ![last] = <<c.floor, c.call>>], "call") /\ index' = index + 1
    /\ UNCHANGED <<call_buttons, position, saved, failed>>

WriteEnds ==
    /\ at = "call" /\ index = Len(saved.calls) + 1 /\ at' = "idle"
    /\ UNCHANGED <<call_buttons, position, file, index, saved, failed>>

(* A write returns an Err: "Failed to persist state", and the program goes *)
(* on, with what is in the file.                                           *)
WriteFails ==
    /\ at \notin Due \cup {"idle"} /\ at' = "idle" /\ failed' = TRUE
    /\ UNCHANGED <<call_buttons, position, file, index, saved>>

-----------------------------------------------------------------------------
(* Who saves, and who does not.                                            *)

(* The queue is changed; the save is what the thread does next.            *)
Changed(q) ==
    /\ at = "idle" /\ at' = "changed"
    /\ call_buttons' = q
    /\ UNCHANGED <<position, file, index, saved, failed>>

(* The car or the queue changes, and the file does not.                    *)
Unsaved == at = "idle" /\ UNCHANGED <<file, at, index, saved, failed>>

(* The cabin-call arm.                                                     *)
CabPressed(c) ==
    /\ c \in CabCalls /\ ~ Contains(call_buttons, c) /\ Len(call_buttons) < MaxQueue
    /\ Changed(Append(call_buttons, c))

(* The end of assign_hall_call.                                            *)
HallAssigned(c) ==
    /\ c \in HallCalls /\ Len(call_buttons) < MaxQueue
    /\ call_buttons' = Enqueue(call_buttons, c) /\ UNCHANGED position /\ Unsaved

(* serve_call takes a hall call without a save, a cabin call with one.     *)
HallServed(i) ==
    /\ call_buttons[i] \in HallCalls
    /\ call_buttons' = RemoveAt(call_buttons, i) /\ UNCHANGED position /\ Unsaved

CabServed_Unsaved(i) ==
    /\ call_buttons[i] \in CabCalls
    /\ call_buttons' = RemoveAt(call_buttons, i) /\ UNCHANGED position /\ Unsaved

CabServed(i) ==
    /\ call_buttons[i] \in CabCalls
    /\ Changed(RemoveAt(call_buttons, i))

(* handle_completed_call_message.                                          *)
HallCompleted(i) ==
    /\ call_buttons[i] \in HallCalls
    /\ Changed(RemoveAt(call_buttons, i))

(* The stop arm forgets every call; the save comes when the door has been  *)
(* open for three seconds, or at once when the car is between floors.      *)
StopPressed ==
    /\ at = "idle" /\ at' = "stop_door"
    /\ call_buttons' = <<>> /\ position' = [position EXCEPT !.direction = DIRN_STOP]
    /\ UNCHANGED <<file, index, saved, failed>>

(* A floor event, start_elevator, or the end of serve_call.                *)
Moves == position' \in Positions /\ UNCHANGED call_buttons /\ Unsaved

(* The process ends anywhere, and main loads what the file holds.          *)
Restart ==
    LET found == load_elevator_state(file)
    IN  /\ call_buttons' = found.calls /\ position' = found.position
        /\ at' = "idle" /\ failed' = FALSE
        /\ UNCHANGED <<file, index, saved>>

-----------------------------------------------------------------------------
Init ==
    /\ call_buttons = <<>> /\ position = Start
    /\ file = <<>> /\ at = "idle" /\ index = 1 /\ failed = FALSE
    /\ saved = [position |-> Start, calls |-> <<>>]

Next ==
    \/ Persist \/ WriteHeader \/ WriteCall \/ WriteEnds \/ WriteFails
    \/ \E c \in Buttons : CabPressed(c) \/ HallAssigned(c)
    \/ \E i \in DOMAIN call_buttons : HallServed(i) \/ CabServed(i) \/ HallCompleted(i)
    \/ StopPressed \/ Moves \/ Restart

Spec == Init /\ [][Next]_vars

-----------------------------------------------------------------------------
(* Properties.                                                             *)

(* The queue, the file and the save in progress have the form of the code. *)
TypeOK ==
    /\ call_buttons \in Seq(Calls) /\ position \in Positions
    /\ file \in Seq(Seq(0..Empty)) /\ load_elevator_state(file).calls \in Seq(Calls)
    /\ at \in Due \cup {"idle", "floor", "direction", "call", "comma", "type"}
    /\ index \in Nat \ {0} /\ failed \in BOOLEAN
    /\ saved \in [position : Positions, calls : Seq(Calls)]

(* Whenever the process ends, what a restart finds is nothing, or the      *)
(* position and a beginning of the queue last saved: a line that was cut   *)
(* off is skipped, and read as no call that was never made.                *)
Contract == INSTANCE StateFile WITH content <- load_elevator_state(file)
FileKeepsContract == Contract!Spec

(* Between saves, unless the last one failed, a restart finds the cabin    *)
(* calls of the queue and no others, although hall calls come and go       *)
(* without being saved, and although the restart may follow another one    *)
(* that cut a save short.  While a press or a service is still to be       *)
(* saved, that is the only one a restart takes back.  The three seconds of *)
(* the stop arm (main.rs:290-312) are not spoken of: a restart in them     *)
(* brings back the calls the stop button has cleared.                      *)
Recovered(c) == Contains(load_elevator_state(file).calls, c) <=> Contains(call_buttons, c)

CabCallsRecovered ==
    ~ failed =>
        /\ at = "idle" => \A c \in CabCalls : Recovered(c)
        /\ at = "changed" => \E d \in CabCalls : \A c \in CabCalls \ {d} : Recovered(c)

=============================================================================
