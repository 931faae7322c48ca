----------------------------- MODULE StateFile -----------------------------
(***************************************************************************)
(* What the state file promises a restart: nothing, or the position and a  *)
(* beginning of the queue of the last save.  Persist implements it.        *)
(***************************************************************************)
EXTENDS Integers, Sequences

CONSTANTS
    Positions, Calls,   \* what is saved: where the car is, and its queue of calls
    Start               \* the position of an elevator that finds nothing

VARIABLES
    saved,      \* what is being saved, or was saved last
    content     \* what a restart would find

States == [position : Positions, calls : Seq(Calls)]

(* load_elevator_state gives None.                                         *)
None == [found |-> FALSE, position |-> Start, calls |-> <<>>]

(* The position and the first n calls of s.                                *)
Beginning(s, n) ==
    [found |-> TRUE, position |-> s.position, calls |-> SubSeq(s.calls, 1, n)]

Init == saved \in States /\ content = None

(* A save begins: what was there is gone.                                  *)
Save == saved' \in States /\ content' = None

(* First the position appears, then the calls one by one.                  *)
Extend ==
    /\ UNCHANGED saved
    /\ \/ content = None /\ content' = Beginning(saved, 0)
       \/ \E n \in 0..(Len(saved.calls) - 1) :
             content = Beginning(saved, n) /\ content' = Beginning(saved, n + 1)

Next == Save \/ Extend

Spec == Init /\ [][Next]_<<saved, content>>

(* A restart finds nothing that was not saved, in no other order, and      *)
(* without gaps.                                                           *)
FoundIsBeginning ==
    content = None \/ \E n \in 0..Len(saved.calls) : content = Beginning(saved, n)
=============================================================================
