----------------------------- MODULE MCPersist -----------------------------
(***************************************************************************)
(* Buttons for model checking the state file.                              *)
(***************************************************************************)
EXTENDS Persist

(* Two cabin calls and a hall call.                                        *)
ThreeButtons == {[floor |-> 0, call |-> CAB], [floor |-> 1, call |-> CAB],
                 [floor |-> 1, call |-> HALL_DOWN]}
=============================================================================
