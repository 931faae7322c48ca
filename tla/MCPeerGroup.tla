---------------------------- MODULE MCPeerGroup ----------------------------
(***************************************************************************)
(* Two elevators and their calls for model checking.                       *)
(***************************************************************************)
EXTENDS PeerGroup

TwoElevators == {1, 2}

(* Going up from the middle and down from the top.                         *)
TwoCalls == {[floor |-> 1, call |-> HALL_UP], [floor |-> 2, call |-> HALL_DOWN]}
=============================================================================
