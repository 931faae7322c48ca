----------------------------- MODULE Messages ------------------------------
(***************************************************************************)
(* One connection between two elevators: to_string and from_string of      *)
(* cost.rs, and the reader thread of message_listener in system.rs, which  *)
(* takes what one read returns for one message.  TCP keeps no message      *)
(* boundaries: a read may return a part of a message or several of them.   *)
(* Every connection has a reader of its own, and connecting again makes    *)
(* another connection.                                                     *)
(*                                                                         *)
(* Text is a sequence of tokens: digits, the three separators, and the     *)
(* words in two halves, so that a read can end within a word.  None of it  *)
(* is outside ASCII, so from_utf8_lossy changes nothing.                   *)
(*                                                                         *)
(* An operator named X_Something is the plausible mistake in X that the    *)
(* properties must be able to see; nothing uses it.                        *)
(***************************************************************************)
EXTENDS Integers, Sequences, SequencesExt

CONSTANTS
    ElevatorMessage,    \* the messages that are sent
    BufferSize,         \* tokens the buffer of the reader holds (1024 bytes)
    MaxSent             \* bound: messages sent on the connection

(* What is a u8; the call types are 0, 1 and 2.                            *)
u8 == 0..255

(* The queue of a state is one of [floor, type]; a completed call has the  *)
(* type of its call for a direction.  Ids are numbers.                     *)
ASSUME MessagesAssumption ==
    /\ BufferSize \in Nat \ {0} /\ MaxSent \in Nat
    /\ \A m \in ElevatorMessage :
          \/ m \in [kind : {"HALL"}, floor : u8, direction : u8, timestamp : Nat]
          \/ m \in [kind : {"STATE"}, id : Nat, floor : u8, direction : u8,
                    call_buttons : Seq(u8 \X (0..2)), is_obstructed : BOOLEAN]
          \/ m \in [kind : {"COMPLETED"}, floor : u8, direction : 0..2]

VARIABLES
    sent,       \* the messages written to the connection
    unread,     \* the text on its way
    handled,    \* what process_message has been called with
    open        \* the connection has not failed

vars == <<sent, unread, handled, open>>

-----------------------------------------------------------------------------
(* Text.  Bar, semicolon and comma stand for themselves; 0..9 are digits.  *)

Bar == 10
Semicolon == 11
Comma == 12
HallWord == <<20, 21>>
StateWord == <<22, 23>>
CompletedWord == <<24, 25>>

Token == 0..25
Text == Seq(Token)

None == [kind |-> "None"]

Decimal[n \in Nat] == IF n < 10 THEN <<n>> ELSE Append(Decimal[n \div 10], n % 10)

(* The buttons of a queue, each as two numbers, with semicolons between.   *)
Button(b) == Decimal[b[1]] \o <<Comma>> \o Decimal[b[2]]

Join[q \in Seq(u8 \X (0..2))] ==
    IF q = <<>> THEN <<>>
    ELSE IF Len(q) = 1 THEN Button(Last(q))
    ELSE Join[Front(q)] \o <<Semicolon>> \o Button(Last(q))

(* split: the pieces of text s between the separators.                     *)
Split(s, separator) ==
    LET split[t \in Text] ==
            IF t = <<>> THEN << <<>> >>
            ELSE LET p == split[Front(t)]
                 IN  IF Last(t) = separator THEN Append(p, <<>>)
                     ELSE [p EXCEPT ![Len(p)] = Append(@, Last(t))]
    IN  split[s]

(* parse::<u8>() and parse::<u64>(), where -1 is Err; no timestamp that    *)
(* occurs is out of range.                                                 *)
Number[s \in Text] == IF s = <<>> THEN 0 ELSE 10 * Number[Front(s)] + Last(s)
Digits(s) == \A i \in DOMAIN s : s[i] \in 0..9
parse_u64_OrZero(s) == IF Digits(s) THEN Number[s] ELSE 0
parse_u64(s) == IF s # <<>> /\ Digits(s) THEN Number[s] ELSE -1
parse_u8(s) == IF parse_u64(s) > 255 THEN -1 ELSE parse_u64(s)

(* parts[i] of the code is parts[i + 1] here.                              *)
to_string(m) ==
    CASE m.kind = "HALL" ->
            HallWord \o <<Bar>> \o Decimal[m.floor] \o <<Bar>> \o Decimal[m.direction]
            \o <<Bar>> \o Decimal[m.timestamp]
      [] m.kind = "STATE" ->
            StateWord \o <<Bar>> \o Decimal[m.id] \o <<Bar>> \o Decimal[m.floor]
            \o <<Bar>> \o Decimal[m.direction] \o <<Bar>> \o Join[m.call_buttons]
            \o <<Bar>> \o Decimal[IF m.is_obstructed THEN 1 ELSE 0]
      [] m.kind = "COMPLETED" ->
            CompletedWord \o <<Bar>> \o Decimal[m.floor] \o <<Bar>> \o Decimal[m.direction]

hall_from(parts) ==
    LET floor     == parse_u8(parts[2])
        direction == parse_u8(parts[3])
        timestamp == parse_u64(parts[4])
    IN  IF Len(parts) < 4 \/ -1 \in {floor, direction, timestamp} THEN None
        ELSE [kind |-> "HALL", floor |-> floor, direction |-> direction, timestamp |-> timestamp]

(* The buttons of the pieces; one that is not two numbers is passed over.  *)
IsButton(s) ==
    LET b == Split(s, Comma)
    IN  Len(b) = 2 /\ parse_u8(b[1]) # -1 /\ parse_u8(b[2]) # -1

Buttons[pieces \in Seq(Text)] ==
    IF pieces = <<>> THEN <<>>
    ELSE LET b == Split(Last(pieces), Comma)
         IN  IF IsButton(Last(pieces))
             THEN Append(Buttons[Front(pieces)], <<parse_u8(b[1]), parse_u8(b[2])>>)
             ELSE Buttons[Front(pieces)]

buttons_from(s) == Buttons[Split(s, Semicolon)]

state_from_Optimistic(parts) ==
    LET floor     == parse_u8(parts[3])
        direction == parse_u8(parts[4])
    IN  IF Len(parts) < 5 \/ -1 \in {floor, direction} THEN None
        ELSE [kind |-> "STATE", id |-> Number[parts[2]], floor |-> floor,
              direction |-> direction, call_buttons |-> buttons_from(parts[5]),
              is_obstructed |-> FALSE]

(* The last part may be missing, and must be a number if it is not.        *)
state_from(parts) ==
    LET floor     == parse_u8(parts[3])
        direction == parse_u8(parts[4])
        flag      == IF Len(parts) > 5 THEN parse_u8(parts[6]) ELSE 0
    IN  IF Len(parts) < 5 \/ -1 \in {floor, direction, flag} THEN None
        ELSE [kind |-> "STATE", id |-> Number[parts[2]], floor |-> floor,
              direction |-> direction, call_buttons |-> buttons_from(parts[5]),
              is_obstructed |-> flag # 0]

completed_from(parts) ==
    LET floor     == parse_u8(parts[2])
        direction == parse_u8(parts[3])
    IN  IF Len(parts) < 3 \/ -1 \in {floor, direction} THEN None
        ELSE [kind |-> "COMPLETED", floor |-> floor, direction |-> direction]

from_string(s) ==
    LET parts == Split(s, Bar)
    IN  CASE parts[1] = HallWord -> hall_from(parts)
          [] parts[1] = StateWord -> state_from(parts)
          [] parts[1] = CompletedWord -> completed_from(parts)
          [] OTHER -> None

-----------------------------------------------------------------------------
(* The connection.                                                         *)

(* send_message, write_all to an open connection.                          *)
Send(m) ==
    /\ open /\ Len(sent) < MaxSent
    /\ sent' = Append(sent, m)
    /\ unread' = unread \o to_string(m)
    /\ UNCHANGED <<handled, open>>

(* stream.read returns n tokens; the text is passed on and parsed as it is.*)
Read(n) ==
    /\ n <= Len(unread) /\ n <= BufferSize
    /\ unread' = SubSeq(unread, n + 1, Len(unread))
    /\ LET m == from_string(SubSeq(unread, 1, n))
       IN  handled' = IF m = None THEN handled ELSE Append(handled, m)
    /\ UNCHANGED <<sent, open>>

(* The connection fails, and the text behind the first n tokens is lost.   *)
Fail(n) ==
    /\ open /\ n <= Len(unread)
    /\ open' = FALSE
    /\ unread' = SubSeq(unread, 1, n)
    /\ UNCHANGED <<sent, handled>>

Init ==
    /\ sent = <<>> /\ unread = <<>> /\ handled = <<>>
    /\ open = TRUE

Next ==
    \/ \E m \in ElevatorMessage : Send(m)
    \/ \E n \in 1..BufferSize : Read(n)
    \/ \E n \in 0..Len(unread) : Fail(n)

Spec == Init /\ [][Next]_vars

-----------------------------------------------------------------------------
(* Properties.                                                             *)

(* h is what can become of m: m itself, a hall call with the first digits  *)
(* of its timestamp only, or a state with the first calls of its queue     *)
(* and without its obstruction.                                            *)
BecomesOf(h, m) ==
    \/ h = m
    \/ /\ h.kind = "HALL" /\ m.kind = "HALL"
       /\ h = [m EXCEPT !.timestamp = h.timestamp]
       /\ IsPrefix(Decimal[h.timestamp], Decimal[m.timestamp])
    \/ /\ h.kind = "STATE" /\ m.kind = "STATE"
       /\ h = [m EXCEPT !.call_buttons = h.call_buttons, !.is_obstructed = FALSE]
       /\ IsPrefix(h.call_buttons, m.call_buttons)

(* What an elevator handles is what the other one sent, in the order it    *)
(* was sent and once each, however the text is cut into reads and wherever *)
(* the connection fails: some messages are lost, and a read that ends      *)
(* early can shorten a timestamp, or a queue with its obstruction, but it  *)
(* makes no call, floor or direction that was not there (from_string).     *)
HandledWereSent ==
    \E at \in [DOMAIN handled -> DOMAIN sent] :
        /\ \A i, j \in DOMAIN handled : i < j => at[i] < at[j]
        /\ \A i \in DOMAIN handled : BecomesOf(handled[i], sent[at[i]])

(* A read that returns one message, no more and no less, hands over just   *)
(* that message: what is lost is lost by merging or by cutting only        *)
(* (to_string and from_string).                                            *)
WholeReadsHandled ==
    [][\A m \in ElevatorMessage :
         open' = open /\ unread = to_string(m) \o unread' => handled' = Append(handled, m)]_vars
=============================================================================
