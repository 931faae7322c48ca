---------------------------- MODULE PersistProofs ----------------------------
(***************************************************************************)
(* Proofs about Persist: what a restart finds after any crash, for any     *)
(* number of floors, any buttons and any length of the queue.              *)
(***************************************************************************)
EXTENDS Persist, ControlLemmas, FiniteSetTheorems

(* The line of the k-th call, and the calls that are complete in the file. *)
Full(k) == <<saved.calls[k].floor, saved.calls[k].call>>

Complete ==
    IF Len(file) > 2 /\ file[Len(file)] # Full(Len(file) - 2)
    THEN Len(file) - 3 ELSE Len(file) - 2

(* The file is a header and complete lines, but for the last one.          *)
Shape ==
    /\ Len(file) <= Len(saved.calls) + 2
    /\ Len(file) >= 1 => file[1] = <<saved.position.floor>>
    /\ Len(file) >= 2 => file[2] = <<saved.position.direction>>
    /\ \A k \in 1..(Len(file) - 3) : file[k + 2] = Full(k)
    /\ Len(file) > 2 =>
          LET c == saved.calls[Len(file) - 2]
          IN  file[Len(file)] \in {<<c.floor>>, <<c.floor, Empty>>, <<c.floor, c.call>>}

(* Where a save is, the file is as long as that says.                      *)
Progress ==
    /\ at = "floor" => file = <<>> /\ index = 1
    /\ at = "direction" => Len(file) = 1 /\ index = 1
    /\ at = "call" => Len(file) = index + 1 /\ Complete = index - 1
    /\ at \in {"comma", "type"} => Len(file) = index + 2 /\ Complete = index - 1
    /\ at \notin Due \cup {"idle"} => call_buttons = saved.calls /\ ~ failed

Types ==
    /\ call_buttons \in Seq(Calls) /\ position \in Positions
    /\ file \in Seq(Seq(0..Empty))
    /\ at \in Due \cup {"idle", "floor", "direction", "call", "comma", "type"}
    /\ index \in Nat \ {0} /\ failed \in BOOLEAN
    /\ saved \in [position : Positions, calls : Seq(Calls)]

Inv == Types /\ Shape /\ Progress

LEMMA Numbers ==
    /\ Floors \subseteq 0..254 /\ Directions \subseteq 0..255 /\ CallTypes \subseteq 0..2
    /\ Start \in Positions
BY NumFloorsAssumption
DEF Floors, Directions, DIRN_DOWN, DIRN_STOP, DIRN_UP, CallTypes, HALL_UP, HALL_DOWN, CAB,
    Start, Positions

(* The n-th of the numbers from 3 on.                                      *)
LEMMA NthOfInterval ==
    ASSUME NEW m \in Nat, NEW n \in 1..m
    PROVE  Nth(3..(m + 2), n) = n + 2
<1> DEFINE S == 3..(m + 2)
<1>1. \A i \in S : {k \in S : k <= i} = 3..i
  OBVIOUS
<1>2. ASSUME NEW i \in S
      PROVE  Cardinality({k \in S : k <= i}) = i - 2
  <2>1. i \in Int /\ 3 \in Int /\ ~ (3 > i)
    OBVIOUS
  <2>2. Cardinality(3..i) = i - 3 + 1
    BY <2>1, FS_Interval
  <2>3. {k \in S : k <= i} = 3..i
    BY <1>1
  <2> HIDE DEF S
  <2>4. Cardinality({k \in S : k <= i}) = i - 3 + 1
    BY <2>2, <2>3, Zenon
  <2> QED  BY <2>1, <2>4
<1>3. n + 2 \in S /\ \A i \in S : (Cardinality({k \in S : k <= i}) = n) <=> (i = n + 2)
  BY <1>2
<1> HIDE DEF S
<1> QED  BY <1>3 DEF Nth, S

(* What is read is what was completely written.                            *)
LEMMA Loaded ==
    ASSUME Types, Shape
    PROVE  /\ Len(file) < 2 => load_elevator_state(file)
                               = [found |-> FALSE, position |-> Start, calls |-> <<>>]
           /\ Len(file) >= 2 =>
                 /\ Complete \in 0..Len(saved.calls)
                 /\ load_elevator_state(file)
                    = [found |-> TRUE, position |-> saved.position,
                       calls |-> SubSeq(saved.calls, 1, Complete)]
<1>1. ASSUME Len(file) < 2
      PROVE  load_elevator_state(file) = [found |-> FALSE, position |-> Start, calls |-> <<>>]
  BY <1>1 DEF load_elevator_state
<1>2. ASSUME Len(file) >= 2
      PROVE  /\ Complete \in 0..Len(saved.calls)
             /\ load_elevator_state(file)
                = [found |-> TRUE, position |-> saved.position,
                   calls |-> SubSeq(saved.calls, 1, Complete)]
  <2> DEFINE q == saved.calls  n == Complete
  <2>0. /\ Len(file) \in Nat /\ Len(q) \in Nat /\ q \in Seq(Calls) /\ DOMAIN q = 1..Len(q)
        /\ saved.position \in Positions
    BY LenProperties DEF Types
  <2>1. n \in 0..Len(q) /\ Len(file) \in {n + 2, n + 3}
    BY <1>2, <2>0 DEF Complete, Shape
  <2>2. ASSUME NEW k \in 1..Len(q)
        PROVE  q[k].floor \in 0..254 /\ q[k].call \in 0..2 /\ q[k] \in Calls
    <3>1. q[k] \in Calls
      BY <2>0, <2>2, ElementOfSeq
    <3> QED  BY <3>1, Numbers DEF Calls
  <2>3. ASSUME NEW k \in 1..n
        PROVE  file[k + 2] = Full(k)
    BY <1>2, <2>0, <2>1, <2>3 DEF Complete, Shape
  <2>4. ASSUME NEW k \in 1..n
        PROVE  /\ Len(file[k + 2]) = 2 /\ file[k + 2][1] = q[k].floor /\ file[k + 2][2] = q[k].call
               /\ q[k].floor # Empty /\ q[k].call # Empty
    <3>1. k \in 1..Len(q) /\ file[k + 2] = <<q[k].floor, q[k].call>>
      BY <2>0, <2>1, <2>3, <2>4 DEF Full
    <3>2. q[k].floor \in 0..254 /\ q[k].call \in 0..2
      BY <2>2, <3>1
    <3>3. Len(<<q[k].floor, q[k].call>>) = 2
      OBVIOUS
    <3>4. q[k].floor # Empty /\ q[k].call # Empty
      BY <3>2 DEF Empty
    <3> QED  BY <3>1, <3>3, <3>4
  <2>5. ASSUME Len(file) = n + 3
        PROVE  Len(file[n + 3]) < 2 \/ file[n + 3][2] = Empty
    BY <2>0, <2>1, <2>5 DEF Complete, Shape, Full
  <2>6. CallLines(file) = 3..(n + 2)
    <3>1. ASSUME NEW i \in 3..Len(file), i \in CallLines(file)
          PROVE  i \in 3..(n + 2)
      BY <2>0, <2>1, <2>5, <3>1 DEF CallLines
    <3>2. ASSUME NEW i \in 3..(n + 2)
          PROVE  i \in CallLines(file)
      <4>1. i - 2 \in 1..n /\ i = (i - 2) + 2 /\ i \in 3..Len(file)
        BY <2>0, <2>1
      <4>2. /\ Len(file[i]) = 2 /\ file[i][1] = q[i - 2].floor /\ file[i][2] = q[i - 2].call
            /\ q[i - 2].floor # Empty /\ q[i - 2].call # Empty
        BY <2>4, <4>1
      <4> QED  BY <4>1, <4>2 DEF CallLines
    <3> QED  BY <3>1, <3>2 DEF CallLines
  <2>7. n \in Nat /\ Cardinality(CallLines(file)) = n
    BY <2>1, <2>6, FS_Interval
  <2>8. ASSUME NEW k \in 1..n
        PROVE  CallOf(file[Nth(CallLines(file), k)]) = q[k]
    <3>1. Nth(CallLines(file), k) = k + 2
      BY <2>6, <2>7, NthOfInterval
    <3>2. q[k] \in [floor : Floors, call : CallTypes]
      BY <2>0, <2>1, <2>2 DEF Calls
    <3> QED  BY <2>4, <3>1, <3>2 DEF CallOf
  <2>9. SubSeq(q, 1, n) = [k \in 1..n |-> q[k]]
    <3>1. /\ SubSeq(q, 1, n) \in Seq(Calls) /\ Len(SubSeq(q, 1, n)) = n
          /\ \A k \in 1..n : SubSeq(q, 1, n)[k] = q[k]
      BY <2>1, <2>2, SubSeqProperties
    <3> QED  BY <3>1, LenProperties
  <2>10. load_elevator_state(file).calls = SubSeq(q, 1, n)
    BY <1>2, <2>0, <2>7, <2>8, <2>9 DEF load_elevator_state
  <2>11. file[1][1] = saved.position.floor /\ file[2][1] = saved.position.direction
    BY <1>2, <2>0 DEF Shape
  <2>12. load_elevator_state(file).position = saved.position
    BY <1>2, <2>0, <2>11 DEF load_elevator_state, Positions
  <2>13. ~ (Len(file) < 2)
    BY <1>2, <2>0
  <2>14. /\ load_elevator_state(file).found = TRUE
         /\ load_elevator_state(file)
            = [found |-> TRUE, position |-> load_elevator_state(file).position,
               calls |-> load_elevator_state(file).calls]
    BY <2>13 DEF load_elevator_state
  <2> QED  BY <2>1, <2>10, <2>12, <2>14
<1> QED  BY <1>1, <1>2

LEMMA InvInit == Init => Inv
<1> SUFFICES ASSUME Init PROVE Inv
  OBVIOUS
<1>1. Types
  <2>1. <<>> \in Seq(Calls) /\ <<>> \in Seq(Seq(0..Empty)) /\ Start \in Positions
    BY EmptySeq, Numbers
  <2>2. [position |-> Start, calls |-> <<>>] \in [position : Positions, calls : Seq(Calls)]
    BY <2>1
  <2>3. failed \in BOOLEAN
    BY Zenon DEF Init
  <2>6. index \in Nat \ {0}
    BY DEF Init
  <2>4. call_buttons \in Seq(Calls) /\ position \in Positions /\ file \in Seq(Seq(0..Empty))
    BY <2>1 DEF Init
  <2>5. saved \in [position : Positions, calls : Seq(Calls)] /\ at = "idle"
    BY <2>2 DEF Init
  <2> QED  BY <2>3, <2>4, <2>5, <2>6 DEF Types
<1> QED  BY <1>1, EmptySeq DEF Init, Inv, Shape, Progress

(* What happens to the queue and the car while the file is left alone.     *)
LEMMA InvUnsaved ==
    ASSUME Inv, Unsaved, call_buttons' \in Seq(Calls), position' \in Positions
    PROVE  Inv'
<1>1. UNCHANGED <<file, at, index, saved, failed>> /\ at = "idle"
  BY DEF Unsaved
<1>2. Types'
  BY <1>1 DEF Inv, Types
<1>3. Shape' /\ Progress'
  BY <1>1 DEF Inv, Shape, Progress, Complete, Full
<1> QED  BY <1>2, <1>3 DEF Inv

(* The queue is changed, the file is not yet.                              *)
LEMMA InvDue ==
    ASSUME Inv, at' \in Due, UNCHANGED <<file, index, saved, failed>>,
           call_buttons' \in Seq(Calls), position' \in Positions
    PROVE  Inv'
<1>1. Types'
  BY DEF Inv, Types
<1>2. Shape'
  BY DEF Inv, Shape, Full
<1>3. Progress'
  BY DEF Progress, Due
<1> QED  BY <1>1, <1>2, <1>3 DEF Inv

(* A save of the queue begins, or fails at once.                           *)
LEMMA InvPersist ==
    ASSUME Inv, Persist
    PROVE  Inv'
<1>0. UNCHANGED <<call_buttons, position>>
  BY DEF Persist
<1>1. CASE at' = "idle" /\ failed' = TRUE /\ UNCHANGED <<file, index, saved>>
  <2>1. Types'
    <3>1. failed' \in BOOLEAN
      BY <1>1, Zenon
    <3> QED  BY <1>0, <1>1, <3>1 DEF Inv, Types
  <2>2. Shape' /\ Progress'
    BY <1>0, <1>1 DEF Inv, Shape, Progress, Complete, Full
  <2> QED  BY <2>1, <2>2 DEF Inv
<1>2. CASE /\ file' = <<>> /\ at' = "floor" /\ index' = 1 /\ failed' = FALSE
           /\ saved' = [position |-> position, calls |-> call_buttons]
  <2>1. /\ call_buttons \in Seq(Calls) /\ position \in Positions /\ Len(call_buttons) \in Nat
        /\ Len(file') = 0 /\ file' \in Seq(Seq(0..Empty))
    BY <1>2, EmptySeq, LenProperties DEF Inv, Types
  <2>2. Types'
    <3>1. saved' \in [position : Positions, calls : Seq(Calls)]
      BY <1>2, <2>1
    <3>2. failed' \in BOOLEAN
      BY <1>2, Zenon
    <3>3. index' \in Nat \ {0} /\ at' = "floor"
      BY <1>2
    <3> QED  BY <1>0, <2>1, <3>1, <3>2, <3>3 DEF Types
  <2>3. Shape'
    BY <1>2, <2>1 DEF Shape
  <2>4. Progress'
    BY <1>0, <1>2 DEF Progress, Due
  <2> QED  BY <2>2, <2>3, <2>4 DEF Inv
<1> QED  BY <1>1, <1>2 DEF Persist

(* One more line: the lines before it stay.                                *)
LEMMA LineAppended ==
    ASSUME NEW lines \in Seq(Seq(0..Empty)), NEW line \in Seq(0..Empty)
    PROVE  /\ Append(lines, line) \in Seq(Seq(0..Empty))
           /\ Len(lines) \in Nat /\ Len(Append(lines, line)) = Len(lines) + 1
           /\ Append(lines, line)[Len(lines) + 1] = line
           /\ \A k \in 1..Len(lines) : Append(lines, line)[k] = lines[k]
BY AppendProperties, LenProperties

LEMMA InvHeader ==
    ASSUME Inv, WriteHeader
    PROVE  Inv'
<1>0. /\ file \in Seq(Seq(0..Empty)) /\ Len(file) \in Nat
      /\ saved.position.floor \in 0..255 /\ saved.position.direction \in 0..255
      /\ saved.calls \in Seq(Calls) /\ Len(saved.calls) \in Nat
  <2>1. saved.position \in Positions /\ saved.calls \in Seq(Calls) /\ file \in Seq(Seq(0..Empty))
    BY DEF Inv, Types
  <2>2. saved.position.floor \in Floors /\ saved.position.direction \in Directions
    BY <2>1 DEF Positions
  <2>3. saved.position.floor \in 0..255 /\ saved.position.direction \in 0..255
    <3>1. saved.position.floor \in 0..254
      BY <2>2, Numbers
    <3>2. saved.position.direction \in 0..255
      BY <2>2, Numbers
    <3> QED  BY <3>1, <3>2
  <2>4. Len(file) \in Nat /\ Len(saved.calls) \in Nat
    BY <2>1, LenProperties
  <2> QED  BY <2>1, <2>3, <2>4
<1>1. UNCHANGED <<call_buttons, position, index, saved, failed>>
  BY DEF WriteHeader
<1>2. CASE Put("floor", <<<<saved.position.floor>>>>, "direction")
  <2>1. at = "floor" /\ at' = "direction" /\ file' = <<<<saved.position.floor>>>>
    BY <1>2 DEF Put
  <2>2. file' \in Seq(Seq(0..Empty)) /\ Len(file') = 1 /\ file'[1] = <<saved.position.floor>>
    BY <1>0, <2>1 DEF Empty
  <2>3. Types'
    BY <1>1, <2>1, <2>2 DEF Inv, Types
  <2>4. Shape'
    BY <1>0, <1>1, <2>2 DEF Shape
  <2>5. Progress'
    BY <1>1, <2>1, <2>2 DEF Inv, Progress, Due
  <2> QED  BY <2>3, <2>4, <2>5 DEF Inv
<1>3. CASE Put("direction", Append(file, <<saved.position.direction>>), "call")
  <2>1. /\ at = "direction" /\ at' = "call"
        /\ file' = Append(file, <<saved.position.direction>>)
    BY <1>3 DEF Put
  <2>2. <<saved.position.direction>> \in Seq(0..Empty)
    BY <1>0 DEF Empty
  <2>3. Len(file) = 1 /\ file[1] = <<saved.position.floor>> /\ index = 1
    <3>1. Len(file) = 1 /\ index = 1
      BY <2>1 DEF Inv, Progress, Due
    <3> QED  BY <3>1 DEF Inv, Shape
  <2>4. /\ file' \in Seq(Seq(0..Empty)) /\ Len(file') = 2
        /\ file'[1] = <<saved.position.floor>> /\ file'[2] = <<saved.position.direction>>
    <3> DEFINE line == <<saved.position.direction>>
    <3>1. /\ Append(file, line) \in Seq(Seq(0..Empty)) /\ Len(Append(file, line)) = Len(file) + 1
          /\ Append(file, line)[Len(file) + 1] = line
          /\ \A k \in 1..Len(file) : Append(file, line)[k] = file[k]
      BY <1>0, <2>2, LineAppended
    <3> QED  BY <2>1, <2>3, <3>1
  <2>5. Types'
    BY <1>1, <2>1, <2>4 DEF Inv, Types
  <2>6. Shape'
    BY <1>0, <1>1, <2>4 DEF Shape
  <2>7. Progress'
    BY <1>1, <2>1, <2>3, <2>4 DEF Inv, Progress, Complete, Due
  <2> QED  BY <2>5, <2>6, <2>7 DEF Inv
<1> QED  BY <1>2, <1>3 DEF WriteHeader

(* A piece of a call's line: what was complete stays so, and the line is   *)
(* complete with its last piece.                                           *)
LEMMA InvCall ==
    ASSUME Inv, WriteCall
    PROVE  /\ Inv' /\ UNCHANGED <<call_buttons, saved, failed>> /\ at' \notin Due \cup {"idle"}
           /\ Len(file) >= 2 /\ Len(file') >= 2
           /\ Complete' = Complete \/ Complete' = Complete + 1
<1> DEFINE c == saved.calls[index]  last == Len(file)
<1>0. /\ file \in Seq(Seq(0..Empty)) /\ last \in Nat /\ index \in 1..Len(saved.calls)
      /\ saved.calls \in Seq(Calls) /\ Len(saved.calls) \in Nat
      /\ c.floor \in 0..254 /\ c.call \in 0..2
  <2>1. saved.calls \in Seq(Calls) /\ file \in Seq(Seq(0..Empty))
    BY DEF Inv, Types
  <2>2. Len(saved.calls) \in Nat /\ last \in Nat /\ DOMAIN saved.calls = 1..Len(saved.calls)
    BY <2>1, LenProperties
  <2>3. index \in 1..Len(saved.calls)
    BY <2>2 DEF WriteCall
  <2>4. c \in Calls
    BY <2>1, <2>3, ElementOfSeq
  <2>5. c.floor \in Floors /\ c.call \in CallTypes
    BY <2>4 DEF Calls
  <2> QED  BY <2>1, <2>2, <2>3, <2>5, Numbers
<1>1. UNCHANGED <<call_buttons, position, saved, failed>>
  BY DEF WriteCall
<1>2. /\ <<c.floor>> \in Seq(0..Empty) /\ <<c.floor, Empty>> \in Seq(0..Empty)
      /\ <<c.floor, c.call>> \in Seq(0..Empty)
      /\ <<c.floor>> # <<c.floor, c.call>> /\ <<c.floor, Empty>> # <<c.floor, c.call>>
  BY <1>0 DEF Empty
<1>3. saved.calls[index] = c /\ saved.calls'[index] = c
  BY <1>1
<1> HIDE DEF c
<1>4. CASE Put("call", Append(file, <<c.floor>>), "comma") /\ UNCHANGED index
  <2>1. at = "call" /\ at' = "comma" /\ file' = Append(file, <<c.floor>>) /\ index' = index
    BY <1>4 DEF Put
  <2>2. last = index + 1 /\ Complete = index - 1
    BY <2>1 DEF Inv, Progress
  <2>3. /\ file' \in Seq(Seq(0..Empty)) /\ Len(file') = last + 1 /\ file'[last + 1] = <<c.floor>>
        /\ \A k \in 1..last : file'[k] = file[k]
    BY <1>0, <1>2, <2>1, LineAppended
  <2>4. Types'
    BY <1>1, <2>1, <2>3, <1>0 DEF Inv, Types
  <2>5. \A k \in 1..(index - 1) : file[k + 2] = Full(k)
    BY <1>0, <2>2 DEF Inv, Shape, Complete
  <2>6. \A k \in 1..(index - 1) : file'[k + 2] = Full(k)'
    <3>1. \A k \in 1..(index - 1) : k + 2 \in 1..last
      BY <1>0, <2>2
    <3> QED  BY <1>1, <2>3, <2>5, <3>1 DEF Full
  <2>8. Complete' = index - 1
    BY <1>0, <1>1, <1>2, <1>3, <2>2, <2>3 DEF Complete, Full
  <2>9. Shape'
    BY <1>0, <1>1, <1>3, <2>2, <2>3, <2>6 DEF Inv, Shape
  <2>10. Progress'
    BY <1>0, <1>1, <2>1, <2>2, <2>3, <2>8 DEF Inv, Progress, Due
  <2> QED  BY <1>0, <1>1, <2>1, <2>2, <2>3, <2>4, <2>8, <2>9, <2>10 DEF Inv, Due
<1>5. ASSUME NEW line \in Seq(0..Empty), last = index + 2, Complete = index - 1,
             file' = [file EXCEPT ![last] = line], at' \in {"call", "type"},
             index' \in Nat \ {0},
             line \in {<<c.floor, Empty>>, <<c.floor, c.call>>}
      PROVE  /\ Types' /\ Shape' /\ Len(file') = last
             /\ Complete' = IF line = <<c.floor, c.call>> THEN index ELSE index - 1
  <2>1. last \in 1..Len(file)
    BY <1>0, <1>5
  <2>2. /\ file' \in Seq(Seq(0..Empty)) /\ Len(file') = last /\ file'[last] = line
        /\ \A k \in 1..last : k # last => file'[k] = file[k]
    BY <1>0, <1>5, <2>1, ExceptSeq
  <2>3. Types'
    BY <1>1, <1>5, <2>2, <1>0 DEF Inv, Types
  <2>4. \A k \in 1..(index - 1) : file'[k + 2] = Full(k)'
    <3>1. \A k \in 1..(index - 1) : file[k + 2] = Full(k)
      BY <1>0, <1>5 DEF Inv, Shape
    <3>2. \A k \in 1..(index - 1) : k + 2 \in 1..last /\ k + 2 # last
      BY <1>0, <1>5
    <3> QED  BY <1>1, <2>2, <3>1, <3>2 DEF Full
  <2>6. Complete' = IF line = <<c.floor, c.call>> THEN index ELSE index - 1
    <3>1. Len(file') = index + 2 /\ Len(file') > 2 /\ Len(file') - 2 = index
          /\ Len(file') - 3 = index - 1 /\ file'[Len(file')] = line
      BY <1>0, <1>5, <2>2
    <3>2. Complete' = IF line # <<c.floor, c.call>> THEN index - 1 ELSE index
      BY <1>3, <3>1 DEF Complete, Full
    <3> QED  BY <3>2
  <2>7. Shape'
    <3>1. 1 \in 1..last /\ 2 \in 1..last /\ 1 # last /\ 2 # last
      BY <1>0, <1>5
    <3>2. file'[1] = file[1] /\ file'[2] = file[2]
      BY <2>2, <3>1
    <3> QED  BY <1>0, <1>1, <1>3, <1>5, <2>2, <2>4, <3>1, <3>2 DEF Inv, Shape
  <2> QED  BY <2>2, <2>3, <2>6, <2>7
<1>6. CASE Put("comma", [file EXCEPT ![last] = <<c.floor, Empty>>], "type") /\ UNCHANGED index
  <2>1. /\ at = "comma" /\ at' = "type" /\ index' = index
        /\ file' = [file EXCEPT ![last] = <<c.floor, Empty>>]
    BY <1>6 DEF Put
  <2>2. last = index + 2 /\ Complete = index - 1
    BY <2>1 DEF Inv, Progress
  <2>3. Types' /\ Shape' /\ Len(file') = last /\ Complete' = index - 1
    <3> DEFINE line == <<c.floor, Empty>>
    <3>1. /\ line \in Seq(0..Empty) /\ line \in {<<c.floor, Empty>>, <<c.floor, c.call>>}
          /\ file' = [file EXCEPT ![last] = line] /\ line # <<c.floor, c.call>>
      BY <1>2, <2>1
    <3>2. at' \in {"call", "type"} /\ index' \in Nat \ {0}
      BY <1>0, <2>1
    <3> HIDE DEF line
    <3> QED  BY <1>5, <2>2, <3>1, <3>2
  <2>4. Progress'
    BY <1>0, <1>1, <2>1, <2>2, <2>3 DEF Inv, Progress, Due
  <2> QED  BY <1>0, <1>1, <2>1, <2>2, <2>3, <2>4 DEF Inv, Due
<1>7. CASE /\ Put("type", [file EXCEPT ![last] = <<c.floor, c.call>>], "call")
           /\ index' = index + 1
  <2>1. /\ at = "type" /\ at' = "call" /\ index' = index + 1
        /\ file' = [file EXCEPT ![last] = <<c.floor, c.call>>]
    BY <1>7 DEF Put
  <2>2. last = index + 2 /\ Complete = index - 1
    BY <2>1 DEF Inv, Progress
  <2>3. Types' /\ Shape' /\ Len(file') = last /\ Complete' = index
    <3> DEFINE line == <<c.floor, c.call>>
    <3>1. /\ line \in Seq(0..Empty) /\ line \in {<<c.floor, Empty>>, <<c.floor, c.call>>}
          /\ file' = [file EXCEPT ![last] = line] /\ line = <<c.floor, c.call>>
      BY <1>2, <2>1
    <3>2. at' \in {"call", "type"} /\ index' \in Nat \ {0}
      BY <1>0, <2>1
    <3> HIDE DEF line
    <3> QED  BY <1>5, <2>2, <3>1, <3>2
  <2>4. Progress'
    BY <1>0, <1>1, <2>1, <2>2, <2>3 DEF Inv, Progress, Due
  <2> QED  BY <1>0, <1>1, <2>1, <2>2, <2>3, <2>4 DEF Inv, Due
<1> QED  BY <1>4, <1>6, <1>7 DEF WriteCall, c

(* Every queue that is left to the file, or saved, is one of calls.        *)
LEMMA Queues ==
    ASSUME Inv
    PROVE  /\ \A c \in Calls : /\ Append(call_buttons, c) \in Seq(Calls)
                               /\ Enqueue(call_buttons, c) \in Seq(Calls)
           /\ \A i \in DOMAIN call_buttons : RemoveAt(call_buttons, i) \in Seq(Calls)
           /\ CabCalls \subseteq Calls /\ HallCalls \subseteq Calls
<1>1. call_buttons \in Seq(Calls)
  BY DEF Inv, Types
<1>2. ASSUME NEW c \in Calls
      PROVE  Append(call_buttons, c) \in Seq(Calls) /\ Enqueue(call_buttons, c) \in Seq(Calls)
  BY <1>1, AppendProperties, EnqueueProperties
<1>3. ASSUME NEW i \in DOMAIN call_buttons
      PROVE  RemoveAt(call_buttons, i) \in Seq(Calls)
  BY <1>1, RemoveAtProperties
<1> QED  BY <1>2, <1>3 DEF CabCalls, HallCalls

(* A restart loads calls and a position.                                   *)
LEMMA LoadedTypes ==
    ASSUME Inv
    PROVE  load_elevator_state(file).calls \in Seq(Calls)
           /\ load_elevator_state(file).position \in Positions
<1>0. /\ file \in Seq(Seq(0..Empty)) /\ Len(file) \in Nat
      /\ saved.calls \in Seq(Calls) /\ Len(saved.calls) \in Nat /\ saved.position \in Positions
  <2>1. file \in Seq(Seq(0..Empty)) /\ saved.calls \in Seq(Calls) /\ saved.position \in Positions
    BY DEF Inv, Types
  <2> QED  BY <2>1, LenProperties
<1>1. CASE Len(file) < 2
  <2>1. load_elevator_state(file) = [found |-> FALSE, position |-> Start, calls |-> <<>>]
    BY <1>1, Loaded DEF Inv
  <2>2. <<>> \in Seq(Calls) /\ Start \in Positions
    BY EmptySeq, Numbers
  <2> QED  BY <2>1, <2>2
<1>2. CASE Len(file) >= 2
  <2>1. /\ Complete \in 0..Len(saved.calls)
        /\ load_elevator_state(file)
           = [found |-> TRUE, position |-> saved.position,
              calls |-> SubSeq(saved.calls, 1, Complete)]
    BY <1>2, Loaded DEF Inv
  <2>2. \A k \in 1..Complete : saved.calls[k] \in Calls
    BY <1>0, <2>1, ElementOfSeq
  <2>3. SubSeq(saved.calls, 1, Complete) \in Seq(Calls)
    BY <1>0, <2>1, <2>2, SubSeqProperties
  <2> QED  BY <1>0, <2>1, <2>3
<1> QED  BY <1>0, <1>1, <1>2

LEMMA Step == Inv /\ [Next]_vars => Inv'
<1> SUFFICES ASSUME Inv, [Next]_vars PROVE Inv'
  OBVIOUS
<1>0. call_buttons \in Seq(Calls) /\ position \in Positions
  BY DEF Inv, Types
<1>1. CASE WriteHeader
  BY <1>1, InvHeader
<1>2. CASE WriteCall
  BY <1>2, InvCall
<1>3. CASE WriteEnds
  BY <1>3 DEF WriteEnds, Inv, Types, Shape, Progress, Complete, Full, Due
<1>4. CASE WriteFails
  <2>1. Types'
    <3>1. failed' \in BOOLEAN
      BY <1>4, Zenon DEF WriteFails
    <3> QED  BY <1>4, <3>1 DEF WriteFails, Inv, Types
  <2> QED  BY <1>4, <2>1 DEF WriteFails, Inv, Shape, Progress, Complete, Full, Due
<1>5. ASSUME NEW c, CabPressed(c)
      PROVE  Inv'
  <2>1. Append(call_buttons, c) \in Seq(Calls)
    BY <1>5, Queues DEF CabPressed
  <2> QED  BY <1>0, <1>5, <2>1, InvDue DEF CabPressed, Changed, Due
<1>6. ASSUME NEW c, HallAssigned(c)
      PROVE  Inv'
  <2>1. Enqueue(call_buttons, c) \in Seq(Calls)
    BY <1>6, Queues DEF HallAssigned
  <2> QED  BY <1>0, <1>6, <2>1, InvUnsaved DEF HallAssigned
<1>7. ASSUME NEW i \in DOMAIN call_buttons, HallServed(i) \/ CabServed(i) \/ HallCompleted(i)
      PROVE  Inv'
  <2>1. RemoveAt(call_buttons, i) \in Seq(Calls)
    BY <1>7, Queues
  <2>2. CASE HallServed(i)
    BY <1>0, <2>1, <2>2, InvUnsaved DEF HallServed
  <2>3. CASE CabServed(i)
    BY <1>0, <2>1, <2>3, InvDue DEF CabServed, Changed, Due
  <2>4. CASE HallCompleted(i)
    BY <1>0, <2>1, <2>4, InvDue DEF HallCompleted, Changed, Due
  <2> QED  BY <1>7, <2>2, <2>3, <2>4
<1>8. CASE StopPressed
  <2>1. position' \in Positions /\ <<>> \in Seq(Calls)
    BY <1>0, <1>8, EmptySeq DEF StopPressed, Positions, Directions
  <2> QED  BY <1>8, <2>1, InvDue DEF StopPressed, Due
<1>9. CASE Moves
  BY <1>0, <1>9, InvUnsaved DEF Moves
<1>10. CASE Restart
  <2>1. UNCHANGED <<file, index, saved>> /\ at' = "idle" /\ failed' = FALSE
    BY <1>10 DEF Restart
  <2>2. call_buttons' \in Seq(Calls) /\ position' \in Positions
    BY <1>10, LoadedTypes DEF Restart
  <2>3. Types'
    <3>1. failed' \in BOOLEAN
      BY <2>1, Zenon
    <3> QED  BY <2>1, <2>2, <3>1 DEF Inv, Types
  <2> QED  BY <2>1, <2>3 DEF Inv, Shape, Progress, Complete, Full, Due
<1>11. CASE UNCHANGED vars
  BY <1>11 DEF vars, Inv, Types, Shape, Progress, Complete, Full
<1>12. CASE Persist
  BY <1>12, InvPersist
<1> QED  BY <1>1, <1>2, <1>3, <1>4, <1>5, <1>6, <1>7, <1>8, <1>9, <1>10, <1>11, <1>12 DEF Next

LEMMA Invariance == Spec => []Inv
<1>1. Init => Inv
  BY InvInit
<1>2. Inv /\ [Next]_vars => Inv'
  BY Step
<1> QED  BY <1>1, <1>2, PTL DEF Spec

-----------------------------------------------------------------------------
(* The queue, the file and the save in progress keep their form, whenever  *)
(* a save is cut short, and a restart loads calls.                         *)
THEOREM TypeCorrect == Spec => []TypeOK
<1>1. Inv => TypeOK
  <2> SUFFICES ASSUME Inv PROVE TypeOK
    OBVIOUS
  <2>1. load_elevator_state(file).calls \in Seq(Calls)
    BY LoadedTypes
  <2> QED  BY <2>1 DEF Inv, Types, TypeOK
<1>2. Spec => []Inv
  BY Invariance
<1> QED  BY <1>1, <1>2, PTL

-----------------------------------------------------------------------------
(* What a restart would find, after an action that leaves the file.        *)
LEMMA FileLeft ==
    ASSUME UNCHANGED <<file, saved>>
    PROVE  UNCHANGED <<saved, load_elevator_state(file)>>
BY DEF load_elevator_state, CallLines, Nth, CallOf

(* A save that begins takes away what was there, or fails and leaves it.   *)
LEMMA ContractPersist ==
    ASSUME Inv, Persist
    PROVE  [Contract!Next]_<<saved, load_elevator_state(file)>>
<1>1. CASE UNCHANGED <<file, saved>>
  BY <1>1, FileLeft
<1>2. CASE file' = <<>> /\ saved' = [position |-> position, calls |-> call_buttons]
  <2>1. Len(file') = 0
    BY <1>2
  <2>2. load_elevator_state(file)' = [found |-> FALSE, position |-> Start, calls |-> <<>>]
    BY <2>1 DEF load_elevator_state
  <2>3. saved' \in Contract!States
    BY <1>2 DEF Contract!States, Inv, Types
  <2> QED  BY <2>2, <2>3 DEF Contract!Next, Contract!Save, Contract!None
<1> QED  BY <1>1, <1>2 DEF Persist

(* What a restart would find, as the contract says it, before and after a  *)
(* step.                                                                   *)
Found ==
    /\ Len(file) < 2 => load_elevator_state(file) = Contract!None
    /\ Len(file) >= 2 => /\ Complete \in 0..Len(saved.calls)
                         /\ load_elevator_state(file) = Contract!Beginning(saved, Complete)

LEMMA FoundAs == Inv => Found /\ (Inv' => Found')
<1>1. Inv => Found
  BY Loaded DEF Inv, Found, Contract!None, Contract!Beginning
<1> QED  BY <1>1, PTL

LEMMA ContractHeader ==
    ASSUME Inv, WriteHeader
    PROVE  [Contract!Next]_<<saved, load_elevator_state(file)>>
<1>1. Inv' /\ saved' = saved
  BY InvHeader DEF WriteHeader
<1>2. CASE at = "floor" /\ file' = <<<<saved.position.floor>>>>
  <2>1. Len(file) = 0 /\ Len(file') = 1
    BY <1>2 DEF Inv, Progress
  <2>2. load_elevator_state(file) = [found |-> FALSE, position |-> Start, calls |-> <<>>]
    BY <2>1 DEF load_elevator_state
  <2>3. load_elevator_state(file)' = [found |-> FALSE, position |-> Start, calls |-> <<>>]
    BY <2>1 DEF load_elevator_state
  <2> QED  BY <1>1, <2>2, <2>3
<1>3. CASE at' = "call" /\ at = "direction"
  <2>1. Len(file) = 1 /\ Len(file') = 2 /\ Complete' = 0
    <3>1. Len(file) = 1 /\ index = 1 /\ index' = index
      BY <1>3 DEF Inv, Progress, WriteHeader
    <3>2. Len(file') = index' + 1 /\ Complete' = index' - 1
      BY <1>1, <1>3 DEF Inv, Progress
    <3> QED  BY <3>1, <3>2
  <2>2. load_elevator_state(file) = Contract!None
    BY <2>1, FoundAs DEF Found
  <2>3. load_elevator_state(file)' = Contract!Beginning(saved, 0)
    <3>1. load_elevator_state(file)' = Contract!Beginning(saved', Complete')
      BY <1>1, <2>1, FoundAs DEF Found, Contract!Beginning
    <3> QED  BY <1>1, <2>1, <3>1
  <2> QED  BY <1>1, <2>2, <2>3 DEF Contract!Next, Contract!Extend
<1> QED  BY <1>2, <1>3 DEF WriteHeader, Put

LEMMA ContractCall ==
    ASSUME Inv, WriteCall
    PROVE  [Contract!Next]_<<saved, load_elevator_state(file)>>
<1>1. /\ Inv' /\ saved' = saved /\ Len(file) >= 2 /\ Len(file') >= 2
      /\ Complete' = Complete \/ Complete' = Complete + 1
  BY InvCall
<1>2. /\ Complete \in 0..Len(saved.calls) /\ Complete' \in 0..Len(saved'.calls)
      /\ load_elevator_state(file) = Contract!Beginning(saved, Complete)
      /\ load_elevator_state(file)' = Contract!Beginning(saved', Complete')
  BY <1>1, FoundAs DEF Found, Contract!Beginning
<1>3. Contract!Beginning(saved', Complete') = Contract!Beginning(saved, Complete')
  BY <1>1 DEF Contract!Beginning
<1>4. CASE Complete' = Complete
  BY <1>1, <1>2, <1>3, <1>4
<1>5. CASE Complete' = Complete + 1
  <2>1. Len(saved.calls) \in Nat
    BY LenProperties DEF Inv, Types
  <2>2. Complete \in 0..(Len(saved.calls) - 1)
    BY <1>1, <1>2, <1>5, <2>1
  <2> QED  BY <1>1, <1>2, <1>3, <1>5, <2>2 DEF Contract!Next, Contract!Extend
<1> QED  BY <1>1, <1>4, <1>5

LEMMA ContractStep ==
    Inv /\ [Next]_vars => [Contract!Next]_<<saved, load_elevator_state(file)>>
<1> SUFFICES ASSUME Inv, [Next]_vars
             PROVE  [Contract!Next]_<<saved, load_elevator_state(file)>>
  OBVIOUS
<1>1. CASE WriteHeader
  BY <1>1, ContractHeader
<1>2. CASE WriteCall
  BY <1>2, ContractCall
<1>3. CASE Persist
  BY <1>3, ContractPersist
<1>4. CASE WriteEnds \/ WriteFails \/ StopPressed \/ Moves \/ Restart \/ UNCHANGED vars
  BY <1>4, FileLeft DEF WriteEnds, WriteFails, StopPressed, Moves, Unsaved, Restart, vars
<1>5. ASSUME NEW c, CabPressed(c) \/ HallAssigned(c)
      PROVE  [Contract!Next]_<<saved, load_elevator_state(file)>>
  BY <1>5, FileLeft DEF CabPressed, Changed, HallAssigned, Unsaved
<1>6. ASSUME NEW i, HallServed(i) \/ CabServed(i) \/ HallCompleted(i)
      PROVE  [Contract!Next]_<<saved, load_elevator_state(file)>>
  BY <1>6, FileLeft DEF HallServed, Unsaved, CabServed, HallCompleted, Changed
<1> QED  BY <1>1, <1>2, <1>3, <1>4, <1>5, <1>6 DEF Next

(* persist_elevator_state and load_elevator_state implement the abstract   *)
(* state file: a save takes away what was there, and what can be found     *)
(* then grows from nothing to the queue that was saved, call by call, with *)
(* a restart or a failed write anywhere.                                   *)
THEOREM KeepsContract == Spec => FileKeepsContract
<1>1. Init => Contract!Init
  <2> SUFFICES ASSUME Init PROVE Contract!Init
    OBVIOUS
  <2>1. saved \in Contract!States /\ file = <<>> /\ Len(file) = 0
    BY InvInit DEF Init, Inv, Types, Contract!States
  <2>2. load_elevator_state(file) = Contract!None
    BY <2>1 DEF load_elevator_state, Contract!None
  <2> QED  BY <2>1, <2>2 DEF Contract!Init
<1>2. Inv /\ [Next]_vars => [Contract!Next]_<<saved, load_elevator_state(file)>>
  BY ContractStep
<1>3. Spec => []Inv
  BY Invariance
<1> QED  BY <1>1, <1>2, <1>3, PTL DEF Spec, FileKeepsContract, Contract!Spec

(* Whenever the process ends, a restart finds nothing, or the position and *)
(* a beginning of the queue that was saved last.                           *)
THEOREM BeginningFound == Spec => []Contract!FoundIsBeginning
<1>1. Inv => Contract!FoundIsBeginning
  <2> SUFFICES ASSUME Inv PROVE Contract!FoundIsBeginning
    OBVIOUS
  <2>1. Len(file) \in Nat /\ (Len(file) < 2 \/ Len(file) >= 2)
    BY LenProperties DEF Inv, Types
  <2>2. CASE Len(file) < 2
    BY <2>2, FoundAs DEF Found, Contract!FoundIsBeginning
  <2>3. CASE Len(file) >= 2
    BY <2>3, FoundAs DEF Found, Contract!FoundIsBeginning
  <2> QED  BY <2>1, <2>2, <2>3
<1>2. Spec => []Inv
  BY Invariance
<1> QED  BY <1>1, <1>2, PTL

-----------------------------------------------------------------------------
(* A call that goes leaves every other one where it was.                   *)
LEMMA OtherCallsStay ==
    ASSUME NEW q \in Seq(Calls), NEW i \in DOMAIN q, NEW c \in Calls, c # q[i]
    PROVE  Contains(RemoveAt(q, i), c) <=> Contains(q, c)
BY RemoveAtWithin, RemoveAtKeeps DEF Within

(* The file is left, and the cabin calls of the queue are too.             *)
LEMMA CabCallsLeft ==
    ASSUME CabCallsRecovered, Unsaved,
           \A c \in CabCalls : Contains(call_buttons', c) <=> Contains(call_buttons, c)
    PROVE  CabCallsRecovered'
<1>1. UNCHANGED <<at, failed, saved, load_elevator_state(file)>>
  BY FileLeft DEF Unsaved
<1> QED  BY <1>1 DEF CabCallsRecovered, Recovered, Unsaved

(* The queue is changed in one call, and the file does not show it yet.    *)
LEMMA CabCallChanged ==
    ASSUME CabCallsRecovered, NEW q, Changed(q), NEW d \in CabCalls,
           \A c \in CabCalls \ {d} : Contains(q, c) <=> Contains(call_buttons, c)
    PROVE  CabCallsRecovered'
<1>1. /\ at = "idle" /\ at' = "changed" /\ call_buttons' = q
      /\ UNCHANGED <<failed, saved, load_elevator_state(file)>>
  BY FileLeft DEF Changed
<1> QED  BY <1>1 DEF CabCallsRecovered, Recovered

LEMMA CabCallsStep == Inv /\ CabCallsRecovered /\ [Next]_vars => CabCallsRecovered'
<1> SUFFICES ASSUME Inv, CabCallsRecovered, [Next]_vars
             PROVE  CabCallsRecovered'
  OBVIOUS
<1>0. /\ call_buttons \in Seq(Calls) /\ saved.calls \in Seq(Calls) /\ Len(saved.calls) \in Nat
      /\ CabCalls \subseteq Calls /\ CabCalls \cap HallCalls = {}
  BY LenProperties DEF Inv, Types, CabCalls, HallCalls
<1>1. CASE at' \notin {"idle", "changed"} \/ failed' = TRUE
  BY <1>1 DEF CabCallsRecovered
<1>2. CASE WriteEnds
  <2>1. /\ at = "call" /\ at' = "idle" /\ index = Len(saved.calls) + 1
        /\ UNCHANGED <<call_buttons, file, saved>>
    BY <1>2 DEF WriteEnds
  <2>2. /\ Len(file) >= 2 /\ Complete = Len(saved.calls) /\ call_buttons = saved.calls
    BY <1>0, <2>1 DEF Inv, Progress, Due
  <2>3. load_elevator_state(file).calls = SubSeq(saved.calls, 1, Len(saved.calls))
    BY <2>2, Loaded DEF Inv
  <2>4. SubSeq(saved.calls, 1, Len(saved.calls)) = saved.calls
    BY <1>0, SubSeqFull
  <2>5. load_elevator_state(file)' = load_elevator_state(file)
    BY <2>1, FileLeft
  <2>6. load_elevator_state(file)'.calls = call_buttons'
    BY <2>1, <2>2, <2>3, <2>4, <2>5
  <2> QED  BY <2>1, <2>6, Zenon DEF CabCallsRecovered, Recovered
<1>3. ASSUME NEW c, HallAssigned(c)
      PROVE  CabCallsRecovered'
  <2>1. c \in HallCalls /\ c \in Calls
    BY <1>3 DEF HallAssigned, HallCalls
  <2>2. \A d \in CabCalls : Contains(Enqueue(call_buttons, c), d) <=> Contains(call_buttons, d)
    BY <1>0, <2>1, EnqueueProperties
  <2> QED  BY <1>3, <2>2, CabCallsLeft DEF HallAssigned
<1>4. ASSUME NEW i \in DOMAIN call_buttons, HallServed(i)
      PROVE  CabCallsRecovered'
  <2>1. \A d \in CabCalls : d \in Calls /\ d # call_buttons[i]
    BY <1>0, <1>4 DEF HallServed
  <2>2. \A d \in CabCalls : Contains(RemoveAt(call_buttons, i), d) <=> Contains(call_buttons, d)
    BY <1>0, <2>1, OtherCallsStay
  <2> QED  BY <1>4, <2>2, CabCallsLeft DEF HallServed
<1>5. CASE Moves
  BY <1>5, CabCallsLeft DEF Moves
<1>6. CASE Restart
  <2>1. /\ UNCHANGED <<file, saved>> /\ call_buttons' = load_elevator_state(file).calls
        /\ at' = "idle"
    BY <1>6 DEF Restart
  <2>2. load_elevator_state(file)' = load_elevator_state(file)
    BY <2>1, FileLeft
  <2>3. load_elevator_state(file)'.calls = call_buttons'
    BY <2>1, <2>2
  <2> QED  BY <2>1, <2>3, Zenon DEF CabCallsRecovered, Recovered
<1>7. CASE UNCHANGED vars
  <2>1. UNCHANGED <<at, failed, call_buttons, saved, load_elevator_state(file)>>
    BY <1>7, FileLeft DEF vars
  <2> QED  BY <2>1 DEF CabCallsRecovered, Recovered
<1>8. CASE Persist \/ WriteHeader \/ WriteFails \/ StopPressed
  BY <1>1, <1>8 DEF Persist, WriteHeader, Put, WriteFails, StopPressed
<1>9. CASE WriteCall
  BY <1>1, <1>9, InvCall DEF Due
<1>10. ASSUME NEW c, CabPressed(c)
       PROVE  CabCallsRecovered'
  <2>1. c \in CabCalls /\ c \in Calls /\ Append(call_buttons, c) = Enqueue(call_buttons, c)
    BY <1>0, <1>10 DEF CabPressed, Enqueue
  <2>2. \A d \in CabCalls \ {c} :
            Contains(Append(call_buttons, c), d) <=> Contains(call_buttons, d)
    BY <1>0, <2>1, EnqueueProperties
  <2> QED  BY <1>10, <2>1, <2>2, CabCallChanged DEF CabPressed
<1>11. ASSUME NEW i \in DOMAIN call_buttons, CabServed(i)
       PROVE  CabCallsRecovered'
  <2>1. call_buttons[i] \in CabCalls /\ Changed(RemoveAt(call_buttons, i))
    BY <1>11 DEF CabServed
  <2>2. \A d \in CabCalls \ {call_buttons[i]} :
            Contains(RemoveAt(call_buttons, i), d) <=> Contains(call_buttons, d)
    BY <1>0, OtherCallsStay
  <2> QED  BY <2>1, <2>2, CabCallChanged
<1>12. ASSUME NEW i \in DOMAIN call_buttons, HallCompleted(i)
       PROVE  CabCallsRecovered'
  <2>1. PICK e \in CabCalls : TRUE
    <3>1. [floor |-> 0, call |-> CAB] \in CabCalls
      BY NumFloorsAssumption DEF CabCalls, Calls, Floors, CallTypes
    <3> QED  BY <3>1
  <2>2. \A d \in CabCalls : d \in Calls /\ d # call_buttons[i]
    BY <1>0, <1>12 DEF HallCompleted
  <2>3. \A d \in CabCalls \ {e} :
            Contains(RemoveAt(call_buttons, i), d) <=> Contains(call_buttons, d)
    BY <1>0, <2>2, OtherCallsStay
  <2> QED  BY <1>12, <2>1, <2>3, CabCallChanged DEF HallCompleted
<1> QED  BY <1>2, <1>3, <1>4, <1>5, <1>6, <1>7, <1>8, <1>9, <1>10, <1>11, <1>12 DEF Next

(* Between saves, the cabin calls a restart would find are those of the    *)
(* queue, and while a press or a service is still to be saved all but that *)
(* one are, unless the last save failed: no passenger in the cabin is      *)
(* forgotten.  Nothing is said of the three seconds between the stop       *)
(* button and its save.                                                    *)
THEOREM CabCallsKept == Spec => []CabCallsRecovered
<1>1. Init => CabCallsRecovered
  <2> SUFFICES ASSUME Init PROVE CabCallsRecovered
    OBVIOUS
  <2>1. Len(file) = 0 /\ call_buttons = <<>>
    BY DEF Init
  <2>2. load_elevator_state(file).calls = call_buttons
    BY <2>1 DEF load_elevator_state
  <2>3. at = "idle"
    BY DEF Init
  <2> QED  BY <2>2, <2>3, Zenon DEF CabCallsRecovered, Recovered
<1>2. Inv /\ CabCallsRecovered /\ [Next]_vars => CabCallsRecovered'
  BY CabCallsStep
<1>3. Spec => []Inv
  BY Invariance
<1> QED  BY <1>1, <1>2, <1>3, PTL DEF Spec
=============================================================================
