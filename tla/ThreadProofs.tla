---------------------------- MODULE ThreadProofs ----------------------------
(***************************************************************************)
(* Theorems about the threads of one elevator, for every set of calls,     *)
(* peers and bounds.                                                       *)
(***************************************************************************)
EXTENDS HallCallThreads, ControlLemmas

-----------------------------------------------------------------------------
(* Types.                                                                  *)

LEMMA Values ==
    /\ Pressed \subseteq Calls /\ Pressed \subseteq HallCalls
    /\ NoCall \in Pressed /\ 0 \in 0..MaxTime /\ Me \in Ids /\ Peers \subseteq Ids
    /\ {Absent, Unassigned} \cap Ids = {} /\ Absent # Unassigned
    /\ "main" \in Threads /\ "listener" \in Threads /\ "monitor" \in Threads
<1>1. Pressed \subseteq HallCalls /\ Pressed # {} /\ MaxTime \in Nat
      /\ {Absent, Unassigned} \cap Ids = {}
  BY ThreadsAssumption
<1>2. NoCall \in Pressed
  BY <1>1 DEF NoCall
<1>3. Pressed \subseteq Calls
  BY <1>1 DEF HallCalls
<1>4. 0 \in 0..MaxTime
  BY <1>1
<1>5. Absent # Unassigned
  BY DEF Absent, Unassigned
<1>6. Me \in Ids /\ Peers \subseteq Ids
  BY DEF Ids
<1> QED  BY <1>1, <1>2, <1>3, <1>4, <1>5, <1>6 DEF Threads

(* Where a thread goes after an assignment is a place of the program.      *)
LEMMA ResumeType ==
    ASSUME NEW t, NEW items
    PROVE  Resume(t, items) \in {"loop", "sweep", "idle"}
BY DEF Resume

(* What a loop collects from the map is a call and its timestamp.          *)
LEMMA ItemsType ==
    ASSUME TypeOK, NEW owners
    PROVE  Items(owners) \in SUBSET Item
BY DEF TypeOK, Items, Entries, Item

LEMMA InsertType ==
    ASSUME TypeOK, NEW c \in Pressed, NEW owner \in Ids \cup {Unassigned, Absent},
           NEW ts \in 0..MaxTime, Insert(c, owner, ts)
    PROVE  /\ assigned_to' \in [Pressed -> Ids \cup {Unassigned, Absent}]
           /\ timestamp' \in [Pressed -> 0..MaxTime]
BY DEF TypeOK, Insert

LEMMA BeginType ==
    ASSUME TypeOK, NEW t \in Threads, NEW k \in Operations, NEW l \in PCs, Begin(t, k, l)
    PROVE  pc' \in [Threads -> PCs] /\ used' \in [Operations -> Nat]
BY DEF TypeOK, Begin, Goto

LEMMA ProceedType ==
    ASSUME TypeOK, NEW t \in Threads, NEW l \in PCs, Proceed(t, l)
    PROVE  /\ pc' \in [Threads -> PCs]
           /\ call' \in [Threads -> Pressed] /\ time' \in [Threads -> 0..MaxTime]
           /\ best' \in [Threads -> Ids]
<1>1. pc' \in [Threads -> PCs]
  BY DEF TypeOK, Proceed, Goto
<1>2. CASE l = "idle"
  <2>1. NoCall \in Pressed /\ 0 \in 0..MaxTime /\ Me \in Ids
    BY Values
  <2> QED  BY <1>1, <1>2, <2>1 DEF TypeOK, Proceed
<1>3. CASE l # "idle"
  BY <1>1, <1>3 DEF TypeOK, Proceed, args
<1> QED  BY <1>2, <1>3

(* Vec::remove leaves a queue of hall calls.                               *)
LEMMA RemovedType ==
    ASSUME NEW q \in Seq(Pressed), NEW i \in DOMAIN q
    PROVE  RemoveAt(q, i) \in Seq(Pressed) /\ q[i] \in Pressed
<1> DEFINE r == RemoveAt(q, i)
<1>1. q \in Seq(Calls)
  BY Values, SeqMonotonic
<1>2. /\ r \in Seq(Calls) /\ Len(r) = Len(q) - 1
      /\ \A j \in 1..(Len(q) - 1) : r[j] = IF j < i THEN q[j] ELSE q[j + 1]
  BY <1>1, RemoveAtProperties
<1> HIDE DEF r
<1>3. Len(q) \in Nat /\ DOMAIN q = 1..Len(q) /\ \A j \in 1..Len(q) : q[j] \in Pressed
  BY LenProperties, ElementOfSeq
<1>4. \A j \in 1..Len(r) : r[j] \in Pressed
  BY <1>2, <1>3
<1>5. Len(r) \in Nat /\ r \in [1..Len(r) -> Calls]
  BY <1>2, LenProperties
<1>6. r \in [1..Len(r) -> Pressed]
  BY <1>4, <1>5
<1>7. r \in Seq(Pressed)
  BY <1>5, <1>6, SeqDef
<1> QED  BY <1>3, <1>7 DEF r

(* The empty map and queue of a process that starts.                       *)
LEMMA InitType == Init => TypeOK
<1> SUFFICES ASSUME Init PROVE TypeOK
  OBVIOUS
<1>1. <<>> \in Seq(Pressed) /\ "idle" \in PCs
  BY EmptySeq DEF PCs
<1>2. /\ NoCall \in Pressed /\ 0 \in 0..MaxTime /\ Me \in Ids
      /\ MaxTime \in Nat
  BY Values, ThreadsAssumption
<1> QED  BY <1>1, <1>2 DEF Init, TypeOK

(* The lock sections of an assignment keep the types.                      *)
LEMMA AssigningType ==
    ASSUME TypeOK, NEW t \in Threads, Assigning(t)
    PROVE  TypeOK'
<1> USE DEF map, queue, heard, args, rest, locals
<1>0. {"idle", "loop", "sweep", "mark", "check", "choose", "write", "push"} \subseteq PCs
  BY DEF PCs
<1>1. CASE Check(t)
  <2> DEFINE l == IF assigned_to[call[t]] \in Ids /\ timestamp[call[t]] = time[t]
                  THEN Resume(t, todo[t]) ELSE "choose"
  <2>1. l \in PCs
    BY <1>0, ResumeType
  <2>2. Proceed(t, l)
    BY <1>1 DEF Check
  <2> HIDE DEF l
  <2> QED  BY <1>1, <2>1, <2>2, ProceedType DEF Check, TypeOK
<1>2. CASE Choose(t)
  <2>1. best' \in [Threads -> Ids]
    BY <1>2, Values DEF Choose, TypeOK
  <2> QED  BY <1>0, <1>2, <2>1 DEF Choose, Goto, TypeOK
<1>3. CASE Write(t)
  <2> DEFINE l == IF best[t] = Me THEN "push" ELSE Resume(t, todo[t])
  <2>1. l \in PCs /\ Proceed(t, l)
    BY <1>0, <1>3, ResumeType DEF Write
  <2>2. /\ assigned_to' \in [Pressed -> Ids \cup {Unassigned, Absent}]
        /\ timestamp' \in [Pressed -> 0..MaxTime]
    BY <1>3, InsertType DEF Write, TypeOK
  <2> HIDE DEF l
  <2> QED  BY <1>3, <2>1, <2>2, ProceedType DEF Write, TypeOK
<1>4. CASE Push(t)
  <2>1. Resume(t, todo[t]) \in PCs /\ Proceed(t, Resume(t, todo[t]))
    BY <1>0, <1>4, ResumeType DEF Push
  <2>2. call_buttons' \in Seq(Pressed) /\ lamps' \subseteq Pressed
    BY <1>4, AppendProperties DEF Push, Enqueue, TypeOK
  <2> QED  BY <1>4, <2>1, <2>2, ProceedType DEF Push, TypeOK
<1>5. CASE Loop(t)
  <2>1. PICK r \in todo[t] : /\ call' = [call EXCEPT ![t] = r.call]
                             /\ time' = [time EXCEPT ![t] = r.timestamp]
                             /\ todo' = [todo EXCEPT ![t] = @ \ {r}]
    BY <1>5 DEF Loop
  <2>2. r.call \in Pressed /\ r.timestamp \in 0..MaxTime
    BY <2>1 DEF TypeOK, Item
  <2>3. /\ call' \in [Threads -> Pressed] /\ time' \in [Threads -> 0..MaxTime]
        /\ todo' \in [Threads -> SUBSET Item]
    BY <2>1, <2>2 DEF TypeOK
  <2>4. pc' \in [Threads -> PCs]
    BY <1>0, <1>5 DEF Loop, Goto, TypeOK
  <2> QED  BY <1>5, <2>3, <2>4 DEF Loop, TypeOK
<1>6. CASE Mark(t)
  <2>1. /\ assigned_to' \in [Pressed -> Ids \cup {Unassigned, Absent}]
        /\ timestamp' \in [Pressed -> 0..MaxTime]
    BY <1>6, InsertType DEF Mark, TypeOK
  <2> QED  BY <1>0, <1>6, <2>1 DEF Mark, Goto, TypeOK
<1> QED  BY <1>1, <1>2, <1>3, <1>4, <1>5, <1>6 DEF Assigning

(* The sections that begin an operation keep the types.                    *)
LEMMA BeginsType == TypeOK /\ Begins => TypeOK'
<1> SUFFICES ASSUME TypeOK, Begins PROVE TypeOK'
  OBVIOUS
<1> USE DEF map, queue, heard, args, rest, locals
<1>0. /\ {"idle", "insert", "update", "completing", "completing_next", "loop", "sweep",
          "snapshot", "darken", "find"} \subseteq PCs
      /\ {"press", "serve", "serve_next", "stop", "lever", "hall_msg", "state_msg",
          "completed_msg", "timeout", "expiry"} \subseteq Operations
      /\ "main" \in Threads /\ "listener" \in Threads /\ "monitor" \in Threads
  BY Values DEF PCs, Operations
<1>1. ASSUME NEW c \in Pressed, NEW ts \in 0..MaxTime, Press(c, ts) \/ HallMessage(c, ts)
      PROVE  TypeOK'
  <2>1. pc' \in [Threads -> PCs] /\ used' \in [Operations -> Nat]
    BY <1>0, <1>1, BeginType DEF Press, HallMessage
  <2> QED  BY <1>1, <2>1 DEF Press, HallMessage, TypeOK
<1>2. ASSUME NEW c \in Pressed, CompletedMessage(c) PROVE TypeOK'
  <2>1. pc' \in [Threads -> PCs] /\ used' \in [Operations -> Nat]
    BY <1>0, <1>2, BeginType DEF CompletedMessage
  <2>2. /\ assigned_to' \in [Pressed -> Ids \cup {Unassigned, Absent}]
        /\ timestamp' \in [Pressed -> 0..MaxTime]
    BY <1>2, InsertType, Values DEF CompletedMessage, Forget
  <2> QED  BY <1>2, <2>1, <2>2 DEF CompletedMessage, TypeOK
<1>3. ASSUME NEW i \in DOMAIN call_buttons, Serve(i) \/ ServeNext(i) PROVE TypeOK'
  <2>1. pc' \in [Threads -> PCs] /\ used' \in [Operations -> Nat]
    BY <1>0, <1>3, BeginType DEF Serve, ServeNext
  <2>2. RemoveAt(call_buttons, i) \in Seq(Pressed) /\ call_buttons[i] \in Pressed
    BY RemovedType DEF TypeOK
  <2>4. i \in Nat
    BY LenProperties DEF TypeOK
  <2>3. call' \in [Threads -> Pressed]
    BY <1>0, <1>3, <2>2 DEF Serve, ServeNext, TypeOK
  <2>5. CASE Serve(i)
    BY <2>1, <2>2, <2>3, <2>5 DEF Serve, TypeOK
  <2>6. CASE ServeNext(i)
    BY <2>1, <2>3, <2>4, <2>6 DEF ServeNext, TypeOK
  <2> QED  BY <1>3, <2>5, <2>6
<1>4. CASE StopButton \/ Obstruction
  <2>1. Resume("main", Items({Me})) \in PCs
    BY <1>0, ResumeType
  <2>2. pc' \in [Threads -> PCs] /\ used' \in [Operations -> Nat]
    BY <1>0, <1>4, <2>1, BeginType DEF StopButton, Obstruction
  <2>3. Items({Me}) \in SUBSET Item /\ <<>> \in Seq(Pressed)
    BY ItemsType, EmptySeq
  <2>4. CASE StopButton
    BY <1>0, <2>2, <2>3, <2>4 DEF StopButton, TypeOK
  <2>5. CASE Obstruction
    BY <1>0, <2>2, <2>3, <2>5 DEF Obstruction, TypeOK
  <2> QED  BY <1>4, <2>4, <2>5
<1>5. ASSUME NEW id \in Peers, StateMessage(id) PROVE TypeOK'
  <2>1. pc' \in [Threads -> PCs] /\ used' \in [Operations -> Nat]
    BY <1>0, <1>5, BeginType DEF StateMessage
  <2> QED  BY <1>5, <2>1, Values DEF StateMessage, TypeOK
<1>6. ASSUME NEW ids \in SUBSET Ids, Timeout(ids) \/ Expiry(ids) PROVE TypeOK'
  <2>1. pc' \in [Threads -> PCs] /\ used' \in [Operations -> Nat]
    BY <1>0, <1>6, BeginType DEF Timeout, Expiry
  <2> QED  BY <1>6, <2>1 DEF Timeout, Expiry, TypeOK
<1> QED  BY <1>1, <1>2, <1>3, <1>4, <1>5, <1>6 DEF Begins

(* So do the sections a thread goes on with.                               *)
LEMMA ThreadType ==
    ASSUME TypeOK, NEW t \in Threads, Thread(t)
    PROVE  TypeOK'
<1> USE DEF map, queue, heard, args, rest, locals
<1>0. /\ {"idle", "check", "loop", "sweep", "removing_next", "panicked", "dequeue",
          "mark_all"} \subseteq PCs
      /\ "main" \in Threads /\ "listener" \in Threads
  BY Values DEF PCs
<1>1. CASE Assigning(t)
  BY <1>1, AssigningType
<1>2. CASE Find(t)
  <2>1. todo' \in [Threads -> SUBSET Item] /\ gone' \in [Threads -> SUBSET Ids]
        /\ marks' \in [Threads -> BOOLEAN]
    BY <1>2, ItemsType DEF Find, TypeOK
  <2>2. pc' \in [Threads -> PCs]
    BY <1>0, <1>2, ResumeType DEF Find, Goto, TypeOK
  <2> QED  BY <1>2, <2>1, <2>2 DEF Find, TypeOK
<1>3. CASE InsertPressed
  <2>1. /\ assigned_to' \in [Pressed -> Ids \cup {Unassigned, Absent}]
        /\ timestamp' \in [Pressed -> 0..MaxTime]
    BY <1>0, <1>3, InsertType DEF InsertPressed, TypeOK
  <2> QED  BY <1>0, <1>3, <2>1 DEF InsertPressed, Goto, TypeOK
<1>4. CASE CompleteServed
  <2>1. /\ assigned_to' \in [Pressed -> Ids \cup {Unassigned, Absent}]
        /\ timestamp' \in [Pressed -> 0..MaxTime]
    BY <1>0, <1>4, InsertType, Values DEF CompleteServed, Forget, TypeOK
  <2> QED  BY <1>0, <1>4, <2>1, ProceedType DEF CompleteServed, TypeOK
<1>5. CASE CompleteNext
  <2>1. /\ assigned_to' \in [Pressed -> Ids \cup {Unassigned, Absent}]
        /\ timestamp' \in [Pressed -> 0..MaxTime]
    BY <1>0, <1>5, InsertType, Values DEF CompleteNext, Forget, TypeOK
  <2> QED  BY <1>0, <1>5, <2>1 DEF CompleteNext, Goto, TypeOK
<1>6. CASE RemoveNext
  <2>1. call_buttons' \in Seq(Pressed) /\ lamps' \subseteq Pressed
    BY <1>6, RemovedType DEF RemoveNext, TypeOK
  <2>2. Proceed("main", "idle") \/ Proceed("main", "panicked")
    BY <1>6 DEF RemoveNext
  <2>3. /\ pc' \in [Threads -> PCs] /\ best' \in [Threads -> Ids]
        /\ call' \in [Threads -> Pressed] /\ time' \in [Threads -> 0..MaxTime]
    BY <1>0, <2>2, ProceedType
  <2> QED  BY <1>6, <2>1, <2>3 DEF RemoveNext, TypeOK
<1>7. CASE UpdateEntry
  <2> DEFINE c == call["listener"]  ts == time["listener"]
  <2>1. c \in Pressed /\ ts \in 0..MaxTime
    BY <1>0 DEF TypeOK
  <2>2. \/ Insert(c, Unassigned, ts) /\ Proceed("listener", "check")
        \/ UNCHANGED map /\ Proceed("listener", "idle")
    BY <1>7 DEF UpdateEntry
  <2> HIDE DEF c, ts
  <2>3. /\ assigned_to' \in [Pressed -> Ids \cup {Unassigned, Absent}]
        /\ timestamp' \in [Pressed -> 0..MaxTime]
    BY <2>1, <2>2, InsertType DEF TypeOK
  <2>4. /\ pc' \in [Threads -> PCs] /\ best' \in [Threads -> Ids]
        /\ call' \in [Threads -> Pressed] /\ time' \in [Threads -> 0..MaxTime]
    BY <1>0, <2>2, ProceedType
  <2> QED  BY <1>7, <2>3, <2>4 DEF UpdateEntry, TypeOK
<1>8. CASE Snapshot
  <2> DEFINE items == Items(Ids \cup {Unassigned})
  <2>1. items \in SUBSET Item /\ Resume("listener", items) \in PCs
    BY <1>0, ItemsType, ResumeType
  <2>2. /\ todo' = [todo EXCEPT !["listener"] = items]
        /\ Goto("listener", Resume("listener", items))
    BY <1>8 DEF Snapshot
  <2> HIDE DEF items
  <2>3. todo' \in [Threads -> SUBSET Item] /\ pc' \in [Threads -> PCs]
    BY <2>1, <2>2 DEF Goto, TypeOK
  <2> QED  BY <1>8, <2>3 DEF Snapshot, TypeOK
<1>9. CASE Darken
  <2>1. /\ pc' \in [Threads -> PCs] /\ best' \in [Threads -> Ids]
        /\ call' \in [Threads -> Pressed] /\ time' \in [Threads -> 0..MaxTime]
    BY <1>0, <1>9, ProceedType DEF Darken
  <2> QED  BY <1>9, <2>1 DEF Darken, TypeOK
<1>10. CASE Dequeue
  <2>1. call["listener"] \in Pressed /\ call_buttons \in Seq(Calls)
    BY <1>0, Values, SeqMonotonic DEF TypeOK
  <2>2. call_buttons' \in Seq(Pressed)
    BY <1>10, <2>1, RemovedType, IndexFound, Values
    DEF Dequeue, RemoveCall, RemovePosition, TypeOK
  <2> QED  BY <1>0, <1>10, <2>2, ProceedType DEF Dequeue, TypeOK
<1>11. CASE MarkAll
  <2> DEFINE L == todo["listener"]
  <2>1. L \in SUBSET Item
    BY <1>0 DEF TypeOK
  <2>2. ASSUME NEW c \in Pressed, \E r \in L : r.call = c
        PROVE  (CHOOSE r \in L : r.call = c).timestamp \in 0..MaxTime
    BY <2>1, <2>2 DEF Item
  <2>3. timestamp' = [c \in Pressed |-> IF \E r \in L : r.call = c
                         THEN (CHOOSE r \in L : r.call = c).timestamp ELSE timestamp[c]]
        /\ assigned_to' = [c \in Pressed |-> IF \E r \in L : r.call = c
                         THEN Unassigned ELSE assigned_to[c]]
    BY <1>11 DEF MarkAll
  <2>4. /\ assigned_to' \in [Pressed -> Ids \cup {Unassigned, Absent}]
        /\ timestamp' \in [Pressed -> 0..MaxTime]
    BY <2>2, <2>3 DEF TypeOK
  <2>5. pc' \in [Threads -> PCs]
    BY <1>0, <1>11, ResumeType DEF MarkAll, Goto, TypeOK
  <2> QED  BY <1>11, <2>4, <2>5 DEF MarkAll, TypeOK
<1>12. CASE Sweep
  <2>1. todo' \in [Threads -> SUBSET Item] /\ pc' \in [Threads -> PCs]
    BY <1>0, <1>12, ItemsType DEF Sweep, Goto, TypeOK
  <2> QED  BY <1>12, <2>1 DEF Sweep, TypeOK
<1> QED  BY <1>1, <1>2, <1>3, <1>4, <1>5, <1>6, <1>7, <1>8, <1>9, <1>10, <1>11, <1>12
         DEF Thread, MainSteps, ListenerSteps

(* Every state the threads reach has the types of TypeOK (system.rs,       *)
(* fault_handler.rs: map, queue and locals of the three threads).          *)
THEOREM TypeCorrect == Spec => []TypeOK
<1>1. TypeOK /\ [Next]_vars => TypeOK'
  <2>1. TypeOK /\ UNCHANGED vars => TypeOK'
    BY DEF TypeOK, vars, map, queue, heard, args, rest, locals
  <2> QED  BY <2>1, BeginsType, ThreadType DEF Next
<1> QED  BY InitType, <1>1, PTL DEF Spec

-----------------------------------------------------------------------------
(* Who assigns the unassigned.                                             *)

(* Only thread t has moved.                                                *)
Apart(t) == \A s \in Threads \ {t} :
                pc'[s] = pc[s] /\ call'[s] = call[s] /\ todo'[s] = todo[s]

(* Whatever t had promised for c it has done, or still promises.           *)
Faithful(t, c) ==
    assigned_to'[c] = Unassigned =>
        Committed(t, c)' \/ (assigned_to[c] = Unassigned /\ ~ Committed(t, c))

LEMMA AssigningFaithful ==
    ASSUME TypeOK, NEW t \in Threads, Assigning(t), NEW c \in Pressed
    PROVE  Apart(t) /\ Faithful(t, c)
<1> USE DEF map, queue, heard, args, rest, locals, At, Apart, Faithful, Committed
<1>0. Resume(t, todo[t]) = "loop" \/ (todo[t] = {} /\ Resume(t, todo[t]) \in {"sweep", "idle"})
  BY DEF Resume
<1>1. CASE Check(t)
  <2>1. CASE assigned_to[call[t]] \in Ids /\ timestamp[call[t]] = time[t]
    BY <1>0, <1>1, <2>1, Values DEF Check, Proceed, Goto, TypeOK
  <2>2. CASE ~ (assigned_to[call[t]] \in Ids /\ timestamp[call[t]] = time[t])
    BY <1>1, <2>2 DEF Check, Proceed, Goto, TypeOK
  <2> QED  BY <2>1, <2>2
<1>2. CASE Choose(t)
  BY <1>2 DEF Choose, Goto, TypeOK
<1>3. CASE Write(t)
  <2>1. best[t] # Unassigned /\ call[t] \in Pressed
    BY Values DEF TypeOK
  <2>2. CASE best[t] = Me
    BY <1>3, <2>1, <2>2 DEF Write, Insert, Proceed, Goto, TypeOK
  <2>3. CASE best[t] # Me
    BY <1>0, <1>3, <2>1, <2>3 DEF Write, Insert, Proceed, Goto, TypeOK
  <2> QED  BY <2>2, <2>3
<1>4. CASE Push(t)
  BY <1>0, <1>4 DEF Push, Proceed, Goto, TypeOK
<1>5. CASE Loop(t)
  BY <1>5 DEF Loop, Goto, TypeOK
<1>6. CASE Mark(t)
  BY <1>6 DEF Mark, Insert, Goto, TypeOK
<1> QED  BY <1>1, <1>2, <1>3, <1>4, <1>5, <1>6 DEF Assigning

LEMMA BeginsFaithful ==
    ASSUME TypeOK, Begins, NEW c \in Pressed
    PROVE  \E t \in Threads : Apart(t) /\ Faithful(t, c)
<1> USE DEF map, queue, heard, args, rest, locals, Apart, Faithful, Committed, Begin, Goto
<1>0. "main" \in Threads /\ "listener" \in Threads /\ "monitor" \in Threads
  BY Values
<1>1. ASSUME NEW d \in Pressed, NEW ts \in 0..MaxTime, Press(d, ts)
      PROVE  Apart("main") /\ Faithful("main", c)
  BY <1>0, <1>1 DEF Press, TypeOK
<1>2. ASSUME NEW d \in Pressed, NEW ts \in 0..MaxTime, HallMessage(d, ts)
      PROVE  Apart("listener") /\ Faithful("listener", c)
  BY <1>0, <1>2 DEF HallMessage, TypeOK
<1>3. ASSUME NEW d \in Pressed, CompletedMessage(d)
      PROVE  Apart("listener") /\ Faithful("listener", c)
  BY <1>0, <1>3, Values DEF CompletedMessage, Forget, Insert, TypeOK
<1>4. ASSUME NEW i \in DOMAIN call_buttons, Serve(i) \/ ServeNext(i)
      PROVE  Apart("main") /\ Faithful("main", c)
  BY <1>0, <1>4 DEF Serve, ServeNext, TypeOK
<1>5. CASE StopButton \/ Obstruction
  <2>1. /\ pc["main"] = "idle" /\ UNCHANGED <<map, call>>
        /\ pc' = [pc EXCEPT !["main"] = Resume("main", Items({Me}))]
        /\ todo' = [todo EXCEPT !["main"] = Items({Me})]
    BY <1>5 DEF StopButton, Obstruction
  <2>2. Apart("main") /\ Faithful("main", c)
    BY <1>0, <2>1 DEF TypeOK
  <2> QED  BY <1>0, <2>2
<1>6. ASSUME NEW id \in Peers, StateMessage(id)
      PROVE  Apart("listener") /\ Faithful("listener", c)
  BY <1>0, <1>6 DEF StateMessage, TypeOK
<1>7. ASSUME NEW ids \in SUBSET Ids, Timeout(ids)
      PROVE  Apart("listener") /\ Faithful("listener", c)
  BY <1>0, <1>7 DEF Timeout, TypeOK
<1>8. ASSUME NEW ids \in SUBSET Ids, Expiry(ids)
      PROVE  Apart("monitor") /\ Faithful("monitor", c)
  BY <1>0, <1>8 DEF Expiry, TypeOK
<1> QED  BY <1>0, <1>1, <1>2, <1>3, <1>4, <1>5, <1>6, <1>7, <1>8 DEF Begins

LEMMA ThreadFaithful ==
    ASSUME TypeOK, NEW t \in Threads, Thread(t), NEW c \in Pressed
    PROVE  \E s \in Threads : Apart(s) /\ Faithful(s, c)
<1> USE DEF map, queue, heard, args, rest, locals, At, Apart, Faithful, Committed
<1>0. "main" \in Threads /\ "listener" \in Threads
  BY Values
<1>1. CASE Assigning(t)
  BY <1>1, AssigningFaithful
<1>2. CASE Find(t)
  <2> DEFINE items == Items(gone[t])
  <2>1. /\ pc[t] = "find" /\ UNCHANGED <<map, call>>
        /\ todo' = [todo EXCEPT ![t] = items]
        /\ \E l : pc' = [pc EXCEPT ![t] = l]
    BY <1>2 DEF Find, Goto
  <2> HIDE DEF items
  <2>2. Apart(t) /\ Faithful(t, c)
    BY <2>1 DEF TypeOK
  <2> QED  BY <2>2
<1>3. CASE InsertPressed
  <2>1. Apart("main") /\ Faithful("main", c)
    BY <1>0, <1>3 DEF InsertPressed, Insert, Goto, TypeOK
  <2> QED  BY <1>0, <2>1
<1>4. CASE CompleteServed \/ CompleteNext
  <2>1. Apart("main") /\ Faithful("main", c)
    BY <1>0, <1>4, Values DEF CompleteServed, CompleteNext, Forget, Insert, Proceed, Goto, TypeOK
  <2> QED  BY <1>0, <2>1
<1>5. CASE RemoveNext
  <2>1. /\ pc["main"] = "removing_next" /\ UNCHANGED <<map, todo>>
        /\ Proceed("main", "idle") \/ Proceed("main", "panicked")
    BY <1>5 DEF RemoveNext
  <2>2. Apart("main") /\ Faithful("main", c)
    BY <1>0, <2>1 DEF Proceed, Goto, TypeOK
  <2> QED  BY <1>0, <2>2
<1>6. CASE UpdateEntry
  <2> DEFINE d == call["listener"]  ts == time["listener"]
  <2>1. /\ pc["listener"] = "update" /\ UNCHANGED todo
        /\ \/ Insert(d, Unassigned, ts) /\ Proceed("listener", "check")
           \/ UNCHANGED map /\ Proceed("listener", "idle")
    BY <1>6 DEF UpdateEntry
  <2>2. Apart("listener")
    BY <1>0, <2>1 DEF Proceed, Goto, TypeOK
  <2>3. Faithful("listener", c)
    BY <1>0, <2>1 DEF Insert, Proceed, Goto, TypeOK
  <2> QED  BY <1>0, <2>2, <2>3
<1>7. CASE Snapshot
  <2> DEFINE items == Items(Ids \cup {Unassigned})
  <2>1. /\ pc["listener"] = "snapshot" /\ UNCHANGED <<map, call>>
        /\ todo' = [todo EXCEPT !["listener"] = items]
        /\ \E l : pc' = [pc EXCEPT !["listener"] = l]
    BY <1>7 DEF Snapshot, Goto
  <2> HIDE DEF items
  <2>2. Apart("listener") /\ Faithful("listener", c)
    BY <1>0, <2>1 DEF TypeOK
  <2> QED  BY <1>0, <2>2
<1>8. CASE Darken \/ Dequeue
  <2>1. /\ pc["listener"] \in {"darken", "dequeue"} /\ UNCHANGED <<map, todo>>
        /\ Proceed("listener", "idle") \/ Proceed("listener", "dequeue")
    BY <1>8 DEF Darken, Dequeue
  <2>2. Apart("listener") /\ Faithful("listener", c)
    BY <1>0, <2>1 DEF Proceed, Goto, TypeOK
  <2> QED  BY <1>0, <2>2
<1>9. CASE MarkAll
  <2> DEFINE L == todo["listener"]
  <2>1. /\ pc["listener"] = "mark_all" /\ UNCHANGED locals
        /\ assigned_to' = [d \in Pressed |-> IF \E r \in L : r.call = d
                                            THEN Unassigned ELSE assigned_to[d]]
        /\ pc' = [pc EXCEPT !["listener"] = Resume("listener", L)]
    BY <1>9 DEF MarkAll, Goto
  <2>2. L # {} => Resume("listener", L) = "loop"
    BY DEF Resume
  <2>3. Apart("listener")
    BY <1>0, <2>1 DEF TypeOK
  <2>4. CASE \E r \in L : r.call = c
    <3>1. Committed("listener", c)'
      BY <1>0, <2>1, <2>2, <2>4 DEF TypeOK
    <3> QED  BY <1>0, <2>3, <3>1
  <2>5. CASE ~ \E r \in L : r.call = c
    <3>1. ~ Committed("listener", c) /\ assigned_to'[c] = assigned_to[c]
      BY <2>1, <2>5
    <3> QED  BY <1>0, <2>3, <3>1
  <2> QED  BY <2>4, <2>5
<1>10. CASE Sweep
  <2> DEFINE items == Items({Unassigned})
  <2>1. /\ pc["listener"] = "sweep" /\ UNCHANGED <<map, call>>
        /\ todo' = [todo EXCEPT !["listener"] = items]
        /\ \E l : pc' = [pc EXCEPT !["listener"] = l]
    BY <1>10 DEF Sweep, Goto
  <2>2. items = {} \/ pc'["listener"] = "loop"
    BY <1>0, <1>10 DEF Sweep, Goto, TypeOK
  <2> HIDE DEF items
  <2>3. Apart("listener") /\ Faithful("listener", c)
    BY <1>0, <2>1, <2>2 DEF TypeOK
  <2> QED  BY <1>0, <2>3
<1> QED  BY <1>1, <1>2, <1>3, <1>4, <1>5, <1>6, <1>7, <1>8, <1>9, <1>10
         DEF Thread, MainSteps, ListenerSteps

(* An unassigned call is one some thread is about to assign, whatever the  *)
(* three threads do between each other's lock sections: the sweep of       *)
(* check_unassigned_hall_calls (system.rs:273) has nothing to find.        *)
THEOREM NoneForgotten == Spec => []Attended
<1>1. Init => Attended
  BY Values DEF Init, Attended
<1>2. TypeOK /\ Attended /\ [Next]_vars => Attended'
  <2> SUFFICES ASSUME TypeOK, Attended, [Next]_vars, NEW c \in Pressed,
                      assigned_to'[c] = Unassigned
               PROVE  \E t \in Threads : Committed(t, c)'
    BY DEF Attended
  <2>1. CASE UNCHANGED vars
    BY <2>1 DEF Attended, Committed, vars, map, locals, args, rest
  <2>2. CASE Next
    <3>1. PICK t \in Threads : Apart(t) /\ Faithful(t, c)
      BY <2>2, BeginsFaithful, ThreadFaithful DEF Next
    <3>2. CASE Committed(t, c)'
      BY <3>2
    <3>3. CASE assigned_to[c] = Unassigned /\ ~ Committed(t, c)
      <4>1. PICK s \in Threads : Committed(s, c)
        BY <3>3 DEF Attended
      <4>2. s \in Threads \ {t}
        BY <3>3, <4>1
      <4>3. Committed(s, c)'
        BY <3>1, <4>1, <4>2 DEF Apart, Committed
      <4> QED  BY <4>3
    <3> QED  BY <3>1, <3>2, <3>3 DEF Faithful
  <2> QED  BY <2>1, <2>2
<1> QED  BY TypeCorrect, <1>1, <1>2, PTL DEF Spec

-----------------------------------------------------------------------------
(* The map, the queue and the lamps.                                       *)

(* Before the first operation of a kind no thread is inside one.           *)
Undisturbed ==
    /\ used["serve_next"] = 0 => pc["main"] \notin {"completing_next", "removing_next"}
    /\ used["completed_msg"] = 0 => pc["listener"] \notin {"darken", "dequeue"}

LEMMA UndisturbedStep == TypeOK /\ Undisturbed /\ [Next]_vars => Undisturbed'
<1> SUFFICES ASSUME TypeOK, Undisturbed, [Next]_vars PROVE Undisturbed'
  OBVIOUS
<1> USE DEF map, queue, heard, args, rest, locals, Undisturbed
<1>0. /\ "main" \in Threads /\ "listener" \in Threads
      /\ "serve_next" \in Operations /\ "completed_msg" \in Operations
      /\ pc \in [Threads -> PCs] /\ used \in [Operations -> Nat]
  BY Values DEF Operations, TypeOK
<1>1. CASE UNCHANGED vars
  BY <1>1 DEF vars
<1>3. ASSUME NEW t \in Threads, Assigning(t) PROVE Undisturbed'
  <2>1. UNCHANGED used
    BY <1>3 DEF Assigning, Check, Choose, Write, Push, Loop, Mark
  <2>2. \E m \in {"mark", "check", "choose", "write", "push", "loop", "sweep", "idle"} :
            pc' = [pc EXCEPT ![t] = m]
    BY <1>3, ResumeType DEF Assigning, Check, Choose, Write, Push, Loop, Mark, Proceed, Goto
  <2> QED  BY <1>0, <2>1, <2>2
<1>4. ASSUME NEW t \in Threads, Find(t) PROVE Undisturbed'
  <2>1. \E m \in {"loop", "sweep", "idle", "mark_all"} : pc' = [pc EXCEPT ![t] = m]
    BY <1>4, ResumeType DEF Find, Goto
  <2> QED  BY <1>0, <1>4, <2>1 DEF Find
<1>5. CASE MainSteps /\ ~ Assigning("main")
  BY <1>0, <1>5 DEF MainSteps, InsertPressed, CompleteServed, CompleteNext, RemoveNext,
                    At, Proceed, Goto
<1>6. CASE UpdateEntry \/ Darken \/ Dequeue
  BY <1>0, <1>6 DEF UpdateEntry, Darken, Dequeue, At, Proceed, Goto
<1>7. CASE Snapshot \/ MarkAll \/ Sweep
  <2>1. \E m \in {"loop", "sweep", "idle"} : pc' = [pc EXCEPT !["listener"] = m]
    BY <1>7, ResumeType DEF Snapshot, MarkAll, Sweep, Goto
  <2> QED  BY <1>0, <1>7, <2>1 DEF Snapshot, MarkAll, Sweep
<1>8. CASE Begins
  <2>1. ASSUME NEW t \in Threads, NEW k \in Operations, NEW l, Begin(t, k, l),
               l \in {"completing_next", "removing_next"} => k = "serve_next",
               l \in {"darken", "dequeue"} => k = "completed_msg"
        PROVE  Undisturbed'
    BY <1>0, <2>1 DEF Begin, Goto
  <2>2. \E t \in Threads, k \in Operations : \E l :
            /\ Begin(t, k, l)
            /\ l \in {"completing_next", "removing_next"} => k = "serve_next"
            /\ l \in {"darken", "dequeue"} => k = "completed_msg"
    BY <1>8, ResumeType, Values
    DEF Begins, Press, HallMessage, CompletedMessage, Serve, ServeNext, StopButton,
        Obstruction, StateMessage, Timeout, Expiry, Operations
  <2> QED  BY <2>1, <2>2
<1> QED  BY <1>1, <1>3, <1>4, <1>5, <1>6, <1>7, <1>8
         DEF Next, Thread, MainSteps, ListenerSteps

(* Pushing keeps the queue and adds one call; both without doubles.        *)
LEMMA PushedQueue ==
    ASSUME NEW q \in Seq(Pressed), NEW c \in Pressed
    PROVE  /\ \A d \in Pressed : Contains(Enqueue(q, c), d) <=> d = c \/ Contains(q, d)
           /\ Distinct(q) => Distinct(Enqueue(q, c))
           /\ \A j \in DOMAIN q : j \in DOMAIN Enqueue(q, c) /\ Enqueue(q, c)[j] = q[j]
<1>1. q \in Seq(Calls) /\ c \in Calls /\ Pressed \subseteq Calls
  BY Values, SeqMonotonic
<1>2. \A j \in DOMAIN q : j \in DOMAIN Enqueue(q, c) /\ Enqueue(q, c)[j] = q[j]
  BY <1>1, AppendProperties, LenProperties DEF Enqueue
<1> QED  BY <1>1, <1>2, EnqueueProperties

(* Vec::remove takes no call but the one at the position.                  *)
LEMMA RemovedQueue ==
    ASSUME NEW q \in Seq(Pressed), NEW i \in DOMAIN q
    PROVE  /\ \A d \in Pressed : Contains(q, d) /\ d # q[i] => Contains(RemoveAt(q, i), d)
           /\ \A d \in Pressed : Contains(RemoveAt(q, i), d) => Contains(q, d)
           /\ Distinct(q) => Distinct(RemoveAt(q, i)) /\ ~ Contains(RemoveAt(q, i), q[i])
<1> DEFINE r == RemoveAt(q, i)
<1>1. q \in Seq(Calls) /\ Pressed \subseteq Calls
  BY Values, SeqMonotonic
<1>2. /\ Len(q) \in Nat /\ i \in 1..Len(q) /\ Len(r) = Len(q) - 1 /\ DOMAIN q = 1..Len(q)
      /\ \A j \in 1..(Len(q) - 1) : r[j] = IF j < i THEN q[j] ELSE q[j + 1]
  BY <1>1, RemoveAtProperties, LenProperties
<1>3. Within(r, q)
  BY <1>1, RemoveAtWithin
<1> HIDE DEF r
<1>4. ASSUME NEW d \in Pressed, Contains(q, d), d # q[i] PROVE Contains(r, d)
  <2>1. PICK j \in 1..Len(q) : q[j] = d
    BY <1>4 DEF Contains
  <2>2. CASE j < i
    <3>1. j \in 1..Len(r) /\ r[j] = d
      BY <1>2, <2>1, <2>2
    <3> QED  BY <3>1 DEF Contains
  <2>3. CASE j > i
    <3>1. j - 1 \in 1..Len(r) /\ r[j - 1] = d
      BY <1>2, <2>1, <2>3
    <3> QED  BY <3>1 DEF Contains
  <2> QED  BY <1>2, <1>4, <2>1, <2>2, <2>3
<1>5. ASSUME Distinct(q), Contains(r, q[i]) PROVE FALSE
  <2>1. PICK j \in 1..Len(r) : r[j] = q[i]
    BY <1>5 DEF Contains
  <2>2. CASE j < i
    BY <1>2, <1>5, <2>1, <2>2 DEF Distinct
  <2>3. CASE ~ (j < i)
    BY <1>2, <1>5, <2>1, <2>3 DEF Distinct
  <2> QED  BY <2>2, <2>3
<1> QED  BY <1>1, <1>3, <1>4, <1>5 DEF Within, r

(* Why a call owned by this elevator is not lost.                          *)
Held(c) ==
    \/ Contains(call_buttons, c)
    \/ \E t \in Threads : pc[t] = "push" /\ call[t] = c
    \/ pc["main"] = "completing" /\ call["main"] = c

LEMMA HeldAssigning ==
    ASSUME TypeOK, NEW t \in Threads, Assigning(t), NEW c \in Pressed,
           assigned_to[c] = Me => Held(c)
    PROVE  assigned_to'[c] = Me => Held(c)'
<1> USE DEF map, queue, heard, args, rest, locals, At, Held
<1>1. CASE Check(t) \/ Choose(t) \/ Loop(t)
  <2>1. /\ UNCHANGED <<assigned_to, call_buttons>> /\ pc[t] \notin {"push", "completing"}
        /\ \A s \in Threads \ {t} : pc'[s] = pc[s] /\ call'[s] = call[s]
    BY <1>1 DEF Check, Choose, Loop, Proceed, Goto, TypeOK
  <2> QED  BY <2>1, Values
<1>2. CASE Write(t)
  <2>1. /\ call_buttons' = call_buttons /\ pc[t] \notin {"push", "completing"}
        /\ \A s \in Threads \ {t} : pc'[s] = pc[s] /\ call'[s] = call[s]
        /\ assigned_to' = [assigned_to EXCEPT ![call[t]] = best[t]]
        /\ best[t] = Me => pc'[t] = "push" /\ call'[t] = call[t]
    BY <1>2 DEF Write, Insert, Proceed, Goto, TypeOK
  <2>2. CASE call[t] = c
    BY <2>1, <2>2 DEF TypeOK
  <2>3. CASE call[t] # c
    BY <2>1, <2>3, Values DEF TypeOK
  <2> QED  BY <2>2, <2>3
<1>3. CASE Push(t)
  <2>1. /\ assigned_to' = assigned_to /\ call_buttons' = Enqueue(call_buttons, call[t])
        /\ pc[t] = "push" /\ \A s \in Threads \ {t} : pc'[s] = pc[s] /\ call'[s] = call[s]
    BY <1>3 DEF Push, Proceed, Goto, TypeOK
  <2>2. Contains(call_buttons', c) <=> c = call[t] \/ Contains(call_buttons, c)
    BY <2>1, PushedQueue DEF TypeOK
  <2> QED  BY <2>1, <2>2, Values
<1>4. CASE Mark(t)
  <2>1. /\ call_buttons' = call_buttons /\ pc[t] \notin {"push", "completing"}
        /\ \A s \in Threads \ {t} : pc'[s] = pc[s] /\ call'[s] = call[s]
        /\ assigned_to' = [assigned_to EXCEPT ![call[t]] = Unassigned]
    BY <1>4 DEF Mark, Insert, Goto, TypeOK
  <2> QED  BY <2>1, Values DEF TypeOK
<1> QED  BY <1>1, <1>2, <1>3, <1>4 DEF Assigning

(* The sections after the first of an operation count nothing.             *)
LEMMA ThreadUses == ASSUME NEW t, Thread(t) PROVE UNCHANGED used
<1>1. CASE Assigning(t) \/ Find(t)
  BY <1>1 DEF Assigning, Check, Choose, Write, Push, Loop, Mark, Find
<1>2. CASE MainSteps /\ ~ Assigning("main")
  BY <1>2 DEF MainSteps, InsertPressed, CompleteServed, CompleteNext, RemoveNext
<1>3. CASE ListenerSteps /\ ~ Assigning("listener")
  BY <1>3 DEF ListenerSteps, UpdateEntry, Snapshot, Darken, Dequeue, MarkAll, Sweep
<1> QED  BY <1>1, <1>2, <1>3 DEF Thread, MainSteps, ListenerSteps

LEMMA BeginsUses ==
    ASSUME TypeOK, Begins
    PROVE  \A k \in Operations : used[k] =< used'[k]
<1>1. \E t \in Threads, k \in Operations : \E l : Begin(t, k, l)
  <2>1. "main" \in Threads /\ "listener" \in Threads /\ "monitor" \in Threads
    BY Values
  <2> QED  BY <2>1
           DEF Begins, Press, HallMessage, CompletedMessage, Serve, ServeNext, StopButton,
               Obstruction, StateMessage, Timeout, Expiry, Operations
<1>2. PICK k \in Operations : used' = [used EXCEPT ![k] = @ + 1]
  BY <1>1 DEF Begin
<1> QED  BY <1>2 DEF TypeOK

LEMMA HeldStep ==
    ASSUME TypeOK, Undisturbed, Next,
           used'["stop"] = 0, used'["completed_msg"] = 0, used'["serve_next"] = 0,
           NEW c \in Pressed, assigned_to[c] = Me => Held(c)
    PROVE  assigned_to'[c] = Me => Held(c)'
<1> USE DEF map, queue, heard, args, rest, locals, At, Held
<1>0. /\ "main" \in Threads /\ "listener" \in Threads /\ "monitor" \in Threads
      /\ {"stop", "completed_msg", "serve_next"} \subseteq Operations
      /\ Absent # Me /\ Unassigned # Me
  BY Values DEF Operations
<1>1. ASSUME NEW t \in Threads, Assigning(t) PROVE assigned_to'[c] = Me => Held(c)'
  BY <1>1, HeldAssigning
<1>2. used["stop"] = 0 /\ used["completed_msg"] = 0 /\ used["serve_next"] = 0
  <2>1. used \in [Operations -> Nat]
    BY DEF TypeOK
  <2> QED  BY <1>0, <2>1, ThreadUses, BeginsUses DEF Next
<1>3. /\ pc["main"] \notin {"completing_next", "removing_next"}
      /\ pc["listener"] \notin {"darken", "dequeue"}
  BY <1>2 DEF Undisturbed
(* A section of thread s that leaves the queue alone, away from push and   *)
(* completing, and gives no call to this elevator.                         *)
<1>4. ASSUME NEW s \in Threads, pc[s] \notin {"push", "completing"},
             UNCHANGED call_buttons, Apart(s),
             assigned_to'[c] = Me => assigned_to[c] = Me
      PROVE  assigned_to'[c] = Me => Held(c)'
  BY <1>0, <1>4 DEF Apart
<1>5. ASSUME NEW t \in Threads, Find(t) PROVE assigned_to'[c] = Me => Held(c)'
  <2>1. /\ pc[t] = "find" /\ UNCHANGED <<map, call, call_buttons>>
        /\ \E x, l : todo' = [todo EXCEPT ![t] = x] /\ pc' = [pc EXCEPT ![t] = l]
    BY <1>5 DEF Find, Goto
  <2>2. Apart(t)
    BY <2>1 DEF Apart, TypeOK
  <2> QED  BY <1>4, <2>1, <2>2
<1>6. CASE InsertPressed
  <2>1. Apart("main") /\ assigned_to' = [assigned_to EXCEPT ![call["main"]] = Unassigned]
    BY <1>0, <1>6 DEF InsertPressed, Insert, Goto, Apart, TypeOK
  <2>2. pc["main"] = "insert" /\ UNCHANGED call_buttons
    BY <1>6 DEF InsertPressed
  <2> QED  BY <1>0, <1>4, <2>1, <2>2 DEF TypeOK
<1>7. CASE CompleteServed
  <2>1. /\ pc["main"] = "completing" /\ call_buttons' = call_buttons
        /\ \A s \in Threads \ {"main"} : pc'[s] = pc[s] /\ call'[s] = call[s]
        /\ assigned_to' = [assigned_to EXCEPT ![call["main"]] = Absent]
    BY <1>0, <1>7 DEF CompleteServed, Forget, Insert, Proceed, Goto, TypeOK
  <2> QED  BY <1>0, <2>1 DEF TypeOK
<1>8. CASE UpdateEntry
  <2> DEFINE d == call["listener"]  ts == time["listener"]
  <2>1. /\ pc["listener"] = "update" /\ UNCHANGED <<call_buttons, todo>>
        /\ \/ Insert(d, Unassigned, ts) /\ Proceed("listener", "check")
           \/ UNCHANGED map /\ Proceed("listener", "idle")
    BY <1>8 DEF UpdateEntry
  <2>2. Apart("listener")
    BY <1>0, <2>1 DEF Proceed, Goto, Apart, TypeOK
  <2>3. assigned_to'[c] = Me => assigned_to[c] = Me
    BY <1>0, <2>1 DEF Insert, TypeOK
  <2> QED  BY <1>0, <1>4, <2>1, <2>2, <2>3
<1>9. CASE Snapshot \/ Sweep
  <2>1. /\ pc["listener"] \in {"snapshot", "sweep"} /\ UNCHANGED <<map, call, call_buttons>>
        /\ \E x, l : todo' = [todo EXCEPT !["listener"] = x]
                   /\ pc' = [pc EXCEPT !["listener"] = l]
    BY <1>9 DEF Snapshot, Sweep, Goto
  <2>2. Apart("listener")
    BY <1>0, <2>1 DEF Apart, TypeOK
  <2> QED  BY <1>0, <1>4, <2>1, <2>2
<1>10. CASE MarkAll
  <2>1. /\ pc["listener"] = "mark_all" /\ UNCHANGED <<call, todo, call_buttons>>
        /\ assigned_to'[c] \in {Unassigned, assigned_to[c]}
        /\ \E l : pc' = [pc EXCEPT !["listener"] = l]
    BY <1>10 DEF MarkAll, Goto
  <2>2. Apart("listener")
    BY <1>0, <2>1 DEF Apart, TypeOK
  <2> QED  BY <1>0, <1>4, <2>1, <2>2
<1>11. ASSUME NEW i \in DOMAIN call_buttons, Serve(i) PROVE assigned_to'[c] = Me => Held(c)'
  <2>1. /\ pc["main"] = "idle" /\ pc'["main"] = "completing" /\ UNCHANGED map
        /\ call'["main"] = call_buttons[i] /\ call_buttons' = RemoveAt(call_buttons, i)
        /\ \A s \in Threads \ {"main"} : pc'[s] = pc[s] /\ call'[s] = call[s]
    BY <1>0, <1>11 DEF Serve, Begin, Goto, TypeOK
  <2>2. Contains(call_buttons, c) /\ c # call_buttons[i] => Contains(call_buttons', c)
    BY <2>1, RemovedQueue DEF TypeOK
  <2> QED  BY <1>0, <2>1, <2>2
<1>12. ASSUME Begins, ~ \E i \in DOMAIN call_buttons : Serve(i)
       PROVE  assigned_to'[c] = Me => Held(c)'
  <2>1. ASSUME NEW s \in Threads, pc[s] = "idle", UNCHANGED call_buttons,
               \E l : pc' = [pc EXCEPT ![s] = l],
               UNCHANGED call \/ \E d : call' = [call EXCEPT ![s] = d],
               assigned_to'[c] = Me => assigned_to[c] = Me
        PROVE  assigned_to'[c] = Me => Held(c)'
    BY <1>0, <2>1 DEF TypeOK
  <2>2. ~ StopButton /\ \A i \in DOMAIN call_buttons : ~ ServeNext(i)
    BY <1>0, <1>2 DEF StopButton, ServeNext, Begin, TypeOK
  <2>3. \A d \in Pressed : ~ CompletedMessage(d)
    BY <1>0, <1>2 DEF CompletedMessage, Begin, TypeOK
  <2>4. ASSUME NEW d \in Pressed, NEW ts \in 0..MaxTime, Press(d, ts) \/ HallMessage(d, ts)
        PROVE  assigned_to'[c] = Me => Held(c)'
    <3>1. CASE Press(d, ts)
      BY <1>0, <2>1, <3>1 DEF Press, Begin, Goto
    <3>2. CASE HallMessage(d, ts)
      BY <1>0, <2>1, <3>2 DEF HallMessage, Begin, Goto
    <3> QED  BY <2>4, <3>1, <3>2
  <2>5. CASE Obstruction
    BY <1>0, <2>1, <2>5 DEF Obstruction, Begin, Goto
  <2>6. ASSUME NEW id \in Peers, StateMessage(id) PROVE assigned_to'[c] = Me => Held(c)'
    BY <1>0, <2>1, <2>6 DEF StateMessage, Begin, Goto
  <2>7. ASSUME NEW ids \in SUBSET Ids, Timeout(ids) \/ Expiry(ids)
        PROVE  assigned_to'[c] = Me => Held(c)'
    <3>1. CASE Timeout(ids)
      BY <1>0, <2>1, <3>1 DEF Timeout, Begin, Goto
    <3>2. CASE Expiry(ids)
      BY <1>0, <2>1, <3>2 DEF Expiry, Begin, Goto
    <3> QED  BY <2>7, <3>1, <3>2
  <2> QED  BY <1>12, <2>2, <2>3, <2>4, <2>5, <2>6, <2>7 DEF Begins
<1>13. ~ CompleteNext /\ ~ RemoveNext /\ ~ Darken /\ ~ Dequeue
  BY <1>3 DEF CompleteNext, RemoveNext, Darken, Dequeue
<1> QED  BY <1>0, <1>1, <1>5, <1>6, <1>7, <1>8, <1>9, <1>10, <1>11, <1>12, <1>13
         DEF Next, Thread, MainSteps, ListenerSteps

(* A call this elevator owns is in its queue, or being put there, or just  *)
(* served, unless a stop, a completion reported by a peer or a second call *)
(* at one floor has emptied the queue (system.rs:470-485, control.rs:103). *)
THEOREM OwnedCallsHeld == Spec => []OwnedIsQueued
<1> DEFINE Inv == Undisturbed /\ OwnedIsQueued
<1>1. Init => Inv
  BY Values DEF Init, Undisturbed, OwnedIsQueued, Entries, Operations
<1>2. TypeOK /\ TypeOK' /\ Inv /\ [Next]_vars => Inv'
  <2> SUFFICES ASSUME TypeOK, TypeOK', Inv, [Next]_vars PROVE OwnedIsQueued'
    BY UndisturbedStep
  <2>1. CASE UNCHANGED vars
    BY <2>1 DEF OwnedIsQueued, Entries, vars, map, queue, locals, args
  <2>2. CASE Next
    <3> SUFFICES ASSUME used'["stop"] + used'["completed_msg"] + used'["serve_next"] = 0,
                        NEW c \in Pressed, assigned_to'[c] = Me
                 PROVE  Held(c)'
      BY DEF OwnedIsQueued, Entries, Held
    <3>0. {"stop", "completed_msg", "serve_next"} \subseteq Operations
      BY DEF Operations
    <3>1. used'["stop"] = 0 /\ used'["completed_msg"] = 0 /\ used'["serve_next"] = 0
      BY <3>0 DEF TypeOK
    <3>2. used["stop"] + used["completed_msg"] + used["serve_next"] = 0
      BY <2>2, <3>0, <3>1, ThreadUses, BeginsUses DEF Next, TypeOK
    <3>3. assigned_to[c] = Me => Held(c)
      BY <3>2 DEF OwnedIsQueued, Entries, Held
    <3> QED  BY <2>2, <3>1, <3>3, HeldStep
  <2> QED  BY <2>1, <2>2
<1> QED  BY TypeCorrect, <1>1, <1>2, PTL DEF Spec

(* How a step may change the queue and its lamps while no peer reports a   *)
(* completion: nothing but lamps lit, one call pushed and lit, one served, *)
(* all cleared, or the one at the remembered position removed.             *)
LEMMA QueueSteps ==
    ASSUME TypeOK, Undisturbed, used["completed_msg"] = 0, Next,
           ~ \E c \in Pressed : CompletedMessage(c)
    PROVE  \/ UNCHANGED call_buttons /\ lamps \subseteq lamps'
           \/ \E c \in Pressed : /\ call_buttons' = Enqueue(call_buttons, c)
                                 /\ lamps' = lamps \cup {c}
           \/ \E i \in DOMAIN call_buttons : /\ call_buttons' = RemoveAt(call_buttons, i)
                                             /\ lamps' = lamps \ {call_buttons[i]}
                                             /\ pc["main"] = "idle"
           \/ call_buttons' = <<>> /\ pc["main"] = "idle"
           \/ pc["main"] = "removing_next" /\ RemoveNext
<1> USE DEF map, queue, heard, args, rest, locals, At
<1>1. ASSUME NEW t \in Threads, Push(t)
      PROVE  \E c \in Pressed : /\ call_buttons' = Enqueue(call_buttons, c)
                                /\ lamps' = lamps \cup {c}
  BY <1>1 DEF Push, TypeOK
<1>2. ASSUME NEW t \in Threads, Check(t) \/ Choose(t) \/ Write(t) \/ Loop(t) \/ Mark(t) \/ Find(t)
      PROVE  UNCHANGED <<call_buttons, lamps>>
  BY <1>2 DEF Check, Choose, Write, Loop, Mark, Find
<1>3. CASE InsertPressed \/ CompleteServed \/ CompleteNext
  BY <1>3 DEF InsertPressed, CompleteServed, CompleteNext
<1>4. CASE RemoveNext
  BY <1>4 DEF RemoveNext
<1>5. CASE UpdateEntry \/ Snapshot \/ MarkAll \/ Sweep
  BY <1>5 DEF UpdateEntry, Snapshot, MarkAll, Sweep
<1>6. ~ Darken /\ ~ Dequeue
  BY DEF Undisturbed, Darken, Dequeue
<1>7. ASSUME NEW i \in DOMAIN call_buttons, Serve(i)
      PROVE  /\ call_buttons' = RemoveAt(call_buttons, i) /\ lamps' = lamps \ {call_buttons[i]}
             /\ pc["main"] = "idle"
  BY <1>7 DEF Serve, Begin
<1>8. CASE StopButton
  BY <1>8 DEF StopButton, Begin
<1>9. ASSUME \/ \E c \in Pressed, ts \in 0..MaxTime : Press(c, ts) \/ HallMessage(c, ts)
             \/ \E i \in DOMAIN call_buttons : ServeNext(i)
             \/ Obstruction \/ \E id \in Peers : StateMessage(id)
             \/ \E ids \in SUBSET Ids : Timeout(ids) \/ Expiry(ids)
      PROVE  UNCHANGED call_buttons /\ lamps \subseteq lamps'
  BY <1>9 DEF Press, HallMessage, ServeNext, Obstruction, StateMessage, Timeout, Expiry
<1> QED  BY <1>1, <1>2, <1>3, <1>4, <1>5, <1>6, <1>7, <1>8, <1>9
         DEF Next, Thread, MainSteps, ListenerSteps, Assigning, Begins

LEMMA AssigningApart ==
    ASSUME TypeOK, NEW t \in Threads, Assigning(t)
    PROVE  Apart(t)
<1>1. NoCall \in Pressed
  BY Values
<1> QED  BY <1>1, AssigningFaithful

(* How the main thread comes to hold a position, and what it remembers.    *)
Holding == pc["main"] \in {"completing_next", "removing_next"}

LEMMA HoldingSteps ==
    ASSUME TypeOK, Next, Holding'
    PROVE  \/ \E i \in DOMAIN call_buttons : /\ index' = i /\ call'["main"] = call_buttons[i]
                                             /\ UNCHANGED call_buttons
           \/ Holding /\ index' = index /\ call'["main"] = call["main"] /\ ~ RemoveNext
<1> USE DEF map, queue, heard, args, rest, locals, At, Holding
<1>0. "main" \in Threads /\ "listener" \in Threads /\ "monitor" \in Threads
  BY Values
<1>1. ASSUME NEW t \in Threads, Assigning(t)
      PROVE  Holding /\ index' = index /\ call'["main"] = call["main"]
  <2>1. /\ \E m \in {"mark", "check", "choose", "write", "push", "loop", "sweep", "idle"} :
                pc' = [pc EXCEPT ![t] = m]
        /\ UNCHANGED index
    BY <1>1, ResumeType
    DEF Assigning, Check, Choose, Write, Push, Loop, Mark, Proceed, Goto
  <2>2. t # "main"
    BY <1>0, <2>1 DEF TypeOK
  <2>3. pc'["main"] = pc["main"]
    BY <1>0, <2>1, <2>2 DEF TypeOK
  <2>4. call'["main"] = call["main"]
    BY <1>0, <1>1, <2>2, AssigningApart DEF Apart
  <2> QED  BY <2>1, <2>3, <2>4
<1>2. ASSUME NEW t \in Threads, Find(t)
      PROVE  Holding /\ index' = index /\ call'["main"] = call["main"]
  <2>1. \E m \in {"loop", "sweep", "idle", "mark_all"} : pc' = [pc EXCEPT ![t] = m]
    BY <1>2, ResumeType DEF Find, Goto
  <2> QED  BY <1>0, <1>2, <2>1 DEF Find, TypeOK
<1>3. ~ InsertPressed /\ ~ CompleteServed /\ ~ RemoveNext
  BY <1>0 DEF InsertPressed, CompleteServed, RemoveNext, Proceed, Goto, TypeOK
<1>4. ASSUME CompleteNext
      PROVE  Holding /\ index' = index /\ call'["main"] = call["main"]
  BY <1>0, <1>4 DEF CompleteNext, Goto, TypeOK
<1>5. CASE UpdateEntry \/ Darken \/ Dequeue
  <2>1. /\ UNCHANGED index
        /\ \E l : pc' = [pc EXCEPT !["listener"] = l]
        /\ UNCHANGED call \/ call' = [call EXCEPT !["listener"] = NoCall]
    <3>0. ASSUME NEW l, Proceed("listener", l)
          PROVE  /\ \E m : pc' = [pc EXCEPT !["listener"] = m]
                 /\ UNCHANGED call \/ call' = [call EXCEPT !["listener"] = NoCall]
      BY <3>0 DEF Proceed, Goto
    <3>1. /\ UNCHANGED index
          /\ \/ Proceed("listener", "check") \/ Proceed("listener", "idle")
             \/ Proceed("listener", "dequeue")
      <4>1. CASE UpdateEntry
        BY <4>1 DEF UpdateEntry
      <4>2. CASE Darken
        BY <4>2 DEF Darken
      <4>3. CASE Dequeue
        BY <4>3 DEF Dequeue
      <4> QED  BY <1>5, <4>1, <4>2, <4>3
    <3> QED  BY <3>0, <3>1
  <2> QED  BY <1>0, <1>3, <2>1 DEF TypeOK
<1>6. CASE Snapshot \/ MarkAll \/ Sweep
  <2>1. /\ UNCHANGED <<index, call>>
        /\ \E l : pc' = [pc EXCEPT !["listener"] = l]
    BY <1>6 DEF Snapshot, MarkAll, Sweep, Goto
  <2> QED  BY <1>0, <1>3, <2>1 DEF TypeOK
<1>7. CASE Begins
  <2>1. ASSUME NEW i \in DOMAIN call_buttons, ServeNext(i)
        PROVE  index' = i /\ call'["main"] = call_buttons[i] /\ UNCHANGED call_buttons
    BY <1>0, <2>1 DEF ServeNext, TypeOK
  <2>2. /\ \A c \in Pressed, ts \in 0..MaxTime : ~ Press(c, ts)
        /\ \A i \in DOMAIN call_buttons : ~ Serve(i)
    BY <1>0 DEF Press, Serve, Begin, Goto, TypeOK
  <2>3. ~ StopButton /\ ~ Obstruction
    BY <1>0, ResumeType DEF StopButton, Obstruction, Begin, Goto, TypeOK
  <2>4. ASSUME NEW s \in {"listener", "monitor"}, \E l : pc' = [pc EXCEPT ![s] = l],
               UNCHANGED index, UNCHANGED call \/ \E d : call' = [call EXCEPT ![s] = d]
        PROVE  Holding /\ index' = index /\ call'["main"] = call["main"]
    BY <1>0, <2>4 DEF TypeOK
  <2>5. ASSUME NEW c \in Pressed, CompletedMessage(c)
        PROVE  Holding /\ index' = index /\ call'["main"] = call["main"]
    BY <2>4, <2>5 DEF CompletedMessage, Begin, Goto
  <2>6. ASSUME NEW c \in Pressed, NEW ts \in 0..MaxTime, HallMessage(c, ts)
        PROVE  Holding /\ index' = index /\ call'["main"] = call["main"]
    BY <2>4, <2>6 DEF HallMessage, Begin, Goto
  <2>7. ASSUME NEW id \in Peers, StateMessage(id)
        PROVE  Holding /\ index' = index /\ call'["main"] = call["main"]
    BY <2>4, <2>7 DEF StateMessage, Begin, Goto
  <2>8. ASSUME NEW ids \in SUBSET Ids, Timeout(ids)
        PROVE  Holding /\ index' = index /\ call'["main"] = call["main"]
    BY <2>4, <2>8 DEF Timeout, Begin, Goto
  <2>9. ASSUME NEW ids \in SUBSET Ids, Expiry(ids)
        PROVE  Holding /\ index' = index /\ call'["main"] = call["main"]
    BY <2>4, <2>9 DEF Expiry, Begin, Goto
  <2> QED  BY <1>3, <1>7, <2>1, <2>2, <2>3, <2>5, <2>6, <2>7, <2>8, <2>9 DEF Begins
<1> QED  BY <1>1, <1>2, <1>3, <1>4, <1>5, <1>6, <1>7 DEF Next, Thread, MainSteps, ListenerSteps

(* The three facts hold together: a call served at its position goes dark  *)
(* only if it is the one removed, and only if it was queued once.          *)
Orderly ==
    used["completed_msg"] = 0 =>
        /\ Distinct(call_buttons)
        /\ Holding => index \in DOMAIN call_buttons /\ call_buttons[index] = call["main"]
        /\ \A c \in Pressed : Contains(call_buttons, c) => c \in lamps

LEMMA OrderlyStep == TypeOK /\ TypeOK' /\ Undisturbed /\ Orderly /\ [Next]_vars => Orderly'
<1> SUFFICES ASSUME TypeOK, TypeOK', Undisturbed, Orderly, [Next]_vars,
                    used'["completed_msg"] = 0
             PROVE  /\ Distinct(call_buttons')
                    /\ Holding' => index' \in DOMAIN call_buttons'
                                   /\ call_buttons'[index'] = call'["main"]
                    /\ \A c \in Pressed : Contains(call_buttons', c) => c \in lamps'
  BY DEF Orderly, Distinct, Holding
<1>1. CASE UNCHANGED vars
  BY <1>1 DEF Orderly, Holding, vars, queue, locals, args, rest
<1>2. CASE Next
  <2>0. "completed_msg" \in Operations /\ call_buttons \in Seq(Pressed)
    BY DEF Operations, TypeOK
  <2>1. used["completed_msg"] = 0
    BY <1>2, <2>0, ThreadUses, BeginsUses DEF Next, TypeOK
  <2>2. ~ \E c \in Pressed : CompletedMessage(c)
    BY <2>0, <2>1 DEF CompletedMessage, Begin, TypeOK
  <2>3. /\ Distinct(call_buttons)
        /\ Holding => index \in DOMAIN call_buttons /\ call_buttons[index] = call["main"]
        /\ \A c \in Pressed : Contains(call_buttons, c) => c \in lamps
    BY <2>1 DEF Orderly
  <2>4. CASE UNCHANGED call_buttons /\ lamps \subseteq lamps'
    BY <1>2, <2>3, <2>4, HoldingSteps
  <2>5. ASSUME NEW c \in Pressed, call_buttons' = Enqueue(call_buttons, c),
               lamps' = lamps \cup {c}
        PROVE  /\ Distinct(call_buttons')
               /\ Holding' => index' \in DOMAIN call_buttons'
                              /\ call_buttons'[index'] = call'["main"]
               /\ \A d \in Pressed : Contains(call_buttons', d) => d \in lamps'
    BY <1>2, <2>0, <2>3, <2>5, PushedQueue, HoldingSteps
  <2>6. ASSUME NEW i \in DOMAIN call_buttons, call_buttons' = RemoveAt(call_buttons, i),
               lamps' = lamps \ {call_buttons[i]}
        PROVE  /\ Distinct(call_buttons')
               /\ \A d \in Pressed : Contains(call_buttons', d) => d \in lamps'
    BY <2>0, <2>3, <2>6, RemovedQueue
  <2>7. ASSUME NEW i \in DOMAIN call_buttons, call_buttons' = RemoveAt(call_buttons, i),
               pc["main"] = "idle", Holding'
        PROVE  FALSE
    <3>1. UNCHANGED call_buttons
      BY <1>2, <2>7, HoldingSteps DEF Holding
    <3>2. Len(call_buttons') = Len(call_buttons) - 1 /\ Len(call_buttons) \in Nat
      BY <2>0, <2>7, Values, SeqMonotonic, RemoveAtProperties, LenProperties
    <3> QED  BY <3>1, <3>2
  <2>8. CASE call_buttons' = <<>> /\ pc["main"] = "idle"
    <3>1. Distinct(call_buttons') /\ \A d \in Pressed : ~ Contains(call_buttons', d)
      BY <2>8 DEF Distinct, Contains
    <3>2. DOMAIN call_buttons' = {}
      BY <2>8, EmptySeq, LenProperties
    <3>3. ~ Holding'
      BY <1>2, <2>8, <3>2, HoldingSteps DEF Holding
    <3> QED  BY <3>1, <3>3
  <2>9. CASE pc["main"] = "removing_next" /\ RemoveNext
    <3> DEFINE i == index
    <3>1. i \in DOMAIN call_buttons /\ call_buttons[i] = call["main"]
      BY <2>3, <2>9 DEF Holding
    <3>2. call_buttons' = RemoveAt(call_buttons, i) /\ lamps' = lamps \ {call_buttons[i]}
      BY <2>9, <3>1 DEF RemoveNext
    <3>3. ~ Holding'
      BY <2>9, <3>1, Values DEF RemoveNext, Proceed, Goto, Holding, TypeOK
    <3> QED  BY <2>6, <3>1, <3>2, <3>3
  <2> QED  BY <1>2, <2>1, <2>2, <2>4, <2>5, <2>6, <2>7, <2>8, <2>9, QueueSteps
<1> QED  BY <1>1, <1>2

LEMMA OrderlyInit == Init => Undisturbed /\ Orderly
<1> SUFFICES ASSUME Init PROVE Undisturbed /\ Orderly
  OBVIOUS
<1>1. pc["main"] = "idle" /\ pc["listener"] = "idle"
  BY Values DEF Init
<1>2. call_buttons = <<>> /\ DOMAIN call_buttons = {}
  BY EmptySeq, LenProperties DEF Init
<1>3. Distinct(call_buttons) /\ \A c \in Pressed : ~ Contains(call_buttons, c)
  BY <1>2 DEF Distinct, Contains
<1> QED  BY <1>1, <1>3 DEF Undisturbed, Orderly, Holding

(* The position serve_call remembers across its unlocked section is still  *)
(* the one of its call when it removes it, unless a peer reported a        *)
(* completion, for any number of floors, peers, presses and operations.    *)
THEOREM PositionKept == Spec => []PositionHolds
<1>1. Init => Undisturbed /\ Orderly
  BY OrderlyInit
<1>2. TypeOK /\ TypeOK' /\ Undisturbed /\ Orderly /\ [Next]_vars => (Undisturbed /\ Orderly)'
  BY UndisturbedStep, OrderlyStep
<1>3. Orderly => PositionHolds
  BY DEF Orderly, Holding, PositionHolds
<1> QED  BY TypeCorrect, <1>1, <1>2, <1>3, PTL DEF Spec

(* Every queued call is lit, unless a peer reported a completion.          *)
THEOREM QueuedLit == Spec => []QueuedIsLit
<1>1. Init => Undisturbed /\ Orderly
  BY OrderlyInit
<1>2. TypeOK /\ TypeOK' /\ Undisturbed /\ Orderly /\ [Next]_vars => (Undisturbed /\ Orderly)'
  BY UndisturbedStep, OrderlyStep
<1>3. Orderly => QueuedIsLit
  BY DEF Orderly, QueuedIsLit
<1> QED  BY TypeCorrect, <1>1, <1>2, <1>3, PTL DEF Spec
=============================================================================
