--------------------------- MODULE MessageProofs ---------------------------
(***************************************************************************)
(* Theorems about the messages of a connection, for any messages, any      *)
(* number of them, and however the text is cut into reads.                 *)
(***************************************************************************)
EXTENDS Messages, SequenceTheorems, WellFoundedInduction, TLAPS

-----------------------------------------------------------------------------
(* Induction.                                                              *)

LEMMA LeastExists ==
    ASSUME NEW T \in SUBSET Nat, T # {}
    PROVE  \E x \in T : \A y \in T : x <= y
<1>1. \E x \in T : \A y \in T : ~ (<<y, x>> \in OpToRel(<, Nat))
  BY NatLessThanWellFounded, WFMin
<1>2. ASSUME NEW x \in Nat, NEW y \in Nat, y < x
      PROVE  <<y, x>> \in OpToRel(<, Nat)
  BY <1>2, Zenon DEF OpToRel
<1> DEFINE R == OpToRel(<, Nat)
<1> HIDE DEF R
<1>3. \E x \in T : \A y \in T : ~ (y < x)
  BY <1>1, <1>2 DEF R
<1> QED  BY <1>3

LEMMA Induction ==
    ASSUME NEW T, \A n \in Nat : 0..(n - 1) \subseteq T => n \in T
    PROVE  Nat \subseteq T
<1> DEFINE U == Nat \ T
<1> SUFFICES ASSUME U # {} PROVE FALSE
  OBVIOUS
<1>1. PICK n \in U : \A y \in U : n <= y
  BY LeastExists
<1>2. 0..(n - 1) \subseteq T
  BY <1>1
<1> QED  BY <1>1, <1>2

(* A sequence is empty or its front with its last element appended.        *)
LEMMA FrontLast ==
    ASSUME NEW A, NEW s \in Seq(A), s # <<>>
    PROVE  /\ Front(s) \in Seq(A) /\ Last(s) \in A
           /\ Len(Front(s)) = Len(s) - 1
           /\ s = Append(Front(s), Last(s))
<1>1. Len(s) \in Nat \ {0} /\ Len(s) \in DOMAIN s
  BY EmptySeq, LenProperties
<1>2. Last(s) \in A
  BY <1>1, ElementOfSeq DEF Last
<1>3. /\ Front(s) \in Seq(A) /\ Len(Front(s)) = Len(s) - 1
      /\ \A i \in 1..(Len(s) - 1) : Front(s)[i] = s[i]
  <2>1. \A i \in 1..(Len(s) - 1) : s[i] \in A
    BY <1>1, ElementOfSeq
  <2>2. /\ SubSeq(s, 1, Len(s) - 1) \in Seq(A)
        /\ Len(SubSeq(s, 1, Len(s) - 1)) = Len(s) - 1
        /\ \A i \in 1..(Len(s) - 1) : SubSeq(s, 1, Len(s) - 1)[i] = s[i]
    <3>1. \A i \in 1..(Len(s) - 1) : s[1 + i - 1] = s[i]
      <4>1. \A n \in Int : \A i \in 1..n : 1 + i - 1 = i
        OBVIOUS
      <4>2. Len(s) - 1 \in Int
        BY <1>1
      <4> QED  BY <4>1, <4>2, Zenon
    <3>2. 1 \in Int /\ Len(s) - 1 \in Int /\ (Len(s) - 1) - 1 + 1 = Len(s) - 1
          /\ (1 <= Len(s) - 1 \/ Len(s) - 1 = 0)
      BY <1>1
    <3>3. /\ SubSeq(s, 1, Len(s) - 1) \in Seq(A)
          /\ Len(SubSeq(s, 1, Len(s) - 1)) = IF 1 <= Len(s) - 1 THEN (Len(s) - 1) - 1 + 1 ELSE 0
          /\ \A i \in 1..((Len(s) - 1) - 1 + 1) : SubSeq(s, 1, Len(s) - 1)[i] = s[1 + i - 1]
      BY <2>1, <3>2, SubSeqProperties, SMTT(30)
    <3> QED  BY <3>1, <3>2, <3>3
  <2> QED  BY <2>2 DEF Front
<1>4. s = Append(Front(s), Last(s))
  BY <1>1, <1>2, <1>3, AppendProperties, SeqEqual DEF Last
<1> QED  BY <1>2, <1>3, <1>4

LEMMA FrontLastOfAppend ==
    ASSUME NEW A, NEW s \in Seq(A), NEW a \in A
    PROVE  /\ Append(s, a) # <<>> /\ Len(Append(s, a)) = Len(s) + 1
           /\ Front(Append(s, a)) = s /\ Last(Append(s, a)) = a
<1>1. Append(s, a) \in Seq(A) /\ Append(s, a) # <<>>
  BY AppendProperties
<1>2. Append(s, a) = Append(Front(Append(s, a)), Last(Append(s, a)))
      /\ Front(Append(s, a)) \in Seq(A) /\ Last(Append(s, a)) \in A
  BY <1>1, FrontLast
<1> QED  BY <1>1, <1>2, AppendInjective, AppendProperties

LEMMA SeqInduction ==
    ASSUME NEW A, NEW T, <<>> \in T,
           \A s \in Seq(A) : s \in T => \A a \in A : Append(s, a) \in T
    PROVE  Seq(A) \subseteq T
<1> DEFINE N == {n \in Nat : \A s \in Seq(A) : Len(s) = n => s \in T}
<1>1. ASSUME NEW n \in Nat, 0..(n - 1) \subseteq N
      PROVE  n \in N
  <2> SUFFICES ASSUME NEW s \in Seq(A), Len(s) = n PROVE s \in T
    OBVIOUS
  <2>1. CASE s = <<>>
    BY <2>1
  <2>2. CASE s # <<>>
    <3>1. Front(s) \in Seq(A) /\ Last(s) \in A /\ Len(Front(s)) = n - 1
          /\ s = Append(Front(s), Last(s))
      BY <2>2, FrontLast
    <3>2. n - 1 \in 0..(n - 1)
      BY <3>1, LenProperties
    <3> QED  BY <1>1, <3>1, <3>2
  <2> QED  BY <2>1, <2>2
<1> HIDE DEF N
<1>2. Nat \subseteq N
  BY <1>1, Induction, Zenon
<1> QED  BY <1>2, LenProperties DEF N

(* A function on sequences may be defined by its value for <<>>, and by    *)
(* that for a sequence from its front, that for its front, and its last.   *)
Recurses(A, base, step, f) ==
    \A s \in Seq(A) : f[s] = IF s = <<>> THEN base ELSE step[<<Front(s), f[Front(s)], Last(s)>>]

LEMMA SeqRecursion ==
    ASSUME NEW A, NEW V, NEW base \in V, NEW step \in [Seq(A) \X V \X A -> V]
    PROVE  \E f \in [Seq(A) -> V] : Recurses(A, base, step, f)
<1> DEFINE UpToLength(n) == {s \in Seq(A) : Len(s) <= n}
           Follows(g, s) == g[s] = IF s = <<>> THEN base
                                   ELSE step[<<Front(s), g[Front(s)], Last(s)>>]
           Ok(n, g) == g \in [UpToLength(n) -> V] /\ \A s \in UpToLength(n) : Follows(g, s)
<1>1. ASSUME NEW n \in Nat, NEW s \in UpToLength(n), s # <<>>
      PROVE  /\ Front(s) \in UpToLength(n) /\ Last(s) \in A /\ Len(s) \in Nat \ {0}
             /\ Len(Front(s)) = Len(s) - 1 /\ Front(s) \in UpToLength(n - 1)
  <2>1. s \in Seq(A) /\ Len(s) \in Nat /\ Len(s) # 0
    BY <1>1, LenProperties, EmptySeq
  <2>2. Front(s) \in Seq(A) /\ Last(s) \in A /\ Len(Front(s)) = Len(s) - 1
    BY <1>1, <2>1, FrontLast
  <2> QED  BY <2>1, <2>2
<1>2. ASSUME NEW n \in Nat, NEW m \in Nat, NEW g, NEW h, Ok(n, g), Ok(m, h)
      PROVE  \A s \in Seq(A) : Len(s) <= n /\ Len(s) <= m => g[s] = h[s]
  <2> DEFINE T == {s \in Seq(A) : Len(s) <= n /\ Len(s) <= m => g[s] = h[s]}
  <2>1. <<>> \in T
    BY <1>2, EmptySeq
  <2>2. ASSUME NEW s \in Seq(A), s \in T, NEW a \in A PROVE Append(s, a) \in T
    <3>1. Append(s, a) \in Seq(A) /\ Append(s, a) # <<>> /\ Front(Append(s, a)) = s
          /\ Len(Append(s, a)) = Len(s) + 1
      BY FrontLastOfAppend, AppendProperties
    <3> SUFFICES ASSUME Len(s) + 1 <= n, Len(s) + 1 <= m
                 PROVE  g[Append(s, a)] = h[Append(s, a)]
      BY <3>1
    <3>2. Follows(g, Append(s, a)) /\ Follows(h, Append(s, a))
      BY <1>2, <3>1
    <3>3. g[s] = h[s]
      BY <2>2, LenProperties
    <3> QED  BY <3>1, <3>2, <3>3
  <2> HIDE DEF T
  <2>3. Seq(A) \subseteq T
    BY <2>1, <2>2, SeqInduction
  <2> QED  BY <2>3 DEF T
<1>3. \A n \in Nat : \E g : Ok(n, g)
  <2> DEFINE T == {n \in Nat : \E g : Ok(n, g)}
  <2>1. ASSUME NEW n \in Nat, 0..(n - 1) \subseteq T PROVE n \in T
    <3>1. CASE n = 0
      <4> DEFINE g == [s \in UpToLength(0) |-> base]
      <4>1. \A s \in UpToLength(0) : s = <<>>
        BY EmptySeq, LenProperties
      <4>2. Ok(0, g)
        BY <4>1
      <4> QED  BY <3>1, <4>2
    <3>2. CASE n # 0
      <4> HIDE DEF T
      <4>0. n - 1 \in T
        BY <2>1, <3>2
      <4>1. PICK g : Ok(n - 1, g)
        BY <4>0, Zenon DEF T
      <4> DEFINE h == [s \in UpToLength(n) |-> IF s = <<>> THEN base
                                               ELSE step[<<Front(s), g[Front(s)], Last(s)>>]]
      <4>2. h \in [UpToLength(n) -> V]
        <5> SUFFICES ASSUME NEW s \in UpToLength(n), s # <<>>
                     PROVE  step[<<Front(s), g[Front(s)], Last(s)>>] \in V
          OBVIOUS
        <5>1. g[Front(s)] \in V
          BY <1>1, <4>1
        <5> QED  BY <1>1, <5>1
      <4>3. \A s \in UpToLength(n - 1) : h[s] = g[s]
        BY <4>1, <3>2, LenProperties
      <4>4. \A s \in UpToLength(n) : Follows(h, s)
        <5> SUFFICES ASSUME NEW s \in UpToLength(n) PROVE Follows(h, s)
          OBVIOUS
        <5>1. CASE s = <<>>
          BY <5>1
        <5>2. CASE s # <<>>
          <6>1. h[Front(s)] = g[Front(s)]
            BY <1>1, <4>3, <5>2
          <6>2. h[s] = step[<<Front(s), g[Front(s)], Last(s)>>]
            BY <5>2
          <6> QED  BY <5>2, <6>1, <6>2
        <5> QED  BY <5>1, <5>2
      <4> QED  BY <4>2, <4>4 DEF T
    <3> QED  BY <3>1, <3>2
  <2> HIDE DEF T
  <2>2. Nat \subseteq T
    BY <2>1, Induction
  <2> QED  BY <2>2 DEF T
<1> DEFINE g(n) == CHOOSE h : Ok(n, h)
           f    == [s \in Seq(A) |-> g(Len(s))[s]]
<1>4. \A n \in Nat : Ok(n, g(n))
  BY <1>3, Zenon
<1> HIDE DEF g, Ok
<1>5. f \in [Seq(A) -> V]
  <2> SUFFICES ASSUME NEW s \in Seq(A) PROVE g(Len(s))[s] \in V
    OBVIOUS
  <2>0. Len(s) \in Nat
    BY LenProperties
  <2>1. Ok(Len(s), g(Len(s)))
    BY <1>4, <2>0, Zenon
  <2>2. s \in UpToLength(Len(s))
    BY <2>0
  <2> QED  BY <2>1, <2>2 DEF Ok
<1>6. ASSUME NEW s \in Seq(A) PROVE Follows(f, s)
  <2>0. Len(s) \in Nat /\ s \in UpToLength(Len(s))
    BY LenProperties
  <2>1. Ok(Len(s), g(Len(s)))
    BY <1>4, <2>0, Zenon
  <2>2. Follows(g(Len(s)), s) /\ f[s] = g(Len(s))[s]
    BY <2>0, <2>1 DEF Ok
  <2>3. CASE s = <<>>
    BY <2>2, <2>3
  <2>4. CASE s # <<>>
    <3>1. Front(s) \in Seq(A) /\ Len(Front(s)) \in Nat /\ Len(Front(s)) <= Len(s)
      BY <1>1, <2>0, <2>4, LenProperties
    <3>2. Ok(Len(Front(s)), g(Len(Front(s))))
      BY <1>4, <3>1, Zenon
    <3>3. f[Front(s)] = g(Len(s))[Front(s)]
      <4>1. f[Front(s)] = g(Len(Front(s)))[Front(s)]
        BY <3>1
      <4>2. g(Len(Front(s)))[Front(s)] = g(Len(s))[Front(s)]
        <5>1. \A t \in Seq(A) : Len(t) <= Len(Front(s)) /\ Len(t) <= Len(s) =>
                 g(Len(Front(s)))[t] = g(Len(s))[t]
          BY <1>2, <2>0, <2>1, <3>1, <3>2
        <5> QED  BY <3>1, <5>1
      <4> QED  BY <4>1, <4>2
    <3> QED  BY <2>2, <2>4, <3>3
  <2> QED  BY <2>3, <2>4
<1> HIDE DEF f
<1> QED  BY <1>5, <1>6 DEF Recurses

-----------------------------------------------------------------------------
(* The recursive functions on texts are what their definitions say.        *)

LEMMA NumberIs ==
    /\ Number[<<>>] = 0
    /\ \A s \in Text : Number[s] \in Nat
    /\ \A s \in Text, t \in Token : Number[Append(s, t)] = 10 * Number[s] + t
<1> DEFINE step == [x \in Text \X Nat \X Token |-> 10 * x[2] + x[3]]
<1>1. step \in [Text \X Nat \X Token -> Nat]
  BY DEF Token
<1>2. PICK f \in [Text -> Nat] :
         \A s \in Text : f[s] = IF s = <<>> THEN 0 ELSE step[<<Front(s), f[Front(s)], Last(s)>>]
  <2> HIDE DEF step
  <2>1. step \in [Seq(Token) \X Nat \X Token -> Nat]
    BY <1>1 DEF Text
  <2>2. \E f \in [Seq(Token) -> Nat] : Recurses(Token, 0, step, f)
    <3>1. 0 \in Nat
      OBVIOUS
    <3> QED  BY <2>1, <3>1, SeqRecursion, Zenon
  <2> QED  BY <2>2 DEF Text, Recurses
<1>3. \A s \in Text : s # <<>> => Front(s) \in Text /\ Last(s) \in Token
  BY FrontLast DEF Text
<1>4. f = [s \in Text |-> IF s = <<>> THEN 0 ELSE 10 * f[Front(s)] + Last(s)]
  BY <1>2, <1>3
<1>5. Number = [s \in Text |-> IF s = <<>> THEN 0 ELSE 10 * Number[Front(s)] + Last(s)]
  <2>1. \E n : n = [s \in Text |-> IF s = <<>> THEN 0 ELSE 10 * n[Front(s)] + Last(s)]
    BY <1>4, Zenon
  <2> QED  BY <2>1, Zenon DEF Number
<1>6. <<>> \in Text /\ Number[<<>>] = 0
  BY <1>5, EmptySeq DEF Text
<1>7. ASSUME NEW s \in Text, NEW t \in Token
      PROVE  Number[Append(s, t)] = 10 * Number[s] + t
  <2>1. /\ Append(s, t) \in Text /\ Append(s, t) # <<>>
        /\ Front(Append(s, t)) = s /\ Last(Append(s, t)) = t
    BY AppendProperties, FrontLastOfAppend DEF Text
  <2>2. Number[Append(s, t)] = IF Append(s, t) = <<>> THEN 0
                               ELSE 10 * Number[Front(Append(s, t))] + Last(Append(s, t))
    BY <1>5, <2>1
  <2> QED  BY <2>1, <2>2
<1>8. \A s \in Text : Number[s] \in Nat
  <2> DEFINE T == {s \in Text : Number[s] \in Nat}
  <2>1. <<>> \in T
    BY <1>6
  <2>2. ASSUME NEW s \in Text, s \in T, NEW t \in Token PROVE Append(s, t) \in T
    <3>1. Append(s, t) \in Text
      BY AppendProperties DEF Text
    <3>2. 10 * Number[s] + t \in Nat
      BY <2>2 DEF Token
    <3> QED  BY <1>7, <3>1, <3>2
  <2> HIDE DEF T
  <2>3. Text \subseteq T
    BY <2>1, <2>2, SeqInduction DEF Text
  <2> QED  BY <2>3 DEF T
<1> QED  BY <1>6, <1>7, <1>8

(* A text has at least one piece; a separator begins another one, and any  *)
(* other token belongs to the last one.                                    *)
Pieces == Seq(Text) \ {<<>>}

Extended(p, t) == [p EXCEPT ![Len(p)] = Append(@, t)]

LEMMA ExtendedType ==
    ASSUME NEW p \in Pieces, NEW t \in Token
    PROVE  /\ Extended(p, t) \in Pieces /\ Len(Extended(p, t)) = Len(p)
           /\ Len(p) \in Nat \ {0} /\ DOMAIN p = 1..Len(p)
           /\ Extended(p, t)[Len(p)] = Append(p[Len(p)], t)
           /\ \A i \in 1..(Len(p) - 1) : Extended(p, t)[i] = p[i]
<1>1. p \in Seq(Text) /\ Len(p) \in Nat \ {0} /\ DOMAIN p = 1..Len(p) /\ p[Len(p)] \in Text
  BY EmptySeq, LenProperties, ElementOfSeq DEF Pieces
<1>2. Append(p[Len(p)], t) \in Text
  BY <1>1, AppendProperties DEF Text
<1>3. /\ Extended(p, t) \in Seq(Text) /\ Len(Extended(p, t)) = Len(p)
      /\ \A i \in 1..Len(p) : Extended(p, t)[i] = IF i = Len(p) THEN Append(p[Len(p)], t) ELSE p[i]
  BY <1>1, <1>2, ExceptSeq DEF Extended
<1>4. Extended(p, t) # <<>>
  BY <1>1, <1>3, EmptySeq
<1>0. Len(p) \in Nat \ {0}
  BY <1>1
<1>5. Len(p) \in 1..Len(p) /\ \A i \in 1..(Len(p) - 1) : i \in 1..Len(p) /\ i # Len(p)
  BY <1>0
<1> QED  BY <1>1, <1>3, <1>4, <1>5 DEF Pieces

LEMMA SplitIs ==
    ASSUME NEW separator \in Token
    PROVE  /\ Split(<<>>, separator) = << <<>> >>
           /\ \A s \in Text : Split(s, separator) \in Pieces
           /\ \A s \in Text, t \in Token :
                 Split(Append(s, t), separator) = IF t = separator
                                                  THEN Append(Split(s, separator), <<>>)
                                                  ELSE Extended(Split(s, separator), t)
<1> DEFINE Next1(p, t) == IF t = separator THEN Append(p, <<>>) ELSE Extended(p, t)
           step == [x \in Text \X Pieces \X Token |-> Next1(x[2], x[3])]
<1>0. <<>> \in Text /\ << <<>> >> \in Pieces
  <2>1. <<>> \in Text
    BY EmptySeq DEF Text
  <2> QED  BY <2>1 DEF Pieces
<1>1. \A p \in Pieces, t \in Token : Next1(p, t) \in Pieces
  <2> SUFFICES ASSUME NEW p \in Pieces, NEW t \in Token PROVE Next1(p, t) \in Pieces
    OBVIOUS
  <2>1. Append(p, <<>>) \in Pieces
    BY <1>0, AppendProperties DEF Pieces
  <2> QED  BY <2>1, ExtendedType
<1> HIDE DEF Next1
<1>2. PICK f \in [Text -> Pieces] :
         \A s \in Text : f[s] = IF s = <<>> THEN << <<>> >>
                                ELSE step[<<Front(s), f[Front(s)], Last(s)>>]
  <2>1. step \in [Seq(Token) \X Pieces \X Token -> Pieces]
    BY <1>1 DEF Text
  <2> HIDE DEF step
  <2>2. \E f \in [Seq(Token) -> Pieces] : Recurses(Token, << <<>> >>, step, f)
    BY <1>0, <2>1, SeqRecursion, Zenon
  <2> QED  BY <2>2 DEF Text, Recurses
<1>3. \A s \in Text : s # <<>> => Front(s) \in Text /\ Last(s) \in Token
  BY FrontLast DEF Text
<1>4. f = [s \in Text |-> IF s = <<>> THEN << <<>> >> ELSE Next1(f[Front(s)], Last(s))]
  BY <1>2, <1>3
<1> DEFINE split == CHOOSE g : g = [s \in Text |-> IF s = <<>> THEN << <<>> >>
                                                   ELSE Next1(g[Front(s)], Last(s))]
<1>5. split = [s \in Text |-> IF s = <<>> THEN << <<>> >> ELSE Next1(split[Front(s)], Last(s))]
  BY <1>4, Zenon
<1>6. \A s : Split(s, separator) = split[s]
  BY Zenon DEF Split, Next1, Extended
<1> HIDE DEF split
<1>7. split[<<>>] = << <<>> >>
  BY <1>0, <1>5
<1>8. ASSUME NEW s \in Text, NEW t \in Token
      PROVE  split[Append(s, t)] = Next1(split[s], t)
  <2>1. /\ Append(s, t) \in Text /\ Append(s, t) # <<>>
        /\ Front(Append(s, t)) = s /\ Last(Append(s, t)) = t
    BY AppendProperties, FrontLastOfAppend DEF Text
  <2> QED  BY <1>5, <2>1
<1>9. \A s \in Text : split[s] \in Pieces
  <2> DEFINE T == {s \in Text : split[s] \in Pieces}
  <2>1. <<>> \in T
    BY <1>0, <1>7
  <2>2. ASSUME NEW s \in Text, s \in T, NEW t \in Token PROVE Append(s, t) \in T
    BY <1>1, <1>8, <2>2, AppendProperties DEF Text
  <2> HIDE DEF T
  <2>3. Text \subseteq T
    BY <2>1, <2>2, SeqInduction DEF Text
  <2> QED  BY <2>3 DEF T
<1> QED  BY <1>6, <1>7, <1>8, <1>9 DEF Next1

(* The text of a queue grows by a button and, but for the first, the       *)
(* semicolon before it.                                                    *)
Calls == u8 \X (0..2)

Plain == (0..12) \ {Bar}

LEMMA JoinIs ==
    ASSUME \A b \in Calls : Button(b) \in Seq(Plain)
    PROVE  /\ Join[<<>>] = <<>>
           /\ \A q \in Seq(Calls) : Join[q] \in Seq(Plain)
           /\ \A q \in Seq(Calls), b \in Calls :
                 Join[Append(q, b)] = IF q = <<>> THEN Button(b)
                                      ELSE Join[q] \o <<Semicolon>> \o Button(b)
<1> DEFINE V == Seq(Plain)
           Next1(q, p, b) == IF q = <<>> THEN Button(b) ELSE p \o <<Semicolon>> \o Button(b)
           step == [x \in Seq(Calls) \X V \X Calls |-> Next1(x[1], x[2], x[3])]
<1>0. <<>> \in V /\ <<>> \in Seq(Calls)
  OBVIOUS
<1>1. ASSUME NEW q \in Seq(Calls), NEW p \in V, NEW b \in Calls PROVE Next1(q, p, b) \in V
  <2>1. Button(b) \in V /\ <<Semicolon>> \in V
    BY DEF Semicolon, Plain, Bar
  <2> HIDE DEF V
  <2>2. p \o <<Semicolon>> \o Button(b) \in V
    BY <2>1, ConcatProperties DEF V
  <2> QED  BY <2>1, <2>2
<1> HIDE DEF Next1
<1>2. PICK f \in [Seq(Calls) -> V] :
         \A q \in Seq(Calls) : f[q] = IF q = <<>> THEN <<>>
                                      ELSE step[<<Front(q), f[Front(q)], Last(q)>>]
  <2>1. step \in [Seq(Calls) \X V \X Calls -> V]
    BY <1>1
  <2> HIDE DEF step, V
  <2>2. \E f \in [Seq(Calls) -> V] : Recurses(Calls, <<>>, step, f)
    BY <1>0, <2>1, SeqRecursion, Zenon
  <2> QED  BY <2>2 DEF Recurses
<1>3. \A q \in Seq(Calls) : q # <<>> =>
         Front(q) \in Seq(Calls) /\ Last(q) \in Calls /\ (Len(q) = 1 <=> Front(q) = <<>>)
  <2> SUFFICES ASSUME NEW q \in Seq(Calls), q # <<>>
               PROVE  Front(q) \in Seq(Calls) /\ Last(q) \in Calls /\ (Len(q) = 1 <=> Front(q) = <<>>)
    OBVIOUS
  <2>1. Front(q) \in Seq(Calls) /\ Last(q) \in Calls /\ Len(Front(q)) = Len(q) - 1
    BY FrontLast
  <2>2. Len(q) \in Nat /\ (Front(q) = <<>> <=> Len(Front(q)) = 0)
    BY <2>1, EmptySeq, LenProperties
  <2> QED  BY <2>1, <2>2
<1>4. f = [q \in Seq(Calls) |-> IF q = <<>> THEN <<>> ELSE Next1(Front(q), f[Front(q)], Last(q))]
  BY <1>2, <1>3
<1>5. f = [q \in Seq(Calls) |-> IF q = <<>> THEN <<>>
                                ELSE IF Len(q) = 1 THEN Button(Last(q))
                                ELSE f[Front(q)] \o <<Semicolon>> \o Button(Last(q))]
  BY <1>3, <1>4 DEF Next1
<1>6. Join = [q \in Seq(Calls) |-> IF q = <<>> THEN <<>>
                                   ELSE IF Len(q) = 1 THEN Button(Last(q))
                                   ELSE Join[Front(q)] \o <<Semicolon>> \o Button(Last(q))]
  <2>1. \E g : g = [q \in Seq(Calls) |-> IF q = <<>> THEN <<>>
                                         ELSE IF Len(q) = 1 THEN Button(Last(q))
                                         ELSE g[Front(q)] \o <<Semicolon>> \o Button(Last(q))]
    BY <1>5, Zenon
  <2> QED  BY <2>1, Zenon DEF Join, Calls
<1>7. Join[<<>>] = <<>>
  BY <1>0, <1>6
<1>8. ASSUME NEW q \in Seq(Calls), NEW b \in Calls
      PROVE  Join[Append(q, b)] = Next1(q, Join[q], b)
  <2>1. /\ Append(q, b) \in Seq(Calls) /\ Append(q, b) # <<>>
        /\ Front(Append(q, b)) = q /\ Last(Append(q, b)) = b
    BY AppendProperties, FrontLastOfAppend
  <2>2. Len(Append(q, b)) = 1 <=> q = <<>>
    BY <1>3, <2>1
  <2> QED  BY <1>6, <2>1, <2>2 DEF Next1
<1>9. \A q \in Seq(Calls) : Join[q] \in V
  <2> DEFINE T == {q \in Seq(Calls) : Join[q] \in V}
  <2>1. <<>> \in T
    BY <1>0, <1>7
  <2>2. ASSUME NEW q \in Seq(Calls), q \in T, NEW b \in Calls PROVE Append(q, b) \in T
    BY <1>1, <1>8, <2>2, AppendProperties
  <2> HIDE DEF T
  <2>3. Seq(Calls) \subseteq T
    BY <2>1, <2>2, SeqInduction
  <2> QED  BY <2>3 DEF T
<1> QED  BY <1>7, <1>8, <1>9 DEF Next1

(* A number is written as what it is without its last digit, and that      *)
(* digit.                                                                  *)
LEMMA DivMod ==
    ASSUME NEW n \in Nat
    PROVE  /\ n \div 10 \in Nat /\ n % 10 \in 0..9 /\ n = 10 * (n \div 10) + (n % 10)
           /\ n >= 10 => n \div 10 \in 0..(n - 1)
<1>1. n \div 10 \in Int
  OBVIOUS
<1>2. n % 10 \in 0..9
  OBVIOUS
<1>3. n = 10 * (n \div 10) + (n % 10)
  OBVIOUS
<1>4. n \div 10 \in Nat
  BY <1>1, <1>2, <1>3
<1>5. n >= 10 => n \div 10 \in 0..(n - 1)
  BY <1>1, <1>2, <1>3
<1> QED  BY <1>2, <1>3, <1>4, <1>5

LEMMA DecimalIs ==
    ASSUME NEW n \in Nat
    PROVE  /\ Decimal[n] = IF n < 10 THEN <<n>> ELSE Append(Decimal[n \div 10], n % 10)
           /\ Decimal[n] \in Seq(0..9) /\ Decimal[n] # <<>>
<1> DEFINE Eq(d, k) == IF k < 10 THEN <<k>> ELSE Append(d[k \div 10], k % 10)
           Ok(m, d) == \A k \in 0..m : d[k] = Eq(d, k)
<1>1. ASSUME NEW d, NEW e, NEW k \in Nat, k >= 10 => d[k \div 10] = e[k \div 10]
      PROVE  Eq(d, k) = Eq(e, k)
  BY <1>1
<1> HIDE DEF Eq
<1>2. ASSUME NEW m \in Nat, NEW l \in Nat, NEW d, NEW e, Ok(m, d), Ok(l, e)
      PROVE  \A k \in Nat : k <= m /\ k <= l => d[k] = e[k]
  <2> DEFINE T == {k \in Nat : k <= m /\ k <= l => d[k] = e[k]}
  <2>1. ASSUME NEW k \in Nat, 0..(k - 1) \subseteq T PROVE k \in T
    <3> SUFFICES ASSUME k <= m, k <= l PROVE d[k] = e[k]
      OBVIOUS
    <3>1. k >= 10 => d[k \div 10] = e[k \div 10]
      <4> SUFFICES ASSUME k >= 10 PROVE d[k \div 10] = e[k \div 10]
        OBVIOUS
      <4>1. PICK j \in 0..(k - 1) : j = k \div 10
        BY DivMod
      <4>2. j \in T
        BY <2>1
      <4> QED  BY <4>1, <4>2
    <3>2. d[k] = Eq(d, k) /\ e[k] = Eq(e, k)
      BY <1>2
    <3> QED  BY <1>1, <3>1, <3>2
  <2> HIDE DEF T
  <2>2. Nat \subseteq T
    BY <2>1, Induction
  <2> QED  BY <2>2 DEF T
<1>3. \A m \in Nat : \E d : Ok(m, d)
  <2> DEFINE T == {m \in Nat : \E d : Ok(m, d)}
  <2>1. ASSUME NEW m \in Nat, 0..(m - 1) \subseteq T PROVE m \in T
    <3>1. \E d : Ok(m - 1, d)
      <4>1. CASE m = 0
        BY <4>1
      <4>2. CASE m # 0
        <5>1. m - 1 \in T
          BY <2>1, <4>2
        <5> QED  BY <5>1
      <4> QED  BY <4>1, <4>2
    <3>2. PICK d : Ok(m - 1, d)
      BY <3>1
    <3> DEFINE e == [k \in 0..m |-> IF k = m THEN Eq(d, m) ELSE d[k]]
    <3>3. ASSUME NEW k \in 0..m PROVE e[k] = Eq(e, k)
      <4>1. k >= 10 => d[k \div 10] = e[k \div 10]
        <5> SUFFICES ASSUME k >= 10 PROVE d[k \div 10] = e[k \div 10]
          OBVIOUS
        <5>1. PICK j \in 0..(k - 1) : j = k \div 10
          BY DivMod
        <5>2. j \in 0..m /\ j # m
          OBVIOUS
        <5> QED  BY <5>1, <5>2
      <4>2. k \in Nat
        OBVIOUS
      <4> HIDE DEF e
      <4>3. Eq(d, k) = Eq(e, k)
        BY <1>1, <4>1, <4>2
      <4>4. e[k] = Eq(d, k)
        <5>1. CASE k = m
          BY <5>1 DEF e
        <5>2. CASE k # m
          <6>1. k \in 0..(m - 1)
            BY <5>2
          <6>2. e[k] = d[k]
            BY <5>2 DEF e
          <6> QED  BY <3>2, <6>1, <6>2
        <5> QED  BY <5>1, <5>2
      <4> QED  BY <4>3, <4>4
    <3> HIDE DEF e
    <3> QED  BY <3>3
  <2> HIDE DEF T
  <2>2. Nat \subseteq T
    BY <2>1, Induction
  <2> QED  BY <2>2 DEF T
<1> DEFINE d(m) == CHOOSE e : Ok(m, e)
           f    == [m \in Nat |-> d(m)[m]]
<1>4. \A m \in Nat : Ok(m, d(m))
  BY <1>3, Zenon
<1> HIDE DEF d, Ok
<1>5. \A k \in Nat : f[k] = Eq(f, k)
  <2> SUFFICES ASSUME NEW k \in Nat PROVE f[k] = Eq(f, k)
    OBVIOUS
  <2>1. Ok(k, d(k)) /\ f[k] = d(k)[k]
    BY <1>4
  <2>2. f[k] = Eq(d(k), k)
    BY <2>1 DEF Ok
  <2>3. k >= 10 => d(k)[k \div 10] = f[k \div 10]
    <3> SUFFICES ASSUME k >= 10 PROVE d(k)[k \div 10] = f[k \div 10]
      OBVIOUS
    <3>1. PICK j \in 0..(k - 1) : j = k \div 10
      BY DivMod
    <3>2. j \in Nat /\ j <= j /\ j <= k
      OBVIOUS
    <3>3. Ok(j, d(j)) /\ f[j] = d(j)[j]
      BY <1>4, <3>2
    <3>4. d(j)[j] = d(k)[j]
      BY <1>2, <2>1, <3>2, <3>3
    <3> QED  BY <3>1, <3>3, <3>4
  <2> HIDE DEF f
  <2> QED  BY <1>1, <2>2, <2>3
<1>6. f = [k \in Nat |-> Eq(f, k)]
  BY <1>5
<1>7. Decimal = [k \in Nat |-> Eq(Decimal, k)]
  <2>1. \E g : g = [k \in Nat |-> Eq(g, k)]
    BY <1>6, Zenon
  <2> QED  BY <2>1, Zenon DEF Decimal, Eq
<1> DEFINE T == {k \in Nat : Decimal[k] \in Seq(0..9) /\ Decimal[k] # <<>>}
<1>8. ASSUME NEW k \in Nat, 0..(k - 1) \subseteq T PROVE k \in T
  <2>1. Decimal[k] = Eq(Decimal, k)
    BY <1>7
  <2>2. CASE k < 10
    <3>1. <<k>> \in Seq(0..9) /\ <<k>> # <<>>
      BY <2>2
    <3> QED  BY <2>1, <2>2, <3>1 DEF Eq
  <2>3. CASE k >= 10
    <3>1. k \div 10 \in T /\ k % 10 \in 0..9
      BY <1>8, <2>3, DivMod
    <3>2. Append(Decimal[k \div 10], k % 10) \in Seq(0..9)
          /\ Append(Decimal[k \div 10], k % 10) # <<>>
      BY <3>1, AppendProperties
    <3>3. Decimal[k] = Append(Decimal[k \div 10], k % 10)
      BY <2>1, <2>3 DEF Eq
    <3> QED  BY <3>2, <3>3
  <2> QED  BY <2>2, <2>3
<1>9. Nat \subseteq T
  <2> HIDE DEF T
  <2> QED  BY <1>8, Induction
<1> QED  BY <1>7, <1>9 DEF Eq

(* Text without words, and without separators.                             *)
LEMMA TextTypes ==
    /\ Seq(0..9) \subseteq Seq(Plain) /\ Seq(Plain) \subseteq Text /\ Seq(0..9) \subseteq Text
    /\ Seq(Plain) \subseteq Seq(Token \ {Bar})
    /\ <<>> \in Text
    /\ HallWord \in Text /\ StateWord \in Text /\ CompletedWord \in Text
    /\ Bar \in Token /\ Semicolon \in Token /\ Comma \in Token
<1>1. /\ 0..9 \subseteq Plain /\ Plain \subseteq Token /\ 0..9 \subseteq Token
      /\ Plain \subseteq Token \ {Bar}
  BY DEF Token, Plain, Bar
<1>2. /\ Seq(0..9) \subseteq Seq(Plain) /\ Seq(Plain) \subseteq Text /\ Seq(0..9) \subseteq Text
      /\ Seq(Plain) \subseteq Seq(Token \ {Bar})
  BY <1>1, SeqMonotonic DEF Text
<1>3. HallWord \in Text /\ StateWord \in Text /\ CompletedWord \in Text
  BY DEF HallWord, StateWord, CompletedWord, Text, Token
<1> QED  BY <1>2, <1>3, EmptySeq DEF Text, Token, Bar, Semicolon, Comma

-----------------------------------------------------------------------------
(* Numbers.                                                                *)

LEMMA NumberOfDecimal ==
    ASSUME NEW n \in Nat
    PROVE  Number[Decimal[n]] = n
<1> DEFINE T == {k \in Nat : Number[Decimal[k]] = k}
<1>1. ASSUME NEW k \in Nat, 0..(k - 1) \subseteq T PROVE k \in T
  <2>1. Decimal[k] = IF k < 10 THEN <<k>> ELSE Append(Decimal[k \div 10], k % 10)
    BY DecimalIs
  <2>2. CASE k < 10
    <3>1. k \in Token /\ <<k>> = Append(<<>>, k)
      BY <2>2 DEF Token
    <3>2. Number[Append(<<>>, k)] = 10 * 0 + k
      BY <3>1, NumberIs, TextTypes
    <3> QED  BY <2>1, <2>2, <3>1, <3>2
  <2>3. CASE k >= 10
    <3>1. k \div 10 \in 0..(k - 1) /\ k \div 10 \in Nat /\ k % 10 \in 0..9
          /\ k = 10 * (k \div 10) + (k % 10)
      BY <2>3, DivMod
    <3>2. Decimal[k \div 10] \in Text
      BY <3>1, DecimalIs, TextTypes
    <3>3. k % 10 \in Token
      BY <3>1 DEF Token
    <3>4. Number[Append(Decimal[k \div 10], k % 10)] = 10 * Number[Decimal[k \div 10]] + (k % 10)
      BY <3>2, <3>3, NumberIs
    <3>5. Number[Decimal[k \div 10]] = k \div 10
      BY <1>1, <3>1
    <3>6. Decimal[k] = Append(Decimal[k \div 10], k % 10)
      BY <2>1, <2>3
    <3> QED  BY <3>1, <3>4, <3>5, <3>6
  <2> QED  BY <2>2, <2>3
<1>2. Nat \subseteq T
  <2> HIDE DEF T
  <2> QED  BY <1>1, Induction
<1> QED  BY <1>2

(* The first digits of a number are a number (str::parse takes any).       *)
LEMMA DigitsOfDecimal ==
    ASSUME NEW n \in Nat, NEW k \in 1..Len(Decimal[n])
    PROVE  \E j \in Nat : SubSeq(Decimal[n], 1, k) = Decimal[j]
<1> DEFINE T == {m \in Nat : \A l \in 1..Len(Decimal[m]) :
                               \E j \in Nat : SubSeq(Decimal[m], 1, l) = Decimal[j]}
<1>1. ASSUME NEW m \in Nat, 0..(m - 1) \subseteq T PROVE m \in T
  <2> SUFFICES ASSUME NEW l \in 1..Len(Decimal[m])
               PROVE  \E j \in Nat : SubSeq(Decimal[m], 1, l) = Decimal[j]
    OBVIOUS
  <2>1. Decimal[m] \in Seq(0..9) /\ Len(Decimal[m]) \in Nat
    BY DecimalIs, LenProperties
  <2>2. CASE l = Len(Decimal[m])
    <3>1. SubSeq(Decimal[m], 1, l) = Decimal[m]
      BY <2>1, <2>2, SubSeqFull
    <3> QED  BY <3>1
  <2>3. CASE l # Len(Decimal[m]) /\ m < 10
    <3>1. Decimal[m] = <<m>>
      BY <2>3, DecimalIs
    <3>2. Len(Decimal[m]) = 1
      BY <3>1
    <3> QED  BY <2>3, <3>2
  <2>4. CASE l # Len(Decimal[m]) /\ m >= 10
    <3> DEFINE d == Decimal[m \div 10]
    <3>1. m \div 10 \in 0..(m - 1) /\ m \div 10 \in Nat /\ m % 10 \in 0..9
      BY <2>4, DivMod
    <3>2. d \in Seq(0..9)
      BY <3>1, DecimalIs
    <3>3. Decimal[m] = Append(d, m % 10)
      <4>1. Decimal[m] = IF m < 10 THEN <<m>> ELSE Append(d, m % 10)
        BY DecimalIs
      <4> HIDE DEF d
      <4> QED  BY <2>4, <4>1
    <3>4. m \div 10 \in T
      BY <1>1, <3>1
    <3> HIDE DEF d
    <3>5. Len(Decimal[m]) = Len(d) + 1 /\ Len(d) \in Nat
      BY <3>1, <3>2, <3>3, AppendProperties, LenProperties
    <3>6. l \in 1..Len(d)
      BY <2>1, <2>4, <3>5
    <3>7. Decimal[m] = d \o <<m % 10>> /\ <<m % 10>> \in Seq(0..9)
      BY <3>1, <3>2, <3>3, AppendIsConcat
    <3>8. SubSeq(Decimal[m], 1, l) = SubSeq(d, 1, l)
      BY <3>2, <3>6, <3>7, SubSeqOfConcat1
    <3> QED  BY <3>4, <3>6, <3>8 DEF d
  <2> QED  BY <2>2, <2>3, <2>4
<1>2. Nat \subseteq T
  <2> HIDE DEF T
  <2> QED  BY <1>1, Induction
<1> QED  BY <1>2

LEMMA ParseType ==
    ASSUME NEW s \in Text
    PROVE  parse_u64(s) \in Nat \cup {-1} /\ parse_u8(s) \in u8 \cup {-1}
<1>1. Number[s] \in Nat
  BY NumberIs
<1>2. parse_u64(s) \in Nat \cup {-1}
  BY <1>1 DEF parse_u64
<1>3. parse_u8(s) = IF parse_u64(s) > 255 THEN -1 ELSE parse_u64(s)
  BY DEF parse_u8
<1> QED  BY <1>2, <1>3 DEF u8

LEMMA ParseOfDecimal ==
    ASSUME NEW n \in Nat
    PROVE  parse_u64(Decimal[n]) = n /\ (n \in u8 => parse_u8(Decimal[n]) = n)
<1>1. Decimal[n] \in Seq(0..9) /\ Decimal[n] # <<>> /\ Number[Decimal[n]] = n
  BY DecimalIs, NumberOfDecimal
<1>2. Digits(Decimal[n])
  BY <1>1, ElementOfSeq, LenProperties DEF Digits
<1>3. parse_u64(Decimal[n]) = n
  BY <1>1, <1>2 DEF parse_u64
<1>4. ASSUME n \in u8 PROVE parse_u8(Decimal[n]) = n
  <2>1. ~ (n > 255)
    BY <1>4 DEF u8
  <2> QED  BY <1>3, <2>1 DEF parse_u8
<1> QED  BY <1>3, <1>4

(* What is empty or holds a token that is no digit is no number.           *)
LEMMA NoNumber ==
    ASSUME NEW s, s = <<>> \/ \E i \in DOMAIN s : s[i] \notin 0..9
    PROVE  parse_u64(s) = -1 /\ parse_u8(s) = -1
BY DEF parse_u64, parse_u8, Digits

-----------------------------------------------------------------------------
(* The pieces of a text.                                                   *)

LEMMA ConcatAppend ==
    ASSUME NEW A, NEW s \in Seq(A), NEW u \in Seq(A), NEW a \in A
    PROVE  s \o Append(u, a) = Append(s \o u, a)
<1>1. <<a>> \in Seq(A) /\ s \o u \in Seq(A)
  BY ConcatProperties
<1>2. Append(u, a) = u \o <<a>> /\ Append(s \o u, a) = (s \o u) \o <<a>>
  BY <1>1, AppendIsConcat
<1> QED  BY <1>1, <1>2, ConcatAssociative

(* Text without a separator goes to the last piece.                        *)
OnLast(p, u) == [p EXCEPT ![Len(p)] = @ \o u]

LEMMA SplitPlain ==
    ASSUME NEW separator \in Token, NEW s \in Text, NEW u \in Seq(Token \ {separator})
    PROVE  Split(s \o u, separator) = OnLast(Split(s, separator), u)
<1> DEFINE p == Split(s, separator)
           k == Len(p)
           A == Token \ {separator}
           T == {v \in Seq(A) : Split(s \o v, separator) = [p EXCEPT ![k] = p[k] \o v]}
<1>1. p \in Pieces /\ p \in Seq(Text) /\ k \in Nat \ {0} /\ p[k] \in Text
      /\ p \in [1..k -> Text] /\ k \in 1..k
  BY SplitIs, EmptySeq, LenProperties, ElementOfSeq DEF Pieces
<1>2. Seq(A) \subseteq Text
  BY SeqMonotonic DEF Text
<1> HIDE DEF p, k
<1>3. <<>> \in T
  <2>1. s \o <<>> = s /\ p[k] \o <<>> = p[k]
    BY <1>1, ConcatEmptySeq DEF Text
  <2>2. [p EXCEPT ![k] = p[k]] = p
    BY <1>1
  <2>3. Split(s \o <<>>, separator) = [p EXCEPT ![k] = p[k] \o <<>>]
    BY <2>1, <2>2 DEF p
  <2> QED  BY <2>3, EmptySeq
<1>4. ASSUME NEW v \in Seq(A), v \in T, NEW a \in A PROVE Append(v, a) \in T
  <2>1. v \in Text /\ a \in Token /\ a # separator /\ s \o v \in Text
    BY <1>2, ConcatProperties DEF Text
  <2>2. s \o Append(v, a) = Append(s \o v, a) /\ p[k] \o Append(v, a) = Append(p[k] \o v, a)
    BY <1>1, <2>1, ConcatAppend DEF Text
  <2> DEFINE q == [p EXCEPT ![k] = p[k] \o v]
  <2>3. Split(s \o Append(v, a), separator) = Extended(q, a)
    <3>1. Split(s \o v, separator) = q
      BY <1>4
    <3> HIDE DEF q
    <3>2. Split(Append(s \o v, a), separator) = Extended(Split(s \o v, separator), a)
      BY <2>1, SplitIs
    <3> QED  BY <2>2, <3>1, <3>2
  <2>4. p[k] \o v \in Text
    BY <1>1, <2>1, ConcatProperties DEF Text
  <2>5. Len(q) = k /\ q[k] = p[k] \o v
    <3>1. Len(q) = Len(p) /\ \A j \in 1..Len(p) : q[j] = IF j = k THEN p[k] \o v ELSE p[j]
      BY <1>1, <2>4, ExceptSeq DEF k
    <3> QED  BY <1>1, <3>1 DEF k
  <2>6. Extended(q, a) = [q EXCEPT ![k] = Append(p[k] \o v, a)]
    BY <2>5 DEF Extended
  <2>7. [q EXCEPT ![k] = Append(p[k] \o v, a)] = [p EXCEPT ![k] = Append(p[k] \o v, a)]
    BY <1>1
  <2>8. Append(v, a) \in Seq(A)
    BY AppendProperties
  <2> QED  BY <2>2, <2>3, <2>6, <2>7, <2>8
<1> HIDE DEF A, T
<1>5. Seq(A) \subseteq T
  BY <1>3, <1>4, SeqInduction
<1> QED  BY <1>5 DEF A, T, p, k, OnLast

LEMMA SplitPiece ==
    ASSUME NEW separator \in Token, NEW u \in Seq(Token \ {separator})
    PROVE  /\ Split(u, separator) = <<u>>
           /\ \A s \in Text :
                 Split(s \o <<separator>> \o u, separator) = Append(Split(s, separator), u)
<1>1. u \in Text /\ <<>> \in Text /\ <<>> \o u = u
  <2>1. u \in Seq(Token)
    BY SeqMonotonic
  <2> QED  BY <2>1, ConcatEmptySeq, EmptySeq DEF Text
<1>2. Split(u, separator) = <<u>>
  <2>1. Split(<<>>, separator) = << <<>> >>
    BY SplitIs
  <2>2. Split(<<>> \o u, separator) = OnLast(<< <<>> >>, u)
    <3>1. Split(<<>> \o u, separator) = OnLast(Split(<<>>, separator), u)
      BY <1>1, SplitPlain
    <3> QED  BY <2>1, <3>1
  <2>3. OnLast(<< <<>> >>, u) = << <<>> \o u >>
    BY DEF OnLast
  <2> QED  BY <1>1, <2>2, <2>3
<1>3. ASSUME NEW s \in Text
      PROVE  Split(s \o <<separator>> \o u, separator) = Append(Split(s, separator), u)
  <2> DEFINE p == Split(s, separator)
             q == Append(p, <<>>)
             k == Len(p) + 1
  <2>1. Append(s, separator) = s \o <<separator>> /\ Append(s, separator) \in Text
    BY AppendIsConcat, AppendProperties DEF Text
  <2>2. p \in Seq(Text) /\ Split(Append(s, separator), separator) = q
    BY SplitIs DEF Pieces
  <2> HIDE DEF p
  <2>3. q \in Seq(Text) /\ Len(q) = k /\ q[k] = <<>> /\ Len(p) \in Nat
        /\ \A i \in 1..Len(p) : q[i] = p[i]
    BY <1>1, <2>2, AppendProperties, LenProperties
  <2>4. Split(Append(s, separator) \o u, separator) = [q EXCEPT ![k] = u]
    <3>1. Split(Append(s, separator) \o u, separator) = OnLast(Split(Append(s, separator), separator), u)
      BY <2>1, SplitPlain
    <3> HIDE DEF q
    <3> QED  BY <1>1, <2>2, <2>3, <3>1 DEF OnLast
  <2>5. [q EXCEPT ![k] = u] = Append(p, u)
    <3> DEFINE r == [q EXCEPT ![k] = u]
    <3>1. k \in 1..Len(q)
      BY <2>3
    <3> HIDE DEF q
    <3>2. r \in Seq(Text) /\ Len(r) = Len(q)
          /\ \A j \in 1..Len(q) : r[j] = IF j = k THEN u ELSE q[j]
      BY <1>1, <2>3, <3>1, ExceptSeq
    <3>3. Append(p, u) \in Seq(Text) /\ Len(Append(p, u)) = k /\ Append(p, u)[k] = u
          /\ \A i \in 1..Len(p) : Append(p, u)[i] = p[i]
      BY <1>1, <2>2, AppendProperties
    <3> HIDE DEF r
    <3>4. \A j \in 1..Len(r) : r[j] = Append(p, u)[j]
      BY <2>3, <3>2, <3>3
    <3>5. r = Append(p, u)
      BY <2>3, <3>2, <3>3, <3>4, SeqEqual
    <3> QED  BY <3>5 DEF r, q
  <2> QED  BY <2>1, <2>4, <2>5 DEF p
<1> QED  BY <1>2, <1>3

(* u begins with t.                                                        *)
Starts(t, u) == Len(t) <= Len(u) /\ \A i \in 1..Len(t) : u[i] = t[i]

(* More text changes none of the pieces but the last, which it may make    *)
(* longer, and adds others.                                                *)
Grown(q, p) ==
    /\ Len(p) <= Len(q)
    /\ \A i \in 1..(Len(p) - 1) : q[i] = p[i]
    /\ Starts(p[Len(p)], q[Len(p)])

LEMMA SplitGrows ==
    ASSUME NEW separator \in Token, NEW s \in Text, NEW y \in Text
    PROVE  Grown(Split(s \o y, separator), Split(s, separator))
<1> DEFINE p == Split(s, separator)
           k == Len(p)
           T == {v \in Text : Grown(Split(s \o v, separator), p)}
<1>1. p \in Pieces /\ k \in Nat \ {0} /\ p[k] \in Text
  <2>1. p \in Pieces
    BY SplitIs
  <2> HIDE DEF p
  <2> QED  BY <2>1, EmptySeq, LenProperties, ElementOfSeq DEF Pieces
<1> HIDE DEF p
<1>2. <<>> \in T
  <2>1. s \o <<>> = s /\ <<>> \in Text
    BY ConcatEmptySeq, EmptySeq DEF Text
  <2>2. Len(p[k]) \in Nat
    BY <1>1, LenProperties DEF Text
  <2>3. Grown(p, p)
    BY <1>1, <2>2 DEF Grown, Starts
  <2> QED  BY <2>1, <2>3 DEF p
<1>3. ASSUME NEW v \in Text, v \in T, NEW t \in Token PROVE Append(v, t) \in T
  <2> DEFINE q == Split(s \o v, separator)
             r == Split(s \o Append(v, t), separator)
  <2>1. s \o v \in Text /\ Append(v, t) \in Text /\ s \o Append(v, t) = Append(s \o v, t)
    BY ConcatProperties, AppendProperties, ConcatAppend DEF Text
  <2>2. q \in Pieces /\ r = IF t = separator THEN Append(q, <<>>) ELSE Extended(q, t)
    BY <2>1, SplitIs
  <2>3. Grown(q, p)
    BY <1>3
  <2> HIDE DEF q, r
  <2>4. q \in Seq(Text) /\ Len(q) \in Nat \ {0} /\ q[Len(q)] \in Text /\ k <= Len(q)
        /\ \A i \in 1..Len(q) : q[i] \in Text
    BY <2>2, <2>3, EmptySeq, LenProperties, ElementOfSeq DEF Pieces, Grown
  <2>5. CASE t = separator
    <3>1. r = Append(q, <<>>) /\ <<>> \in Text
      BY <2>2, <2>5, EmptySeq DEF Text
    <3>2. Len(r) = Len(q) + 1 /\ \A i \in 1..Len(q) : r[i] = q[i]
      BY <2>4, <3>1, AppendProperties
    <3>3. r[k] = q[k] /\ \A i \in 1..(k - 1) : r[i] = q[i]
      BY <1>1, <2>4, <3>2
    <3>4. Grown(r, p)
      BY <1>1, <2>3, <2>4, <3>2, <3>3 DEF Grown
    <3> QED  BY <2>1, <3>4 DEF r
  <2>6. CASE t # separator
    <3>1. r = Extended(q, t)
      BY <2>2, <2>6
    <3>2. /\ Len(r) = Len(q) /\ r[Len(q)] = Append(q[Len(q)], t)
          /\ \A i \in 1..(Len(q) - 1) : r[i] = q[i]
      BY <2>2, <3>1, ExtendedType
    <3>3. \A i \in 1..(k - 1) : r[i] = q[i]
      BY <1>1, <2>4, <3>2
    <3>4. Starts(p[k], r[k])
      <4>1. CASE k # Len(q)
        <5>1. r[k] = q[k]
          BY <1>1, <2>4, <3>2, <4>1
        <5> QED  BY <2>3, <5>1 DEF Grown
      <4>2. CASE k = Len(q)
        <5> DEFINE u == q[k]
        <5>1. u \in Text /\ Starts(p[k], u) /\ r[k] = Append(u, t)
          BY <2>3, <2>4, <3>2, <4>2 DEF Grown
        <5> HIDE DEF u
        <5>2. Len(u) \in Nat /\ Len(p[k]) \in Nat /\ Len(r[k]) = Len(u) + 1
              /\ \A i \in 1..Len(u) : r[k][i] = u[i]
          BY <1>1, <5>1, AppendProperties, LenProperties DEF Text
        <5> QED  BY <5>1, <5>2 DEF Starts
      <4> QED  BY <4>1, <4>2
    <3>5. Grown(r, p)
      BY <1>1, <2>3, <2>4, <3>2, <3>3, <3>4 DEF Grown
    <3> QED  BY <2>1, <3>5 DEF r
  <2> QED  BY <2>5, <2>6
<1> HIDE DEF T
<1>4. Text \subseteq T
  BY <1>2, <1>3, SeqInduction DEF Text
<1> QED  BY <1>4 DEF T, p

(* What begins with t is t with something behind it.                       *)
LEMMA StartsIs ==
    ASSUME NEW A, NEW t \in Seq(A), NEW u \in Seq(A)
    PROVE  /\ Starts(t, u) => \E y \in Seq(A) : u = t \o y
           /\ Starts(t, u) => t = SubSeq(u, 1, Len(t))
           /\ Starts(t, u) /\ Len(t) = Len(u) => t = u
           /\ Starts(t, u) <=> IsPrefix(t, u)
<1>1. Len(t) \in Nat /\ Len(u) \in Nat
  BY LenProperties
<1>2. ASSUME Len(t) <= Len(u)
      PROVE  /\ SubSeq(u, 1, Len(t)) \in Seq(A) /\ Len(SubSeq(u, 1, Len(t))) = Len(t)
             /\ \A i \in 1..Len(t) : SubSeq(u, 1, Len(t))[i] = u[i]
  <2>1. \A i \in 1..Len(t) : u[i] \in A
    BY <1>1, <1>2, ElementOfSeq
  <2>2. \A i \in 1..Len(t) : 1 + i - 1 = i
    BY <1>1
  <2> QED  BY <1>1, <2>1, <2>2, SubSeqProperties
<1>3. SubSeq(t, 1, Len(t)) = t
  BY SubSeqFull
<1>4. Starts(t, u) => t = SubSeq(u, 1, Len(t))
  BY <1>1, <1>2, SeqEqual DEF Starts
<1>5. Starts(t, u) <=> IsPrefix(t, u)
  BY <1>1, <1>2, <1>3, <1>4 DEF Starts, IsPrefix
<1>6. Starts(t, u) /\ Len(t) = Len(u) => t = u
  BY SeqEqual DEF Starts
<1>7. ASSUME Starts(t, u) PROVE \E y \in Seq(A) : u = t \o y
  <2> DEFINE y == SubSeq(u, Len(t) + 1, Len(u))
  <2>1. SubSeq(u, 1, Len(t)) \o SubSeq(u, Len(t) + 1, Len(u)) = SubSeq(u, 1, Len(u))
    <3>1. 1 \in 1..(Len(u) + 1) /\ Len(t) \in (1 - 1)..Len(u) /\ Len(u) \in Len(t)..Len(u)
      BY <1>1, <1>7 DEF Starts
    <3> QED  BY <3>1, ConcatAdjacentSubSeq
  <2>2. y \in Seq(A)
    <3>1. \A i \in (Len(t) + 1)..Len(u) : u[i] \in A
      BY <1>1, ElementOfSeq
    <3> QED  BY <1>1, <3>1, SubSeqProperties
  <2> QED  BY <1>4, <1>7, <2>1, <2>2, SubSeqFull
<1> QED  BY <1>4, <1>5, <1>6, <1>7

LEMMA StartsConcat ==
    ASSUME NEW A, NEW u \in Seq(A), NEW s \in Seq(A), NEW t \in Seq(A), Starts(u, s \o t)
    PROVE  Starts(u, s) \/ \E w \in Seq(A) : u = s \o w /\ Starts(w, t)
<1>1. /\ Len(u) \in Nat /\ Len(s) \in Nat /\ Len(t) \in Nat /\ s \o t \in Seq(A)
      /\ Len(s \o t) = Len(s) + Len(t)
      /\ \A i \in 1..Len(s) : (s \o t)[i] = s[i]
      /\ \A i \in 1..Len(t) : (s \o t)[Len(s) + i] = t[i]
  <2>1. Len(u) \in Nat /\ Len(s) \in Nat /\ Len(t) \in Nat
    BY LenProperties
  <2>2. s \o t \in Seq(A) /\ Len(s \o t) = Len(s) + Len(t)
        /\ \A i \in 1..(Len(s) + Len(t)) : (s \o t)[i] = IF i <= Len(s) THEN s[i] ELSE t[i - Len(s)]
    BY ConcatProperties
  <2> QED  BY <2>1, <2>2
<1>2. CASE Len(u) <= Len(s)
  <2>1. \A i \in 1..Len(u) : (s \o t)[i] = s[i]
    BY <1>1, <1>2
  <2>2. \A i \in 1..Len(u) : (s \o t)[i] = u[i]
    BY DEF Starts
  <2>3. Starts(u, s)
    BY <1>2, <2>1, <2>2 DEF Starts
  <2> QED  BY <2>3
<1>3. CASE Len(u) > Len(s)
  <2>1. Starts(s, u)
    BY <1>1, <1>3 DEF Starts
  <2>2. PICK w \in Seq(A) : u = s \o w
    BY <2>1, StartsIs
  <2>3. Len(w) \in Nat /\ Len(u) = Len(s) + Len(w) /\ \A i \in 1..Len(w) : u[Len(s) + i] = w[i]
    <3>1. Len(w) \in Nat
      BY LenProperties
    <3>2. Len(u) = Len(s) + Len(w)
          /\ \A i \in 1..(Len(s) + Len(w)) : u[i] = IF i <= Len(s) THEN s[i] ELSE w[i - Len(s)]
      BY <2>2, ConcatProperties
    <3> QED  BY <1>1, <3>1, <3>2
  <2>4. Len(w) <= Len(t)
    BY <1>1, <2>3 DEF Starts
  <2>5. ASSUME NEW i \in 1..Len(w) PROVE t[i] = w[i]
    <3>1. Len(s) + i \in 1..Len(u) /\ i \in 1..Len(t)
      BY <1>1, <2>3, <2>4
    <3>2. (s \o t)[Len(s) + i] = u[Len(s) + i]
      BY <3>1 DEF Starts
    <3> QED  BY <1>1, <2>3, <3>1, <3>2
  <2>6. Starts(w, t)
    BY <2>4, <2>5 DEF Starts
  <2> QED  BY <2>2, <2>6
<1>4. Len(u) \in Nat /\ Len(s) \in Nat
  BY <1>1
<1> QED  BY <1>2, <1>3, <1>4

-----------------------------------------------------------------------------
(* Buttons.                                                                *)

LEMMA ButtonIs ==
    ASSUME NEW b \in Calls
    PROVE  /\ Button(b) \in Seq(Plain) /\ Button(b) \in Text
           /\ Button(b) \in Seq(Token \ {Semicolon})
           /\ Split(Button(b), Comma) = <<Decimal[b[1]], Decimal[b[2]]>>
           /\ b[1] \in u8 /\ b[2] \in 0..2 /\ b = <<b[1], b[2]>>
<1>1. b[1] \in u8 /\ b[2] \in 0..2 /\ b = <<b[1], b[2]>> /\ b[1] \in Nat /\ b[2] \in Nat
  BY DEF Calls, u8
<1> DEFINE d == Decimal[b[1]]
           e == Decimal[b[2]]
           N == (0..9) \cup {Comma}
<1>2. d \in Seq(0..9) /\ e \in Seq(0..9)
  BY <1>1, DecimalIs
<1>3. Button(b) = d \o <<Comma>> \o e
  BY DEF Button
<1> HIDE DEF d, e
<1>4. Button(b) \in Seq(N)
  <2>1. d \in Seq(N) /\ e \in Seq(N) /\ <<Comma>> \in Seq(N)
    BY <1>2, SeqMonotonic
  <2> HIDE DEF N
  <2>2. d \o <<Comma>> \in Seq(N)
    BY <2>1, ConcatProperties
  <2> QED  BY <1>3, <2>1, <2>2, ConcatProperties
<1>5. N \subseteq Plain /\ N \subseteq Token /\ N \subseteq Token \ {Semicolon}
  BY DEF Comma, Semicolon, Token, Plain, Bar
<1>6. /\ Button(b) \in Seq(Plain) /\ Button(b) \in Text
      /\ Button(b) \in Seq(Token \ {Semicolon})
  <2> HIDE DEF N
  <2> QED  BY <1>4, <1>5, SeqMonotonic DEF Text
<1>7. Split(Button(b), Comma) = <<d, e>>
  <2>1. d \in Seq(Token \ {Comma}) /\ e \in Seq(Token \ {Comma}) /\ d \in Text
    <3>1. 0..9 \subseteq Token \ {Comma}
      BY DEF Token, Comma
    <3> QED  BY <1>2, <3>1, SeqMonotonic, TextTypes
  <2>2. Split(d, Comma) = <<d>>
    BY <2>1, SplitPiece, TextTypes
  <2>3. Split(d \o <<Comma>> \o e, Comma) = Append(Split(d, Comma), e)
    BY <2>1, SplitPiece, TextTypes
  <2> QED  BY <1>3, <2>2, <2>3
<1> QED  BY <1>1, <1>6, <1>7 DEF d, e

(* The numbers of a button.                                                *)
Numbers(u) == LET b == Split(u, Comma) IN <<parse_u8(b[1]), parse_u8(b[2])>>

(* A button that is cut off is not two numbers, or it is the button, since *)
(* its type is one digit.                                                  *)
LEMMA CutButton ==
    ASSUME NEW b \in Calls, NEW u \in Text, Starts(u, Button(b))
    PROVE  /\ IsButton(u) => Numbers(u) = b
           /\ u = Button(b) => IsButton(u)
<1> DEFINE p == Split(u, Comma)
           d == Decimal[b[1]]
           e == Decimal[b[2]]
<1>1. /\ Button(b) \in Text /\ Split(Button(b), Comma) = <<d, e>>
      /\ b[1] \in u8 /\ b[2] \in 0..2 /\ b = <<b[1], b[2]>>
  BY ButtonIs
<1>2. parse_u8(d) = b[1] /\ parse_u8(e) = b[2] /\ b[1] # -1 /\ b[2] # -1
  <2>1. b[1] \in Nat /\ b[2] \in Nat /\ b[2] \in u8 /\ b[1] # -1 /\ b[2] # -1
    BY <1>1 DEF u8
  <2> QED  BY <1>1, <2>1, ParseOfDecimal
<1>3. e = <<b[2]>>
  <2>1. b[2] \in Nat /\ b[2] < 10
    BY <1>1
  <2> QED  BY <2>1, DecimalIs
<1>4. Grown(<<d, e>>, p)
  <2>1. PICK y \in Text : Button(b) = u \o y
    BY <1>1, StartsIs DEF Text
  <2>2. Grown(Split(u \o y, Comma), Split(u, Comma))
    BY SplitGrows, TextTypes
  <2> QED  BY <1>1, <2>1, <2>2
<1>5. p \in Seq(Text)
  BY SplitIs, TextTypes DEF Pieces
<1> HIDE DEF p, d, e
<1>6. ASSUME IsButton(u) PROVE Numbers(u) = b
  <2>1. Len(p) = 2 /\ parse_u8(p[2]) # -1
    BY <1>6 DEF IsButton, p
  <2>2. p[1] = d /\ Starts(p[2], e)
    BY <1>4, <2>1 DEF Grown
  <2>3. PICK v \in Text : v = p[2] /\ v # <<>>
    BY <1>5, <2>1, ElementOfSeq, NoNumber
  <2>4. e \in Text /\ Len(e) = 1
    <3>1. b[2] \in Token
      BY <1>1 DEF Token
    <3> QED  BY <1>3, <3>1 DEF Text
  <2>5. v = e
    <3>1. Len(v) \in Nat \ {0} /\ Len(v) <= Len(e)
      BY <2>2, <2>3, EmptySeq DEF Text, Starts
    <3>2. Len(v) = Len(e)
      BY <2>4, <3>1
    <3> QED  BY <2>2, <2>3, <2>4, <3>2, StartsIs DEF Text
  <2> QED  BY <1>1, <1>2, <2>2, <2>3, <2>5 DEF Numbers, p
<1>7. ASSUME u = Button(b) PROVE IsButton(u)
  <2>1. p = <<d, e>>
    BY <1>1, <1>7 DEF p, d, e
  <2> QED  BY <1>2, <2>1 DEF IsButton, p
<1> QED  BY <1>6, <1>7

LEMMA ButtonsIs ==
    /\ Buttons[<<>>] = <<>>
    /\ \A p \in Seq(Text), u \in Text :
          Buttons[Append(p, u)] = IF IsButton(u) THEN Append(Buttons[p], Numbers(u)) ELSE Buttons[p]
<1> DEFINE V == Seq(u8 \X u8)
           Next1(q, u) == IF IsButton(u) THEN Append(q, Numbers(u)) ELSE q
           step == [x \in Seq(Text) \X V \X Text |-> Next1(x[2], x[3])]
<1>0. <<>> \in V /\ <<>> \in Seq(Text)
  OBVIOUS
<1>1. ASSUME NEW q \in V, NEW u \in Text PROVE Next1(q, u) \in V
  <2>1. CASE IsButton(u)
    <3>1. Numbers(u) \in u8 \X u8
      <4> DEFINE b == Split(u, Comma)
      <4>1. b \in Seq(Text)
        BY SplitIs, TextTypes DEF Pieces
      <4>2. Len(b) = 2 /\ parse_u8(b[1]) # -1 /\ parse_u8(b[2]) # -1
        BY <2>1 DEF IsButton
      <4> HIDE DEF b
      <4>3. b[1] \in Text /\ b[2] \in Text
        <5>1. 1 \in 1..Len(b) /\ 2 \in 1..Len(b)
          BY <4>2
        <5> QED  BY <4>1, <5>1, ElementOfSeq
      <4>4. parse_u8(b[1]) \in u8 /\ parse_u8(b[2]) \in u8
        BY <4>2, <4>3, ParseType
      <4> QED  BY <4>4 DEF Numbers, b
    <3> HIDE DEF V
    <3>2. Append(q, Numbers(u)) \in V
      BY <3>1, AppendProperties DEF V
    <3> QED  BY <2>1, <3>2
  <2>2. CASE ~ IsButton(u)
    BY <2>2
  <2> QED  BY <2>1, <2>2
<1> HIDE DEF Next1
<1>2. PICK f \in [Seq(Text) -> V] :
         \A p \in Seq(Text) : f[p] = IF p = <<>> THEN <<>>
                                     ELSE step[<<Front(p), f[Front(p)], Last(p)>>]
  <2>1. step \in [Seq(Text) \X V \X Text -> V]
    BY <1>1
  <2> HIDE DEF step, V
  <2>2. \E f \in [Seq(Text) -> V] : Recurses(Text, <<>>, step, f)
    BY <1>0, <2>1, SeqRecursion, Zenon
  <2> QED  BY <2>2 DEF Recurses
<1>3. \A p \in Seq(Text) : p # <<>> => Front(p) \in Seq(Text) /\ Last(p) \in Text
  BY FrontLast
<1>4. f = [p \in Seq(Text) |-> IF p = <<>> THEN <<>> ELSE Next1(f[Front(p)], Last(p))]
  <2> HIDE DEF V
  <2>1. \A p \in Seq(Text) : f[p] = IF p = <<>> THEN <<>> ELSE Next1(f[Front(p)], Last(p))
    BY <1>2, <1>3
  <2> QED  BY <1>2, <2>1
<1>5. Buttons = [p \in Seq(Text) |-> IF p = <<>> THEN <<>> ELSE Next1(Buttons[Front(p)], Last(p))]
  <2>1. \E g : g = [p \in Seq(Text) |-> IF p = <<>> THEN <<>> ELSE Next1(g[Front(p)], Last(p))]
    BY <1>4, Zenon
  <2> QED  BY <2>1, Zenon DEF Buttons, Next1, Numbers
<1>6. Buttons[<<>>] = <<>>
  BY <1>0, <1>5
<1>7. ASSUME NEW p \in Seq(Text), NEW u \in Text
      PROVE  Buttons[Append(p, u)] = Next1(Buttons[p], u)
  <2>1. /\ Append(p, u) \in Seq(Text) /\ Append(p, u) # <<>>
        /\ Front(Append(p, u)) = p /\ Last(Append(p, u)) = u
    BY AppendProperties, FrontLastOfAppend
  <2> QED  BY <1>5, <2>1
<1> QED  BY <1>6, <1>7 DEF Next1

(* From a beginning of the text of a queue the queue's first buttons are   *)
(* read, from all of it the queue.                                         *)
LEMMA LastButton ==
    ASSUME NEW q \in Seq(Calls), NEW b \in Calls, NEW p \in Seq(Text), Buttons[p] = q,
           NEW u \in Text, Starts(u, Button(b))
    PROVE  /\ Buttons[Append(p, u)] \in {q, Append(q, b)}
           /\ u = Button(b) => Buttons[Append(p, u)] = Append(q, b)
<1>1. Buttons[Append(p, u)] = IF IsButton(u) THEN Append(q, Numbers(u)) ELSE q
  BY ButtonsIs
<1> QED  BY <1>1, CutButton

LEMMA StartsSelf ==
    ASSUME NEW A, NEW q \in Seq(A)
    PROVE  Starts(q, q) /\ Starts(<<>>, q) /\ \A b \in A : Starts(q, Append(q, b))
<1>1. /\ Len(q) \in Nat /\ Len(<<>>) = 0
      /\ \A b \in A : /\ Len(Append(q, b)) = Len(q) + 1
                      /\ \A i \in 1..Len(q) : Append(q, b)[i] = q[i]
  BY LenProperties, AppendProperties
<1> QED  BY <1>1 DEF Starts

LEMMA StartsTransitive ==
    ASSUME NEW A, NEW q \in Seq(A), NEW s \in Seq(A), NEW t \in Seq(A), Starts(q, s), Starts(s, t)
    PROVE  Starts(q, t)
<1>1. Len(q) \in Nat /\ Len(s) \in Nat /\ Len(t) \in Nat
  BY LenProperties
<1> QED  BY <1>1 DEF Starts

LEMMA QueueIs ==
    ASSUME NEW q \in Seq(Calls)
    PROVE  /\ Join[q] \in Seq(Plain) /\ Join[q] \in Text
           /\ buttons_from(Join[q]) = q
           /\ \A u \in Text : Starts(u, Join[q]) =>
                 buttons_from(u) \in Seq(Calls) /\ Starts(buttons_from(u), q)
<1> DEFINE Read1(r, u) == buttons_from(u) \in Seq(Calls) /\ Starts(buttons_from(u), r)
           Good(r) == /\ buttons_from(Join[r]) = r
                      /\ \A u \in Text : Starts(u, Join[r]) => Read1(r, u)
           T == {r \in Seq(Calls) : Good(r)}
<1>1. /\ Join[<<>>] = <<>> /\ \A r \in Seq(Calls) : Join[r] \in Seq(Plain) /\ Join[r] \in Text
      /\ \A r \in Seq(Calls), b \in Calls :
            Join[Append(r, b)] = IF r = <<>> THEN Button(b)
                                 ELSE Join[r] \o <<Semicolon>> \o Button(b)
  BY JoinIs, ButtonIs, TextTypes
<1>2. <<>> \in T
  <2>1. buttons_from(<<>>) = <<>>
    <3>1. Split(<<>>, Semicolon) = << <<>> >> /\ Split(<<>>, Comma) = << <<>> >>
      BY SplitIs, TextTypes
    <3>2. ~ IsButton(<<>>)
      BY <3>1 DEF IsButton
    <3>3. << <<>> >> = Append(<<>>, <<>>) /\ <<>> \in Seq(Text)
      OBVIOUS
    <3>4. Buttons[Append(<<>>, <<>>)] = <<>>
      BY <3>2, <3>3, ButtonsIs, TextTypes
    <3> QED  BY <3>1, <3>3, <3>4 DEF buttons_from
  <2>2. ASSUME NEW u \in Text, Starts(u, <<>>) PROVE u = <<>>
    <3>1. Len(u) \in Nat /\ Len(<<>>) = 0 /\ Len(u) <= Len(<<>>)
      BY <2>2, LenProperties DEF Starts, Text
    <3> QED  BY <3>1, EmptySeq DEF Text
  <2>3. <<>> \in Seq(Calls) /\ Starts(<<>>, <<>>)
    BY DEF Starts
  <2>4. \A u \in Text : Starts(u, Join[<<>>]) => Read1(<<>>, u)
    BY <1>1, <2>1, <2>2, <2>3
  <2> QED  BY <1>1, <2>1, <2>3, <2>4
<1>3. ASSUME NEW r \in Seq(Calls), r \in T, NEW b \in Calls PROVE Append(r, b) \in T
  <2> DEFINE s == Append(r, b)
  <2>1. s \in Seq(Calls) /\ Button(b) \in Text /\ Button(b) \in Seq(Token \ {Semicolon})
        /\ Starts(r, s) /\ Starts(s, s) /\ Starts(Button(b), Button(b))
    <3>1. s \in Seq(Calls) /\ Starts(r, s)
      BY AppendProperties, StartsSelf
    <3>2. Button(b) \in Text /\ Button(b) \in Seq(Token \ {Semicolon})
      BY ButtonIs
    <3> HIDE DEF s
    <3> QED  BY <3>1, <3>2, StartsSelf DEF Text
  <2>2. \A u \in Text : buttons_from(u) \in {r, s} => Read1(s, u)
    BY <2>1
  <2>3. \A w \in Text : Starts(w, Button(b)) => w \in Seq(Token \ {Semicolon})
    <3> SUFFICES ASSUME NEW w \in Text, Starts(w, Button(b)), NEW i \in 1..Len(w)
                 PROVE  w[i] \in Token \ {Semicolon}
      <4>1. \A w \in Text : w = [i \in 1..Len(w) |-> w[i]] /\ Len(w) \in Nat
        BY LenProperties DEF Text
      <4> QED  BY <4>1, IsASeq
    <3>1. w[i] = Button(b)[i] /\ i \in 1..Len(Button(b))
      BY <2>1, LenProperties DEF Starts, Text
    <3> QED  BY <2>1, <3>1, ElementOfSeq
  <2>4. CASE r = <<>>
    <3>1. Join[s] = Button(b)
      BY <1>1, <2>4
    <3>2. ASSUME NEW u \in Text, Starts(u, Button(b))
          PROVE  /\ buttons_from(u) \in {r, s}
                 /\ u = Button(b) => buttons_from(u) = s
      <4>1. Split(u, Semicolon) = <<u>> /\ <<u>> = Append(<<>>, u)
        <5>1. u \in Seq(Token \ {Semicolon})
          BY <2>3, <3>2
        <5>2. Split(u, Semicolon) = <<u>>
          BY <5>1, SplitPiece, TextTypes
        <5>3. <<u>> = Append(<<>>, u)
          OBVIOUS
        <5> QED  BY <5>2, <5>3
      <4>2. <<>> \in Seq(Text) /\ Buttons[<<>>] = r
        BY <2>4, ButtonsIs
      <4>3. /\ Buttons[Append(<<>>, u)] \in {r, s}
            /\ u = Button(b) => Buttons[Append(<<>>, u)] = s
        BY <3>2, <4>2, LastButton
      <4> QED  BY <4>1, <4>3 DEF buttons_from
    <3> HIDE DEF s
    <3>3. Good(s)
      BY <2>1, <2>2, <3>1, <3>2
    <3> QED  BY <2>1, <3>3 DEF s
  <2>5. CASE r # <<>>
    <3> DEFINE j == Join[r]
               t == j \o <<Semicolon>>
    <3>1. Join[s] = t \o Button(b)
      BY <1>1, <2>5
    <3>2. j \in Text /\ <<Semicolon>> \in Text /\ t \in Text /\ buttons_from(j) = r
      <4>1. j \in Text /\ buttons_from(j) = r
        BY <1>1, <1>3
      <4>2. <<Semicolon>> \in Text
        BY TextTypes DEF Text
      <4> HIDE DEF j
      <4> QED  BY <4>1, <4>2, ConcatProperties DEF Text
    <3> HIDE DEF s
    <3>3. ASSUME NEW w \in Text, Starts(w, Button(b))
          PROVE  /\ buttons_from(t \o w) \in {r, s}
                 /\ w = Button(b) => buttons_from(t \o w) = s
      <4>1. Split(t \o w, Semicolon) = Append(Split(j, Semicolon), w)
        BY <2>3, <3>2, <3>3, SplitPiece, TextTypes
      <4>2. Split(j, Semicolon) \in Seq(Text) /\ Buttons[Split(j, Semicolon)] = r
        BY <3>2, SplitIs, TextTypes DEF buttons_from, Pieces
      <4> HIDE DEF t, j
      <4>3. /\ Buttons[Append(Split(j, Semicolon), w)] \in {r, s}
            /\ w = Button(b) => Buttons[Append(Split(j, Semicolon), w)] = s
        BY <3>3, <4>2, LastButton DEF s
      <4> QED  BY <4>1, <4>3 DEF buttons_from
    <3>4. ASSUME NEW u \in Text, Starts(u, t \o Button(b)) PROVE Read1(s, u)
      <4>1. CASE Starts(u, j)
        <5>1. buttons_from(u) \in Seq(Calls) /\ Starts(buttons_from(u), r)
          BY <1>3, <4>1
        <5> QED  BY <2>1, <5>1, StartsTransitive
      <4>2. CASE \E w \in Text : u = t \o w /\ Starts(w, Button(b))
        BY <2>2, <3>3, <4>2
      <4>3. CASE \E w \in Text : u = j \o w /\ Starts(w, <<Semicolon>>)
        <5>1. PICK w \in Text : u = j \o w /\ Starts(w, <<Semicolon>>)
          BY <4>3
        <5>2. CASE w = <<>>
          <6>1. u = j
            BY <3>2, <5>1, <5>2, ConcatEmptySeq DEF Text
          <6>2. buttons_from(u) = r
            BY <3>2, <6>1
          <6> QED  BY <2>2, <6>2
        <5>3. CASE w # <<>>
          <6>1. Len(w) \in Nat \ {0} /\ Len(w) <= 1
            BY <5>1, <5>3, EmptySeq DEF Starts, Text
          <6>2. Len(w) = Len(<<Semicolon>>)
            <7>1. Len(<<Semicolon>>) = 1
              OBVIOUS
            <7>2. \A n \in Nat \ {0} : n <= 1 => n = 1
              OBVIOUS
            <7>3. Len(w) = 1
              BY <6>1, <7>2, Zenon
            <7> QED  BY <7>1, <7>3
          <6>3. w = <<Semicolon>>
            BY <3>2, <5>1, <6>2, StartsIs DEF Text
          <6>4. u = t \o <<>> /\ <<>> \in Text
            BY <3>2, <5>1, <6>3, ConcatEmptySeq, TextTypes DEF Text
          <6>5. Starts(<<>>, Button(b))
            BY <2>1, LenProperties DEF Starts, Text
          <6> QED  BY <2>2, <3>3, <6>4, <6>5
        <5> QED  BY <5>2, <5>3
      <4> HIDE DEF Read1
      <4>4. Starts(u, t) \/ \E w \in Text : u = t \o w /\ Starts(w, Button(b))
        BY <2>1, <3>2, <3>4, StartsConcat DEF Text
      <4>5. Starts(u, t) => Starts(u, j) \/ \E w \in Text : u = j \o w /\ Starts(w, <<Semicolon>>)
        <5> HIDE DEF j
        <5> QED  BY <3>2, StartsConcat DEF Text
      <4> QED  BY <4>1, <4>2, <4>3, <4>4, <4>5
    <3>5. Good(s)
      <4>1. buttons_from(Join[s]) = s
        BY <2>1, <3>1, <3>3
      <4> QED  BY <3>1, <3>4, <4>1
    <3> QED  BY <2>1, <3>5 DEF s
  <2> QED  BY <2>4, <2>5
<1> HIDE DEF T
<1>4. Seq(Calls) \subseteq T
  BY <1>2, <1>3, SeqInduction
<1> QED  BY <1>1, <1>4 DEF T

-----------------------------------------------------------------------------
(* Messages.                                                               *)

HallCalls == [kind : {"HALL"}, floor : u8, direction : u8, timestamp : Nat]
States == [kind : {"STATE"}, id : Nat, floor : u8, direction : u8,
           call_buttons : Seq(Calls), is_obstructed : BOOLEAN]
CompletedCalls == [kind : {"COMPLETED"}, floor : u8, direction : 0..2]

LEMMA Kinds ==
    ASSUME NEW m \in ElevatorMessage
    PROVE  m \in HallCalls \/ m \in States \/ m \in CompletedCalls
BY MessagesAssumption, Zenon DEF HallCalls, States, CompletedCalls, Calls

(* A word begins with one of these, and no other token of a message is one.*)
Heads == {20, 22, 24}

Headed(s) == s \in Text /\ s # <<>> /\ s[1] \in Heads /\ \A i \in 2..Len(s) : s[i] \notin Heads

LEMMA WordIs ==
    ASSUME NEW w \in {HallWord, StateWord, CompletedWord}
    PROVE  Headed(w) /\ Split(w, Bar) = <<w>>
<1>1. w \in Seq(Token \ {Bar}) /\ Len(w) = 2 /\ w[1] \in Heads /\ w[2] \notin Heads
  <2>1. PICK x \in Heads : w = <<x, x + 1>>
    BY DEF HallWord, StateWord, CompletedWord, Heads
  <2>2. x \in Token \ {Bar} /\ x + 1 \in Token \ {Bar} /\ x + 1 \notin Heads
    BY DEF Heads, Token, Bar
  <2> QED  BY <2>1, <2>2
<1>2. w \in Text /\ w # <<>>
  <2>1. w \in Seq(Token)
    BY <1>1, SeqMonotonic
  <2> QED  BY <1>1, <2>1, EmptySeq DEF Text
<1>3. \A i \in 2..Len(w) : i = 2
  BY <1>1
<1>4. Split(w, Bar) = <<w>>
  BY <1>1, SplitPiece, TextTypes
<1> QED  BY <1>1, <1>2, <1>3, <1>4 DEF Headed

(* One more field of a message.                                            *)
LEMMA FieldIs ==
    ASSUME NEW s, Headed(s), NEW u \in Seq(Plain)
    PROVE  /\ Headed(s \o <<Bar>> \o u)
           /\ Split(s \o <<Bar>> \o u, Bar) = Append(Split(s, Bar), u)
<1> DEFINE t == <<Bar>> \o u
           r == s \o t
<1>1. s \in Text /\ u \in Text /\ <<Bar>> \in Text /\ u \in Seq(Token \ {Bar})
  BY TextTypes DEF Headed, Text
<1>2. Split(s \o <<Bar>> \o u, Bar) = Append(Split(s, Bar), u)
  BY <1>1, SplitPiece, TextTypes
<1>3. t \in Seq(0..12)
  <2>1. u \in Seq(0..12) /\ <<Bar>> \in Seq(0..12)
    BY SeqMonotonic DEF Plain, Bar
  <2> QED  BY <2>1, ConcatProperties
<1>4. s \o <<Bar>> \o u = r /\ t \in Text
  BY <1>1, ConcatAssociative, ConcatProperties DEF Text
<1> HIDE DEF t
<1>5. Len(s) \in Nat \ {0} /\ Len(t) \in Nat
  BY <1>1, <1>4, EmptySeq, LenProperties DEF Headed, Text
<1>6. /\ r \in Text /\ Len(r) = Len(s) + Len(t)
      /\ \A i \in 1..(Len(s) + Len(t)) : r[i] = IF i <= Len(s) THEN s[i] ELSE t[i - Len(s)]
  BY <1>1, <1>4, ConcatProperties DEF Text
<1> HIDE DEF r
<1>7. r[1] = s[1] /\ r # <<>>
  BY <1>5, <1>6, EmptySeq
<1>8. ASSUME NEW i \in 2..Len(r) PROVE r[i] \notin Heads
  <2>1. CASE i <= Len(s)
    BY <1>5, <1>6, <2>1 DEF Headed
  <2>2. CASE i > Len(s)
    <3>1. i - Len(s) \in 1..Len(t) /\ r[i] = t[i - Len(s)]
      BY <1>5, <1>6, <2>2
    <3>2. t[i - Len(s)] \in 0..12
      BY <1>3, <3>1, ElementOfSeq
    <3>3. \A x \in 0..12 : x \notin Heads
      BY DEF Heads
    <3> QED  BY <3>1, <3>2, <3>3, Zenon
  <2> QED  BY <1>5, <2>1, <2>2
<1>9. Headed(r)
  BY <1>6, <1>7, <1>8 DEF Headed
<1> QED  BY <1>2, <1>4, <1>9

LEMMA PlainDecimal ==
    ASSUME NEW n \in Nat
    PROVE  Decimal[n] \in Seq(Plain)
BY DecimalIs, TextTypes

(* One field after another.                                                *)
Longer(p, u, t) ==
    /\ p \in Seq(Text) /\ t \in Seq(Text) /\ Len(t) = Len(p) + 1
    /\ t[Len(p) + 1] = u /\ \A i \in 1..Len(p) : t[i] = p[i]

LEMMA Appended ==
    ASSUME NEW p, NEW u \in Text, NEW t, Longer(p, u, t)
    PROVE  Append(p, u) = t
<1>1. /\ p \in Seq(Text) /\ t \in Seq(Text) /\ Len(t) = Len(p) + 1
      /\ t[Len(p) + 1] = u /\ \A i \in 1..Len(p) : t[i] = p[i]
  BY DEF Longer
<1>2. Append(p, u) \in Seq(Text) /\ Len(Append(p, u)) = Len(p) + 1
  BY <1>1, AppendProperties
<1>3. ASSUME NEW i \in 1..Len(t) PROVE Append(p, u)[i] = t[i]
  BY <1>1, AppendProperties, LenProperties
<1> QED  BY <1>1, <1>2, <1>3, SeqEqual

LEMMA TwoFields ==
    ASSUME NEW w \in Text, NEW a \in Text
    PROVE  Append(<<w>>, a) = <<w, a>>
<1>1. Longer(<<w>>, a, <<w, a>>)
  <2> DEFINE p == <<w>>
             t == <<w, a>>
  <2>1. p \in Seq(Text) /\ t \in Seq(Text)
    OBVIOUS
  <2>2. Len(p) = 1 /\ Len(t) = 1 + 1 /\ t[1 + 1] = a
    OBVIOUS
  <2>3. \A i \in 1..1 : t[i] = p[i]
    OBVIOUS
  <2> QED  BY <2>1, <2>2, <2>3, Zenon DEF Longer
<1> QED  BY <1>1, Appended, Zenon

LEMMA ThreeFields ==
    ASSUME NEW w \in Text, NEW a \in Text, NEW b \in Text
    PROVE  Append(<<w, a>>, b) = <<w, a, b>>
<1>1. Longer(<<w, a>>, b, <<w, a, b>>)
  <2> DEFINE p == <<w, a>>
             t == <<w, a, b>>
  <2>1. p \in Seq(Text) /\ t \in Seq(Text)
    OBVIOUS
  <2>2. Len(p) = 2 /\ Len(t) = 2 + 1 /\ t[2 + 1] = b
    OBVIOUS
  <2>3. \A i \in 1..2 : t[i] = p[i]
    OBVIOUS
  <2> QED  BY <2>1, <2>2, <2>3, Zenon DEF Longer
<1> QED  BY <1>1, Appended, Zenon

LEMMA FourFields ==
    ASSUME NEW w \in Text, NEW a \in Text, NEW b \in Text, NEW c \in Text
    PROVE  Append(<<w, a, b>>, c) = <<w, a, b, c>>
<1>1. Longer(<<w, a, b>>, c, <<w, a, b, c>>)
  <2> DEFINE p == <<w, a, b>>
             t == <<w, a, b, c>>
  <2>1. p \in Seq(Text) /\ t \in Seq(Text)
    OBVIOUS
  <2>2. Len(p) = 3 /\ Len(t) = 3 + 1 /\ t[3 + 1] = c
    OBVIOUS
  <2>3. \A i \in 1..3 : t[i] = p[i]
    OBVIOUS
  <2> QED  BY <2>1, <2>2, <2>3, Zenon DEF Longer
<1> QED  BY <1>1, Appended, Zenon

LEMMA FiveFields ==
    ASSUME NEW w \in Text, NEW a \in Text, NEW b \in Text, NEW c \in Text,
           NEW d \in Text
    PROVE  Append(<<w, a, b, c>>, d) = <<w, a, b, c, d>>
<1>1. Longer(<<w, a, b, c>>, d, <<w, a, b, c, d>>)
  <2> DEFINE p == <<w, a, b, c>>
             t == <<w, a, b, c, d>>
  <2>1. p \in Seq(Text) /\ t \in Seq(Text)
    OBVIOUS
  <2>2. Len(p) = 4 /\ Len(t) = 4 + 1 /\ t[4 + 1] = d
    OBVIOUS
  <2>3. \A i \in 1..4 : t[i] = p[i]
    OBVIOUS
  <2> QED  BY <2>1, <2>2, <2>3, Zenon DEF Longer
<1> QED  BY <1>1, Appended, Zenon

LEMMA SixFields ==
    ASSUME NEW w \in Text, NEW a \in Text, NEW b \in Text, NEW c \in Text,
           NEW d \in Text, NEW e \in Text
    PROVE  Append(<<w, a, b, c, d>>, e) = <<w, a, b, c, d, e>>
<1>1. Longer(<<w, a, b, c, d>>, e, <<w, a, b, c, d, e>>)
  <2> DEFINE p == <<w, a, b, c, d>>
             t == <<w, a, b, c, d, e>>
  <2>1. p \in Seq(Text) /\ t \in Seq(Text)
    OBVIOUS
  <2>2. Len(p) = 5 /\ Len(t) = 5 + 1 /\ t[5 + 1] = e
    OBVIOUS
  <2>3. \A i \in 1..5 : t[i] = p[i]
    OBVIOUS
  <2> QED  BY <2>1, <2>2, <2>3, Zenon DEF Longer
<1> QED  BY <1>1, Appended, Zenon

LEMMA HallText ==
    ASSUME NEW m \in HallCalls
    PROVE  LET p == Split(to_string(m), Bar)
           IN  /\ Headed(to_string(m)) /\ Len(p) = 4 /\ p[1] = HallWord
               /\ p[2] = Decimal[m.floor] /\ p[3] = Decimal[m.direction]
               /\ p[4] = Decimal[m.timestamp]
<1> DEFINE a == Decimal[m.floor]
           b == Decimal[m.direction]
           c == Decimal[m.timestamp]
           s == HallWord \o <<Bar>> \o a
           t == s \o <<Bar>> \o b
           u == t \o <<Bar>> \o c
<1>1. m.floor \in Nat /\ m.direction \in Nat /\ m.timestamp \in Nat /\ m.kind = "HALL"
  BY DEF HallCalls, u8
<1>2. a \in Seq(Plain) /\ b \in Seq(Plain) /\ c \in Seq(Plain)
  BY <1>1, PlainDecimal
<1>3. to_string(m) = u
  BY <1>1 DEF to_string
<1> HIDE DEF a, b, c
<1>4. Headed(s) /\ Split(s, Bar) = Append(<<HallWord>>, a)
  BY <1>2, WordIs, FieldIs
<1> HIDE DEF s
<1>5. Headed(t) /\ Split(t, Bar) = Append(Append(<<HallWord>>, a), b)
  BY <1>2, <1>4, FieldIs
<1> HIDE DEF t
<1>6. Headed(u) /\ Split(u, Bar) = Append(Append(Append(<<HallWord>>, a), b), c)
  BY <1>2, <1>5, FieldIs
<1> HIDE DEF u
<1>7. Append(Append(Append(<<HallWord>>, a), b), c) = <<HallWord, a, b, c>>
  <2>1. HallWord \in Text /\ a \in Text /\ b \in Text /\ c \in Text
    BY <1>2, TextTypes
  <2>2. Append(<<HallWord>>, a) = <<HallWord, a>>
    BY <2>1, TwoFields, Zenon
  <2>3. Append(<<HallWord, a>>, b) = <<HallWord, a, b>>
    BY <2>1, ThreeFields, Zenon
  <2>4. Append(<<HallWord, a, b>>, c) = <<HallWord, a, b, c>>
    BY <2>1, FourFields, Zenon
  <2> QED  BY <2>2, <2>3, <2>4, Zenon
<1> DEFINE p == <<HallWord, a, b, c>>
<1>8. Len(p) = 4 /\ p[1] = HallWord /\ p[2] = a /\ p[3] = b /\ p[4] = c
  OBVIOUS
<1> HIDE DEF p
<1>9. Split(to_string(m), Bar) = p
  BY <1>3, <1>6, <1>7 DEF p
<1> QED  BY <1>3, <1>6, <1>8, <1>9 DEF a, b, c

LEMMA CompletedText ==
    ASSUME NEW m \in CompletedCalls
    PROVE  LET p == Split(to_string(m), Bar)
           IN  /\ Headed(to_string(m)) /\ Len(p) = 3 /\ p[1] = CompletedWord
               /\ p[2] = Decimal[m.floor] /\ p[3] = Decimal[m.direction]
<1> DEFINE a == Decimal[m.floor]
           b == Decimal[m.direction]
           s == CompletedWord \o <<Bar>> \o a
           t == s \o <<Bar>> \o b
<1>1. m.floor \in Nat /\ m.direction \in Nat /\ m.kind = "COMPLETED"
  BY DEF CompletedCalls, u8
<1>2. a \in Seq(Plain) /\ b \in Seq(Plain)
  BY <1>1, PlainDecimal
<1>3. to_string(m) = t
  BY <1>1 DEF to_string
<1> HIDE DEF a, b
<1>4. Headed(s) /\ Split(s, Bar) = Append(<<CompletedWord>>, a)
  BY <1>2, WordIs, FieldIs
<1> HIDE DEF s
<1>5. Headed(t) /\ Split(t, Bar) = Append(Append(<<CompletedWord>>, a), b)
  BY <1>2, <1>4, FieldIs
<1> HIDE DEF t
<1>6. Append(Append(<<CompletedWord>>, a), b) = <<CompletedWord, a, b>>
  <2>1. CompletedWord \in Text /\ a \in Text /\ b \in Text
    BY <1>2, TextTypes
  <2>2. Append(<<CompletedWord>>, a) = <<CompletedWord, a>>
    BY <2>1, TwoFields, Zenon
  <2>3. Append(<<CompletedWord, a>>, b) = <<CompletedWord, a, b>>
    BY <2>1, ThreeFields, Zenon
  <2> QED  BY <2>2, <2>3, Zenon
<1> DEFINE p == <<CompletedWord, a, b>>
<1>7. Len(p) = 3 /\ p[1] = CompletedWord /\ p[2] = a /\ p[3] = b
  OBVIOUS
<1> HIDE DEF p
<1>8. Split(to_string(m), Bar) = p
  BY <1>3, <1>5, <1>6 DEF p
<1> QED  BY <1>3, <1>5, <1>7, <1>8 DEF a, b

FlagOf(m) == IF m.is_obstructed THEN 1 ELSE 0

LEMMA StateText ==
    ASSUME NEW m \in States
    PROVE  LET p == Split(to_string(m), Bar)
           IN  /\ Headed(to_string(m)) /\ Len(p) = 6 /\ p[1] = StateWord
               /\ p[2] = Decimal[m.id] /\ p[3] = Decimal[m.floor] /\ p[4] = Decimal[m.direction]
               /\ p[5] = Join[m.call_buttons] /\ p[6] = Decimal[FlagOf(m)]
<1> DEFINE a == Decimal[m.id]
           b == Decimal[m.floor]
           c == Decimal[m.direction]
           d == Join[m.call_buttons]
           e == Decimal[FlagOf(m)]
           s == StateWord \o <<Bar>> \o a
           t == s \o <<Bar>> \o b
           u == t \o <<Bar>> \o c
           v == u \o <<Bar>> \o d
           w == v \o <<Bar>> \o e
<1>1. /\ m.id \in Nat /\ m.floor \in Nat /\ m.direction \in Nat /\ m.kind = "STATE"
      /\ m.call_buttons \in Seq(Calls) /\ FlagOf(m) \in Nat
  <2>1. FlagOf(m) \in Nat
    BY DEF FlagOf
  <2>2. u8 \subseteq Nat
    BY DEF u8
  <2> QED  BY <2>1, <2>2 DEF States
<1>2. /\ a \in Seq(Plain) /\ b \in Seq(Plain) /\ c \in Seq(Plain)
      /\ d \in Seq(Plain) /\ e \in Seq(Plain)
  BY <1>1, PlainDecimal, QueueIs
<1>3. to_string(m) = w
  BY <1>1 DEF to_string, FlagOf
<1> HIDE DEF a, b, c, d, e
<1>0. /\ StateWord \in Text /\ a \in Text /\ b \in Text /\ c \in Text
      /\ d \in Text /\ e \in Text
  BY <1>2, TextTypes
<1>4. Headed(s) /\ Split(s, Bar) = Append(<<StateWord>>, a)
  BY <1>2, WordIs, FieldIs
<1> HIDE DEF s
<1>5. Headed(t) /\ Split(t, Bar) = Append(Append(<<StateWord>>, a), b)
  BY <1>2, <1>4, FieldIs
<1> HIDE DEF t
<1>6. Headed(u) /\ Split(u, Bar) = <<StateWord, a, b, c>>
  <2>1. Headed(u) /\ Split(u, Bar) = Append(Append(Append(<<StateWord>>, a), b), c)
    BY <1>2, <1>5, FieldIs
  <2>2. Append(Append(Append(<<StateWord>>, a), b), c) = <<StateWord, a, b, c>>
    <3>1. Append(<<StateWord>>, a) = <<StateWord, a>>
      BY <1>0, TwoFields, Zenon
    <3>2. Append(<<StateWord, a>>, b) = <<StateWord, a, b>>
      BY <1>0, ThreeFields, Zenon
    <3>3. Append(<<StateWord, a, b>>, c) = <<StateWord, a, b, c>>
      BY <1>0, FourFields, Zenon
    <3> QED  BY <3>1, <3>2, <3>3, Zenon
  <2> QED  BY <2>1, <2>2
<1> HIDE DEF u
<1>7. Headed(v) /\ Split(v, Bar) = Append(<<StateWord, a, b, c>>, d)
  BY <1>2, <1>6, FieldIs
<1> HIDE DEF v
<1> DEFINE p == <<StateWord, a, b, c, d, e>>
<1>8. Headed(w) /\ Split(w, Bar) = p
  <2>1. Headed(w) /\ Split(w, Bar) = Append(Append(<<StateWord, a, b, c>>, d), e)
    BY <1>2, <1>7, FieldIs
  <2>2. Append(Append(<<StateWord, a, b, c>>, d), e) = p
    <3>1. Append(<<StateWord, a, b, c>>, d) = <<StateWord, a, b, c, d>>
      BY <1>0, FiveFields
    <3>2. Append(<<StateWord, a, b, c, d>>, e) = p
      BY <1>0, SixFields
    <3> QED  BY <3>1, <3>2, Zenon
  <2> QED  BY <2>1, <2>2
<1> HIDE DEF w
<1>9. Len(p) = 6 /\ p[1] = StateWord /\ p[2] = a /\ p[3] = b /\ p[4] = c /\ p[5] = d /\ p[6] = e
  OBVIOUS
<1> HIDE DEF p
<1> QED  BY <1>3, <1>8, <1>9 DEF a, b, c, d, e

-----------------------------------------------------------------------------
(* What from_string makes of a part of a message.                          *)

Words == {HallWord, StateWord, CompletedWord}

LEMMA FromString ==
    ASSUME NEW s
    PROVE  LET p == Split(s, Bar)
           IN  /\ p[1] = HallWord => from_string(s) = hall_from(p)
               /\ p[1] = StateWord => from_string(s) = state_from(p)
               /\ p[1] = CompletedWord => from_string(s) = completed_from(p)
               /\ p[1] \notin Words => from_string(s) = None
<1>1. HallWord # StateWord /\ HallWord # CompletedWord /\ StateWord # CompletedWord
  BY DEF HallWord, StateWord, CompletedWord
<1> QED  BY <1>1 DEF from_string, Words

(* A word that is cut off is no word.                                      *)
LEMMA CutWord ==
    ASSUME NEW w \in Words, NEW u \in Words, Starts(u, w)
    PROVE  u = w
<1>1. \A x \in Words : x \in Text /\ Len(x) = 2
  <2>1. HallWord \in Text /\ StateWord \in Text /\ CompletedWord \in Text
    BY TextTypes
  <2>2. Len(HallWord) = 2 /\ Len(StateWord) = 2 /\ Len(CompletedWord) = 2
    BY DEF HallWord, StateWord, CompletedWord
  <2> QED  BY <2>1, <2>2 DEF Words
<1> QED  BY <1>1, StartsIs DEF Text

(* A number that is cut off is a number; one digit cannot be cut.          *)
LEMMA CutNumber ==
    ASSUME NEW n \in Nat, NEW u \in Text, Starts(u, Decimal[n]), u # <<>>
    PROVE  /\ \E j \in Nat : u = Decimal[j] /\ IsPrefix(Decimal[j], Decimal[n])
           /\ n < 10 => u = Decimal[n]
<1>1. Decimal[n] \in Text
  BY DecimalIs, TextTypes
<1>2. Len(u) \in Nat \ {0} /\ Len(u) <= Len(Decimal[n]) /\ Len(Decimal[n]) \in Nat
  BY <1>1, EmptySeq, LenProperties DEF Text, Starts
<1>3. u = SubSeq(Decimal[n], 1, Len(u)) /\ IsPrefix(u, Decimal[n])
  BY <1>1, StartsIs DEF Text
<1>4. Len(u) \in 1..Len(Decimal[n])
  BY <1>2
<1>5. PICK j \in Nat : u = Decimal[j]
  BY <1>3, <1>4, DigitsOfDecimal, Zenon
<1>6. ASSUME n < 10 PROVE u = Decimal[n]
  <2>1. Decimal[n] = <<n>>
    BY <1>6, DecimalIs
  <2>2. Len(Decimal[n]) = 1
    BY <2>1
  <2>3. Len(u) = Len(Decimal[n])
    BY <1>2, <2>2
  <2> QED  BY <1>1, <2>3, StartsIs DEF Text
<1> QED  BY <1>3, <1>5, <1>6

(* The pieces of the part s of a message are its own, but for the last.    *)
LEMMA CutPieces ==
    ASSUME NEW t \in Text, NEW s \in Text, Starts(s, t)
    PROVE  LET p == Split(s, Bar)
               q == Split(t, Bar)
           IN  /\ p \in Seq(Text) /\ Len(p) \in Nat \ {0} /\ Len(p) <= Len(q)
               /\ \A i \in 1..(Len(p) - 1) : p[i] = q[i]
               /\ p[Len(p)] \in Text /\ Starts(p[Len(p)], q[Len(p)])
               /\ p[1] \in Words /\ q[1] \in Words => p[1] = q[1]
<1> DEFINE p == Split(s, Bar)
           q == Split(t, Bar)
<1>1. p \in Seq(Text) /\ p # <<>>
  BY SplitIs, TextTypes DEF Pieces
<1>2. Grown(q, p)
  <2>1. PICK y \in Text : t = s \o y
    BY StartsIs DEF Text
  <2> QED  BY <2>1, SplitGrows, TextTypes
<1> HIDE DEF p, q
<1>3. Len(p) \in Nat \ {0}
  BY <1>1, EmptySeq, LenProperties
<1>4. p[Len(p)] \in Text
  BY <1>1, <1>3, ElementOfSeq
<1>5. /\ Len(p) <= Len(q)
      /\ \A i \in 1..(Len(p) - 1) : p[i] = q[i]
      /\ Starts(p[Len(p)], q[Len(p)])
  BY <1>2 DEF Grown
<1>6. ASSUME p[1] \in Words, q[1] \in Words PROVE p[1] = q[1]
  <2>1. CASE Len(p) = 1
    BY <1>5, <1>6, <2>1, CutWord
  <2>2. CASE Len(p) # 1
    <3>1. 1 \in 1..(Len(p) - 1)
      BY <1>3, <2>2
    <3> QED  BY <1>5, <3>1
  <2> QED  BY <2>1, <2>2
<1> QED  BY <1>1, <1>3, <1>4, <1>5, <1>6 DEF p, q

LEMMA CutHall ==
    ASSUME NEW m \in HallCalls, NEW s \in Text, Starts(s, to_string(m)), from_string(s) # None
    PROVE  BecomesOf(from_string(s), m)
<1> DEFINE t == to_string(m)
           p == Split(s, Bar)
           q == Split(t, Bar)
           v == p[4]
<1>1. /\ t \in Text /\ Len(q) = 4 /\ q[1] = HallWord
      /\ q[2] = Decimal[m.floor] /\ q[3] = Decimal[m.direction] /\ q[4] = Decimal[m.timestamp]
  BY HallText DEF Headed
<1>2. /\ Len(p) \in Nat \ {0} /\ Len(p) <= Len(q)
      /\ \A i \in 1..(Len(p) - 1) : p[i] = q[i]
      /\ p[Len(p)] \in Text /\ Starts(p[Len(p)], q[Len(p)])
      /\ p[1] \in Words /\ q[1] \in Words => p[1] = q[1]
  BY <1>1, CutPieces
<1>3. p[1] = HallWord /\ from_string(s) = hall_from(p)
  <2>1. p[1] \in Words
    BY FromString
  <2>2. p[1] = HallWord
    BY <1>1, <1>2, <2>1 DEF Words
  <2> QED  BY <2>2, FromString
<1>4. m.floor \in Nat /\ m.direction \in Nat /\ m.timestamp \in Nat /\ m.kind = "HALL"
      /\ m.floor \in u8 /\ m.direction \in u8
  BY DEF HallCalls, u8
<1> HIDE DEF p, q, t
<1>5. ~ (Len(p) < 4 \/ -1 \in {parse_u8(p[2]), parse_u8(p[3]), parse_u64(p[4])})
  BY <1>3 DEF hall_from
<1>6. hall_from(p) = [kind |-> "HALL", floor |-> parse_u8(p[2]), direction |-> parse_u8(p[3]),
                      timestamp |-> parse_u64(p[4])]
  BY <1>5 DEF hall_from
<1>7. Len(p) = 4
  <2>1. ~ (Len(p) < 4)
    BY <1>5, Zenon
  <2>2. Len(p) \in Nat /\ Len(p) <= 4
    BY <1>1, <1>2
  <2>3. \A n \in Nat : ~ (n < 4) /\ n <= 4 => n = 4
    OBVIOUS
  <2> QED  BY <2>1, <2>2, <2>3, Zenon
<1>8. p[2] = q[2] /\ p[3] = q[3] /\ v \in Text /\ Starts(v, Decimal[m.timestamp])
  <2>1. 2 \in 1..(Len(p) - 1) /\ 3 \in 1..(Len(p) - 1)
    BY <1>7
  <2> QED  BY <1>1, <1>2, <1>7, <2>1
<1>9. v # <<>>
  BY <1>5, NoNumber
<1>10. PICK j \in Nat : v = Decimal[j] /\ IsPrefix(Decimal[j], Decimal[m.timestamp])
  BY <1>4, <1>8, <1>9, CutNumber
<1>11. parse_u8(p[2]) = m.floor /\ parse_u8(p[3]) = m.direction /\ parse_u64(v) = j
  <2>1. parse_u64(v) = j
    BY <1>10, ParseOfDecimal
  <2> QED  BY <1>1, <1>4, <1>8, <2>1, ParseOfDecimal
<1> DEFINE h == [m EXCEPT !.timestamp = j]
<1>12. from_string(s) = h /\ h.kind = "HALL" /\ h.timestamp = j
  <2>1. h = [kind |-> "HALL", floor |-> m.floor, direction |-> m.direction, timestamp |-> j]
    BY DEF HallCalls
  <2> HIDE DEF h
  <2> QED  BY <1>3, <1>6, <1>11, <2>1
<1>13. h = [m EXCEPT !.timestamp = h.timestamp]
  BY <1>12
<1> HIDE DEF h
<1> QED  BY <1>4, <1>10, <1>12, <1>13 DEF BecomesOf

LEMMA CutCompleted ==
    ASSUME NEW m \in CompletedCalls, NEW s \in Text, Starts(s, to_string(m)), from_string(s) # None
    PROVE  from_string(s) = m
<1> DEFINE t == to_string(m)
           p == Split(s, Bar)
           q == Split(t, Bar)
           v == p[3]
<1>1. /\ t \in Text /\ Len(q) = 3 /\ q[1] = CompletedWord
      /\ q[2] = Decimal[m.floor] /\ q[3] = Decimal[m.direction]
  BY CompletedText DEF Headed
<1>2. /\ Len(p) \in Nat \ {0} /\ Len(p) <= Len(q)
      /\ \A i \in 1..(Len(p) - 1) : p[i] = q[i]
      /\ p[Len(p)] \in Text /\ Starts(p[Len(p)], q[Len(p)])
      /\ p[1] \in Words /\ q[1] \in Words => p[1] = q[1]
  BY <1>1, CutPieces
<1>3. p[1] = CompletedWord /\ from_string(s) = completed_from(p)
  <2>1. p[1] \in Words
    BY FromString
  <2>2. p[1] = CompletedWord
    BY <1>1, <1>2, <2>1 DEF Words
  <2> QED  BY <2>2, FromString
<1>4. m.floor \in Nat /\ m.direction \in Nat /\ m.direction < 10 /\ m.kind = "COMPLETED"
      /\ m.floor \in u8 /\ m.direction \in u8
  BY DEF CompletedCalls, u8
<1> HIDE DEF p, q, t
<1>5. ~ (Len(p) < 3 \/ -1 \in {parse_u8(p[2]), parse_u8(p[3])})
  BY <1>3 DEF completed_from
<1>6. completed_from(p) = [kind |-> "COMPLETED", floor |-> parse_u8(p[2]),
                           direction |-> parse_u8(p[3])]
  BY <1>5 DEF completed_from
<1>7. Len(p) = 3
  <2>1. ~ (Len(p) < 3)
    BY <1>5, Zenon
  <2>2. Len(p) \in Nat /\ Len(p) <= 3
    BY <1>1, <1>2
  <2>3. \A n \in Nat : ~ (n < 3) /\ n <= 3 => n = 3
    OBVIOUS
  <2> QED  BY <2>1, <2>2, <2>3, Zenon
<1>8. p[2] = q[2] /\ v \in Text /\ Starts(v, Decimal[m.direction])
  <2>1. 2 \in 1..(Len(p) - 1)
    BY <1>7
  <2> QED  BY <1>1, <1>2, <1>7, <2>1
<1>9. v # <<>>
  BY <1>5, NoNumber
<1>10. v = Decimal[m.direction]
  BY <1>4, <1>8, <1>9, CutNumber
<1>11. parse_u8(p[2]) = m.floor /\ parse_u8(v) = m.direction
  BY <1>1, <1>4, <1>8, <1>10, ParseOfDecimal
<1>12. m = [kind |-> "COMPLETED", floor |-> m.floor, direction |-> m.direction]
  BY DEF CompletedCalls
<1> QED  BY <1>3, <1>6, <1>11, <1>12

LEMMA CutState ==
    ASSUME NEW m \in States, NEW s \in Text, Starts(s, to_string(m)), from_string(s) # None
    PROVE  BecomesOf(from_string(s), m)
<1> DEFINE t == to_string(m)
           p == Split(s, Bar)
           q == Split(t, Bar)
           v == p[6]
           flag == IF Len(p) > 5 THEN parse_u8(p[6]) ELSE 0
           calls == buttons_from(p[5])
<1>1. /\ t \in Text /\ Len(q) = 6 /\ q[1] = StateWord
      /\ q[2] = Decimal[m.id] /\ q[3] = Decimal[m.floor] /\ q[4] = Decimal[m.direction]
      /\ q[5] = Join[m.call_buttons] /\ q[6] = Decimal[FlagOf(m)]
  BY StateText DEF Headed
<1>2. /\ p \in Seq(Text)
      /\ Len(p) \in Nat \ {0} /\ Len(p) <= Len(q)
      /\ \A i \in 1..(Len(p) - 1) : p[i] = q[i]
      /\ p[Len(p)] \in Text /\ Starts(p[Len(p)], q[Len(p)])
      /\ p[1] \in Words /\ q[1] \in Words => p[1] = q[1]
  BY <1>1, CutPieces
<1>3. p[1] = StateWord /\ from_string(s) = state_from(p)
  <2>1. p[1] \in Words
    BY FromString
  <2>2. p[1] = StateWord
    BY <1>1, <1>2, <2>1 DEF Words
  <2> QED  BY <2>2, FromString
<1>4. /\ m.id \in Nat /\ m.floor \in Nat /\ m.direction \in Nat /\ m.kind = "STATE"
      /\ m.floor \in u8 /\ m.direction \in u8 /\ m.call_buttons \in Seq(Calls)
      /\ m.is_obstructed \in BOOLEAN
  <2>1. u8 \subseteq Nat
    BY DEF u8
  <2> QED  BY <2>1 DEF States
<1> HIDE DEF p, q, t
<1>5. ~ (Len(p) < 5 \/ -1 \in {parse_u8(p[3]), parse_u8(p[4]), flag})
  BY <1>3 DEF state_from
<1>6. state_from(p) = [kind |-> "STATE", id |-> Number[p[2]], floor |-> parse_u8(p[3]),
                       direction |-> parse_u8(p[4]), call_buttons |-> calls,
                       is_obstructed |-> flag # 0]
  BY <1>5 DEF state_from
<1>7. Len(p) = 5 \/ Len(p) = 6
  <2>1. ~ (Len(p) < 5)
    BY <1>5, Zenon
  <2>2. Len(p) \in Nat /\ Len(p) <= 6
    BY <1>1, <1>2
  <2>3. \A n \in Nat : ~ (n < 5) /\ n <= 6 => n = 5 \/ n = 6
    OBVIOUS
  <2> QED  BY <2>1, <2>2, <2>3, Zenon
<1>8. p[2] = q[2] /\ p[3] = q[3] /\ p[4] = q[4]
  <2>1. 2 \in 1..(Len(p) - 1) /\ 3 \in 1..(Len(p) - 1) /\ 4 \in 1..(Len(p) - 1)
    <3>1. \A n \in {5, 6} : 2 \in 1..(n - 1) /\ 3 \in 1..(n - 1) /\ 4 \in 1..(n - 1)
      OBVIOUS
    <3>2. Len(p) \in {5, 6}
      BY <1>7, Zenon
    <3> QED  BY <3>1, <3>2, Zenon
  <2> QED  BY <1>2, <2>1
<1>9. Number[p[2]] = m.id /\ parse_u8(p[3]) = m.floor /\ parse_u8(p[4]) = m.direction
  BY <1>1, <1>4, <1>8, NumberOfDecimal, ParseOfDecimal
<1>10. m = [kind |-> "STATE", id |-> m.id, floor |-> m.floor, direction |-> m.direction,
            call_buttons |-> m.call_buttons, is_obstructed |-> m.is_obstructed]
  BY DEF States
<1>11. CASE Len(p) = 5
  <2>1. p[5] \in Text /\ Starts(p[5], Join[m.call_buttons])
    BY <1>1, <1>2, <1>11
  <2>2. calls \in Seq(Calls) /\ IsPrefix(calls, m.call_buttons)
    <3>1. calls \in Seq(Calls) /\ Starts(calls, m.call_buttons)
      BY <1>4, <2>1, QueueIs
    <3> HIDE DEF calls
    <3> QED  BY <1>4, <3>1, StartsIs
  <2>3. flag = 0
    BY <1>11
  <2> DEFINE h == [kind |-> "STATE", id |-> m.id, floor |-> m.floor, direction |-> m.direction,
                   call_buttons |-> calls, is_obstructed |-> FALSE]
  <2>4. from_string(s) = h
    <3> HIDE DEF calls
    <3> QED  BY <1>3, <1>6, <1>9, <2>3
  <2>5. h.kind = "STATE" /\ h.call_buttons = calls
    OBVIOUS
  <2>6. h = [m EXCEPT !.call_buttons = calls, !.is_obstructed = FALSE]
    <3> HIDE DEF calls
    <3>1. [m EXCEPT !.call_buttons = calls]
          = [kind |-> "STATE", id |-> m.id, floor |-> m.floor, direction |-> m.direction,
             call_buttons |-> calls, is_obstructed |-> m.is_obstructed]
      BY m \in States DEF States
    <3>2. [m EXCEPT !.call_buttons = calls, !.is_obstructed = FALSE]
          = [[m EXCEPT !.call_buttons = calls] EXCEPT !.is_obstructed = FALSE]
      OBVIOUS
    <3> DEFINE g == [m EXCEPT !.call_buttons = calls]
    <3>3. [g EXCEPT !.is_obstructed = FALSE] = h
      <4>1. g = [kind |-> "STATE", id |-> m.id, floor |-> m.floor, direction |-> m.direction,
                 call_buttons |-> calls, is_obstructed |-> m.is_obstructed]
        BY <3>1
      <4>2. \A z : [g EXCEPT !.is_obstructed = z]
                  = [kind |-> "STATE", id |-> m.id, floor |-> m.floor, direction |-> m.direction,
                     call_buttons |-> calls, is_obstructed |-> z]
        <5> HIDE DEF g
        <5> QED  BY <4>1
      <4> HIDE DEF g
      <4> QED  BY <4>2, Zenon
    <3> HIDE DEF h
    <3> QED  BY <3>2, <3>3
  <2> HIDE DEF h, calls
  <2>7. BecomesOf(h, m)
    BY <1>4, <2>2, <2>5, <2>6 DEF BecomesOf
  <2> QED  BY <2>4, <2>7
<1>12. CASE Len(p) = 6
  <2>1. p[5] = Join[m.call_buttons] /\ v \in Text /\ Starts(v, Decimal[FlagOf(m)])
    <3>1. 5 \in 1..(Len(p) - 1)
      BY <1>12
    <3> QED  BY <1>1, <1>2, <1>12, <3>1
  <2>2. calls = m.call_buttons
    BY <1>4, <2>1, QueueIs
  <2>3. flag = parse_u8(v)
    BY <1>12
  <2>4. v # <<>>
    BY <1>5, <2>3, NoNumber
  <2>5. FlagOf(m) \in Nat /\ FlagOf(m) < 10 /\ FlagOf(m) \in u8
    BY DEF FlagOf, u8
  <2>6. v = Decimal[FlagOf(m)]
    BY <2>1, <2>4, <2>5, CutNumber
  <2>7. flag = FlagOf(m)
    BY <2>3, <2>5, <2>6, ParseOfDecimal
  <2>8. (flag # 0) = m.is_obstructed
    <3> HIDE DEF flag
    <3> QED  BY <1>4, <2>7 DEF FlagOf
  <2>9. from_string(s) = m
    <3> HIDE DEF flag, calls
    <3> QED  BY <1>3, <1>6, <1>9, <1>10, <2>2, <2>8
  <2> QED  BY <2>9 DEF BecomesOf
<1> QED  BY <1>7, <1>11, <1>12

(* Part of a message is no message, or one that the message can become.    *)
LEMMA CutText ==
    ASSUME NEW m \in ElevatorMessage, NEW s \in Text, Starts(s, to_string(m)), from_string(s) # None
    PROVE  BecomesOf(from_string(s), m)
<1>1. CASE m \in HallCalls
  BY <1>1, CutHall
<1>2. CASE m \in States
  BY <1>2, CutState
<1>3. CASE m \in CompletedCalls
  <2>1. from_string(s) = m
    BY <1>3, CutCompleted
  <2> QED  BY <2>1 DEF BecomesOf
<1> QED  BY <1>1, <1>2, <1>3, Kinds

LEMMA MessageText ==
    ASSUME NEW m \in ElevatorMessage
    PROVE  Headed(to_string(m)) /\ to_string(m) \in Text /\ Len(to_string(m)) \in Nat \ {0}
<1>1. Headed(to_string(m))
  BY Kinds, HallText, StateText, CompletedText, Zenon
<1> QED  BY <1>1, EmptySeq, LenProperties DEF Headed, Text

LEMMA FirstAndRest ==
    ASSUME NEW A, NEW u \in Seq(A), u # <<>>
    PROVE  u[1] \in A /\ \E y \in Seq(A) : u = <<u[1]>> \o y
<1>1. Len(u) \in Nat \ {0}
  BY EmptySeq
<1>2. u[1] \in A
  BY <1>1, ElementOfSeq
<1> DEFINE t == <<u[1]>>
<1>3. t \in Seq(A) /\ Len(t) = 1 /\ t[1] = u[1]
  BY <1>2
<1> HIDE DEF t
<1>4. Starts(t, u)
  BY <1>1, <1>3 DEF Starts
<1>5. \E y \in Seq(A) : u = t \o y
  BY <1>3, <1>4, StartsIs
<1> QED  BY <1>2, <1>5 DEF t

(* A text that does not begin with the beginning of a word is no message.  *)
LEMMA LateText ==
    ASSUME NEW s \in Text, s # <<>>, s[1] \notin Heads
    PROVE  from_string(s) = None
<1> DEFINE x == s[1]
           p == Split(s, Bar)
<1>1. PICK y \in Text : x \in Token /\ s = <<x>> \o y
  BY FirstAndRest DEF Text
<1>2. <<x>> \in Text
  BY <1>1 DEF Text
<1>3. Grown(p, Split(<<x>>, Bar))
  BY <1>1, <1>2, SplitGrows, TextTypes
<1>4. Words \subseteq Text /\ \A w \in Words : w # <<>> /\ w[1] \in Heads
  <2>1. \A w \in Words : Headed(w)
    BY WordIs DEF Words
  <2> QED  BY <2>1 DEF Headed
<1> HIDE DEF p
<1>5. CASE x = Bar
  <2>1. <<x>> = Append(<<>>, x)
    OBVIOUS
  <2>2. Split(Append(<<>>, x), Bar) = Append(Split(<<>>, Bar), <<>>) /\ Split(<<>>, Bar) = << <<>> >>
    BY <1>1, <1>5, SplitIs, TextTypes
  <2> DEFINE e == <<>>
             o == <<e>>
             r == Append(o, e)
  <2>3. o \in Seq(Text) /\ Len(o) = 1 /\ o[1] = e /\ e \in Text
    BY TextTypes
  <2> HIDE DEF o
  <2>4. Len(r) = 2 /\ r[1] = e
    BY <2>3, AppendProperties
  <2> HIDE DEF r
  <2>5. p[1] = e
    <3>1. Grown(p, r)
      BY <1>3, <2>1, <2>2 DEF o, r
    <3> HIDE DEF e
    <3> QED  BY <2>4, <3>1 DEF Grown
  <2> QED  BY <1>4, <2>5, FromString DEF p
<1>6. CASE x # Bar
  <2>1. Split(<<x>>, Bar) = << <<x>> >>
    <3>1. <<x>> \in Seq(Token \ {Bar})
      BY <1>1, <1>6
    <3> QED  BY <3>1, SplitPiece, TextTypes
  <2> DEFINE t == <<x>>
  <2>2. Len(<<t>>) = 1 /\ <<t>>[1] = t /\ Len(t) = 1 /\ t[1] = x
    OBVIOUS
  <2> HIDE DEF t
  <2>3. Starts(t, p[1])
    BY <1>3, <2>1, <2>2 DEF Grown, t
  <2>4. p[1][1] = x
    BY <2>2, <2>3 DEF Starts
  <2> QED  BY <1>4, <2>4, FromString DEF p
<1> QED  BY <1>5, <1>6

(* Behind a whole message a word makes its last piece no number.           *)
LEMMA LongPieces ==
    ASSUME NEW t \in Text, NEW y \in Text, y # <<>>, y[1] \in Heads
    PROVE  LET p == Split(t \o y, Bar)
               q == Split(t, Bar)
               k == Len(q)
           IN  /\ Len(p) >= k /\ \A i \in 1..(k - 1) : p[i] = q[i]
               /\ parse_u64(p[k]) = -1 /\ parse_u8(p[k]) = -1
<1> DEFINE p == Split(t \o y, Bar)
           q == Split(t, Bar)
           k == Len(q)
           x == y[1]
           r == Split(t \o <<x>>, Bar)
<1>1. PICK z \in Text : x \in Token /\ y = <<x>> \o z
  BY FirstAndRest DEF Text
<1>2. x \in Token \ {Bar} /\ x \notin 0..9
  BY DEF Heads, Token, Bar
<1>3. <<x>> \in Text /\ t \o <<x>> \in Text /\ t \o y = (t \o <<x>>) \o z
  <2>1. <<x>> \in Text
    BY <1>1 DEF Text
  <2> HIDE DEF x
  <2> QED  BY <1>1, <2>1, ConcatProperties, ConcatAssociative DEF Text
<1>4. Grown(p, r)
  BY <1>3, SplitGrows, TextTypes
<1>5. r = OnLast(q, <<x>>)
  <2>1. <<x>> \in Seq(Token \ {Bar})
    BY <1>2
  <2> QED  BY <2>1, SplitPlain, TextTypes
<1>6. q \in Seq(Text) /\ q # <<>>
  BY SplitIs, TextTypes DEF Pieces
<1> HIDE DEF p, q, r
<1>7. k \in Nat \ {0} /\ q[k] \in Text /\ Len(q[k]) \in Nat
  <2>1. k \in Nat \ {0}
    BY <1>6, EmptySeq, LenProperties
  <2>2. q[k] \in Text
    BY <1>6, <2>1, ElementOfSeq
  <2> QED  BY <2>1, <2>2, LenProperties DEF Text
<1> DEFINE v == q[k] \o <<x>>
<1>8. v \in Text /\ Len(v) = Len(q[k]) + 1 /\ v[Len(q[k]) + 1] = x
  <2>1. q[k] \o <<x>> = Append(q[k], x)
    BY <1>1, <1>7, AppendIsConcat DEF Text
  <2> QED  BY <1>1, <1>7, <2>1, AppendProperties DEF Text
<1> HIDE DEF v
<1>9. Len(r) = k /\ r[k] = v /\ \A i \in 1..(k - 1) : r[i] = q[i]
  <2>1. r = [q EXCEPT ![k] = v]
    BY <1>5 DEF OnLast, v
  <2>2. q \in [1..k -> Text] /\ k \in 1..k
    BY <1>6, <1>7, LenProperties
  <2>3. r \in [1..k -> Text] /\ r[k] = v /\ \A i \in 1..(k - 1) : r[i] = q[i]
    <3> HIDE DEF k
    <3> QED  BY <1>7, <1>8, <2>1, <2>2
  <2>4. Len(r) = k
    BY <1>7, <2>3, LenProperties, IsASeq
  <2> QED  BY <2>3, <2>4
<1>10. Len(p) >= k /\ (\A i \in 1..(k - 1) : p[i] = q[i]) /\ Starts(v, p[k])
  <2> HIDE DEF k
  <2> QED  BY <1>4, <1>9 DEF Grown
<1>11. p[k] \in Text
  <2>1. p \in Seq(Text)
    BY <1>3, SplitIs, ConcatProperties, TextTypes DEF Pieces, p, Text
  <2>2. Len(p) \in Nat
    BY <2>1, LenProperties
  <2>3. k \in 1..Len(p)
    <3> HIDE DEF k
    <3> QED  BY <1>7, <1>10, <2>2
  <2> QED  BY <2>1, <2>3, ElementOfSeq
<1>12. \E i \in DOMAIN p[k] : p[k][i] \notin 0..9
  <2> DEFINE i == Len(q[k]) + 1
             u == p[k]
  <2>1. u \in Text /\ DOMAIN u = 1..Len(u) /\ Len(u) \in Nat
    BY <1>11, LenProperties DEF Text
  <2> HIDE DEF u
  <2>2. i \in 1..Len(u) /\ u[i] = v[i]
    <3>1. Starts(v, u)
      BY <1>10 DEF u
    <3> QED  BY <1>7, <1>8, <2>1, <3>1 DEF Starts
  <2> QED  BY <1>2, <1>8, <2>1, <2>2 DEF u
<1> QED  BY <1>10, <1>12, NoNumber DEF p, q

LEMMA LongText ==
    ASSUME NEW m \in ElevatorMessage, NEW y \in Text, y # <<>>, y[1] \in Heads
    PROVE  from_string(to_string(m) \o y) = None
<1> DEFINE t == to_string(m)
           s == t \o y
           p == Split(s, Bar)
           q == Split(t, Bar)
<1>1. /\ t \in Text /\ Len(p) >= Len(q) /\ \A i \in 1..(Len(q) - 1) : p[i] = q[i]
      /\ parse_u64(p[Len(q)]) = -1 /\ parse_u8(p[Len(q)]) = -1
  <2>1. t \in Text
    BY MessageText
  <2> HIDE DEF t
  <2> QED  BY <2>1, LongPieces
<1>2. CASE m \in HallCalls
  <2>1. Len(q) = 4 /\ q[1] = HallWord
    BY <1>2, HallText
  <2> HIDE DEF p, q
  <2>2. parse_u64(p[4]) = -1
    BY <1>1, <2>1
  <2>3. p[1] = HallWord
    <3>1. 1 \in 1..(4 - 1)
      OBVIOUS
    <3> QED  BY <1>1, <2>1, <3>1
  <2>4. hall_from(p) = None
    BY <2>2, Zenon DEF hall_from
  <2> QED  BY <2>3, <2>4, FromString DEF p
<1>3. CASE m \in States
  <2>1. Len(q) = 6 /\ q[1] = StateWord
    BY <1>3, StateText
  <2> HIDE DEF p, q
  <2>2. parse_u8(p[6]) = -1 /\ Len(p) > 5
    <3>1. parse_u8(p[6]) = -1
      BY <1>1, <2>1
    <3>2. Len(p) >= 6
      BY <1>1, <2>1
    <3>3. p \in Seq(Text)
      BY <1>1, SplitIs, ConcatProperties, TextTypes DEF Pieces, p, Text
    <3>4. Len(p) \in Nat
      BY <3>3, LenProperties
    <3>5. \A n \in Nat : n >= 6 => n > 5
      OBVIOUS
    <3> QED  BY <3>1, <3>2, <3>4, <3>5, Zenon
  <2>3. p[1] = StateWord
    <3>1. 1 \in 1..(6 - 1)
      OBVIOUS
    <3> QED  BY <1>1, <2>1, <3>1
  <2>4. state_from(p) = None
    BY <2>2, Zenon DEF state_from
  <2> QED  BY <2>3, <2>4, FromString DEF p
<1>4. CASE m \in CompletedCalls
  <2>1. Len(q) = 3 /\ q[1] = CompletedWord
    BY <1>4, CompletedText
  <2> HIDE DEF p, q
  <2>2. parse_u8(p[3]) = -1
    BY <1>1, <2>1
  <2>3. p[1] = CompletedWord
    <3>1. 1 \in 1..(3 - 1)
      OBVIOUS
    <3> QED  BY <1>1, <2>1, <3>1
  <2>4. completed_from(p) = None
    BY <2>2, Zenon DEF completed_from
  <2> QED  BY <2>3, <2>4, FromString DEF p
<1> QED  BY <1>2, <1>3, <1>4, Kinds

(* A whole message is the message again: from_string undoes to_string.     *)
THEOREM FromStringOfToString ==
    ASSUME NEW m \in ElevatorMessage
    PROVE  from_string(to_string(m)) = m /\ m # None
<1> DEFINE p == Split(to_string(m), Bar)
<1>1. m.kind # "None"
  BY Kinds DEF HallCalls, States, CompletedCalls
<1>2. m # None
  BY <1>1 DEF None
<1>3. CASE m \in HallCalls
  <2>1. /\ Len(p) = 4 /\ p[1] = HallWord /\ p[2] = Decimal[m.floor]
        /\ p[3] = Decimal[m.direction] /\ p[4] = Decimal[m.timestamp]
    BY <1>3, HallText
  <2>2. /\ m.floor \in u8 /\ m.direction \in u8 /\ m.timestamp \in Nat
        /\ m.floor \in Nat /\ m.direction \in Nat
    BY <1>3 DEF HallCalls, u8
  <2>3. from_string(to_string(m)) = hall_from(p)
    BY <2>1, FromString
  <2> HIDE DEF p
  <2>4. parse_u8(p[2]) = m.floor /\ parse_u8(p[3]) = m.direction /\ parse_u64(p[4]) = m.timestamp
    <3>1. parse_u8(Decimal[m.floor]) = m.floor /\ parse_u8(Decimal[m.direction]) = m.direction
          /\ parse_u64(Decimal[m.timestamp]) = m.timestamp
      BY <2>2, ParseOfDecimal
    <3> QED  BY <2>1, <3>1, Zenon
  <2>5. ~ (4 < 4) /\ -1 \notin {m.floor, m.direction, m.timestamp}
    BY <2>2
  <2>6. hall_from(p) = [kind |-> "HALL", floor |-> m.floor, direction |-> m.direction,
                        timestamp |-> m.timestamp]
    BY <2>1, <2>4, <2>5, Zenon DEF hall_from
  <2>7. m = [kind |-> "HALL", floor |-> m.floor, direction |-> m.direction,
             timestamp |-> m.timestamp]
    BY <1>3 DEF HallCalls
  <2> QED  BY <1>2, <2>3, <2>6, <2>7
<1>4. CASE m \in States
  <2>1. /\ Len(p) = 6 /\ p[1] = StateWord /\ p[2] = Decimal[m.id]
        /\ p[3] = Decimal[m.floor] /\ p[4] = Decimal[m.direction]
        /\ p[5] = Join[m.call_buttons] /\ p[6] = Decimal[FlagOf(m)]
    BY <1>4, StateText
  <2>2. /\ m.floor \in u8 /\ m.direction \in u8 /\ m.id \in Nat
        /\ m.floor \in Nat /\ m.direction \in Nat /\ m.call_buttons \in Seq(Calls)
        /\ m.is_obstructed \in BOOLEAN /\ FlagOf(m) \in Nat /\ FlagOf(m) \in u8
    <3>1. u8 \subseteq Nat
      BY DEF u8
    <3>2. FlagOf(m) \in Nat /\ FlagOf(m) \in u8
      BY DEF FlagOf, u8
    <3> QED  BY <1>4, <3>1, <3>2 DEF States
  <2>3. from_string(to_string(m)) = state_from(p)
    BY <2>1, FromString
  <2> HIDE DEF p
  <2>4. /\ Number[p[2]] = m.id /\ parse_u8(p[3]) = m.floor /\ parse_u8(p[4]) = m.direction
        /\ buttons_from(p[5]) = m.call_buttons /\ parse_u8(p[6]) = FlagOf(m)
    <3>1. /\ Number[Decimal[m.id]] = m.id
          /\ parse_u8(Decimal[m.floor]) = m.floor /\ parse_u8(Decimal[m.direction]) = m.direction
          /\ buttons_from(Join[m.call_buttons]) = m.call_buttons
          /\ parse_u8(Decimal[FlagOf(m)]) = FlagOf(m)
      BY <2>2, NumberOfDecimal, ParseOfDecimal, QueueIs
    <3> QED  BY <2>1, <3>1, Zenon
  <2>5. ~ (6 < 5) /\ 6 > 5 /\ -1 \notin {m.floor, m.direction, FlagOf(m)}
    BY <2>2
  <2>6. state_from(p) = [kind |-> "STATE", id |-> m.id, floor |-> m.floor,
                         direction |-> m.direction, call_buttons |-> m.call_buttons,
                         is_obstructed |-> FlagOf(m) # 0]
    <3>1. (IF Len(p) > 5 THEN parse_u8(p[6]) ELSE 0) = FlagOf(m)
      BY <2>1, <2>4, <2>5, Zenon
    <3> QED  BY <2>1, <2>4, <2>5, <3>1, Zenon DEF state_from
  <2>7. m = [kind |-> "STATE", id |-> m.id, floor |-> m.floor,
             direction |-> m.direction, call_buttons |-> m.call_buttons,
             is_obstructed |-> m.is_obstructed]
    BY <1>4 DEF States
  <2>8. (FlagOf(m) # 0) = m.is_obstructed
    BY <2>2 DEF FlagOf
  <2> QED  BY <1>2, <2>3, <2>6, <2>7, <2>8
<1>5. CASE m \in CompletedCalls
  <2>1. /\ Len(p) = 3 /\ p[1] = CompletedWord /\ p[2] = Decimal[m.floor]
        /\ p[3] = Decimal[m.direction]
    BY <1>5, CompletedText
  <2>2. m.floor \in u8 /\ m.direction \in u8 /\ m.floor \in Nat /\ m.direction \in Nat
    BY <1>5 DEF CompletedCalls, u8
  <2>3. from_string(to_string(m)) = completed_from(p)
    BY <2>1, FromString
  <2> HIDE DEF p
  <2>4. parse_u8(p[2]) = m.floor /\ parse_u8(p[3]) = m.direction
    <3>1. parse_u8(Decimal[m.floor]) = m.floor /\ parse_u8(Decimal[m.direction]) = m.direction
      BY <2>2, ParseOfDecimal
    <3> QED  BY <2>1, <3>1, Zenon
  <2>5. ~ (3 < 3) /\ -1 \notin {m.floor, m.direction}
    BY <2>2
  <2>6. completed_from(p) = [kind |-> "COMPLETED", floor |-> m.floor, direction |-> m.direction]
    BY <2>1, <2>4, <2>5, Zenon DEF completed_from
  <2>7. m = [kind |-> "COMPLETED", floor |-> m.floor, direction |-> m.direction]
    BY <1>5 DEF CompletedCalls
  <2> QED  BY <1>2, <2>3, <2>6, <2>7
<1> QED  BY <1>3, <1>4, <1>5, Kinds

-----------------------------------------------------------------------------
(* The text on its way.                                                    *)

Size(S, j) == Len(to_string(S[j]))

(* Behind token K[i] of message J[i] comes the rest of that message, and   *)
(* then the beginning of a later one.                                      *)
Follows(S, J, K, i, j) ==
    LET rest == Size(S, J[i]) - K[i]
    IN  IF j - i <= rest THEN J[j] = J[i] /\ K[j] = K[i] + (j - i)
        ELSE J[j] > J[i] /\ (j - i = rest + 1 => K[j] = 1)

(* Token i of text u is token K[i] of message J[i] of S.                   *)
Stream(S, u, J, K) ==
    /\ \A i \in 1..Len(u) :
          /\ J[i] \in 1..Len(S) /\ K[i] \in 1..Size(S, J[i])
          /\ u[i] = to_string(S[J[i]])[K[i]]
    /\ \A i, j \in 1..Len(u) : i < j => Follows(S, J, K, i, j)

(* A read that is a message begins with the beginning of a message, and    *)
(* holds no more than that one: the word of another would be in its last   *)
(* field.                                                                  *)
LEMMA ReadMessage ==
    ASSUME NEW S \in Seq(ElevatorMessage), NEW u \in Text, NEW J, NEW K, Stream(S, u, J, K),
           NEW n \in 1..Len(u), from_string(SubSeq(u, 1, n)) # None
    PROVE  K[1] = 1 /\ J[1] \in 1..Len(S) /\ BecomesOf(from_string(SubSeq(u, 1, n)), S[J[1]])
<1> DEFINE s == SubSeq(u, 1, n)
           m == S[J[1]]
           t == to_string(m)
           L == Len(t)
<1>1. Len(u) \in Nat /\ n \in Nat \ {0} /\ 1 \in 1..Len(u) /\ n <= Len(u)
  BY LenProperties DEF Text
<1>2. s \in Text /\ Len(s) = n /\ \A i \in 1..n : s[i] = u[i]
  <2>1. 1 \in 1..(Len(u) + 1) /\ n \in 0..Len(u)
    BY <1>1
  <2> QED  BY <1>1, <2>1, SubSeqProperties DEF Text
<1>3. \A i \in 1..Len(u) : /\ S[J[i]] \in ElevatorMessage /\ Headed(to_string(S[J[i]]))
                           /\ J[i] \in 1..Len(S) /\ K[i] \in 1..Size(S, J[i])
                           /\ u[i] = to_string(S[J[i]])[K[i]]
  BY ElementOfSeq, MessageText DEF Stream
<1>4. m \in ElevatorMessage /\ Headed(t) /\ K[1] \in 1..L /\ u[1] = t[K[1]] /\ t \in Text
      /\ L \in Nat \ {0} /\ J[1] \in 1..Len(S)
  BY <1>1, <1>3, MessageText DEF Size
<1>5. \A i \in 2..Len(u) : Follows(S, J, K, 1, i)
  BY <1>1 DEF Stream
<1>6. K[1] = 1
  <2>1. s # <<>> /\ s[1] = u[1]
    BY <1>1, <1>2, EmptySeq
  <2>2. s[1] \in Heads
    BY <1>2, <2>1, LateText
  <2>3. \A i \in 2..L : t[i] \notin Heads
    BY <1>4 DEF Headed
  <2> HIDE DEF L, t, s
  <2> QED  BY <1>4, <2>1, <2>2, <2>3
<1>7. \A i \in 2..n : IF i - 1 <= L - 1 THEN J[i] = J[1] /\ K[i] = 1 + (i - 1)
                      ELSE i - 1 = L => K[i] = 1
  <2>1. \A i \in 2..n : i \in 2..Len(u)
    BY <1>1
  <2>2. L = Size(S, J[1])
    BY DEF Size
  <2> HIDE DEF L
  <2> QED  BY <1>4, <1>5, <1>6, <2>1, <2>2 DEF Follows
<1> HIDE DEF s
<1>8. ASSUME NEW i \in 1..n, i <= L PROVE s[i] = t[i]
  <2>1. CASE i = 1
    BY <1>2, <1>4, <1>6, <2>1
  <2>2. CASE i # 1
    <3>1. i \in 2..n /\ i - 1 <= L - 1 /\ i \in 1..Len(u) /\ 1 + (i - 1) = i
      BY <1>1, <1>4, <1>8, <2>2
    <3>2. J[i] = J[1] /\ K[i] = i
      <4> HIDE DEF L
      <4> QED  BY <1>7, <3>1
    <3> QED  BY <1>2, <1>3, <3>1, <3>2
  <2> QED  BY <2>1, <2>2
<1>9. CASE n <= L
  <2>1. \A i \in 1..n : i <= L
    <3> HIDE DEF L
    <3> QED  BY <1>1, <1>4, <1>9
  <2>2. Starts(s, t)
    BY <1>2, <1>8, <1>9, <2>1 DEF Starts
  <2> QED  BY <1>2, <1>4, <1>6, <2>2, CutText DEF s
<1>10. CASE ~ (n <= L)
  <2>1. L + 1 \in 2..n /\ L + 1 \in 1..Len(u) /\ L + 1 \in 1..n /\ ~ ((L + 1) - 1 <= L - 1) /\ (L + 1) - 1 = L
        /\ \A i \in 1..L : i \in 1..n /\ i <= L
    <3> HIDE DEF L
    <3> QED  BY <1>1, <1>4, <1>10
  <2>2. K[L + 1] = 1
    <3> HIDE DEF L
    <3> QED  BY <1>7, <2>1
  <2>3. s[L + 1] \in Heads
    <3>1. s[L + 1] = to_string(S[J[L + 1]])[1]
      BY <1>2, <1>3, <2>1, <2>2
    <3> QED  BY <1>3, <2>1, <3>1 DEF Headed
  <2>4. L <= Len(s)
    <3> HIDE DEF L
    <3> QED  BY <1>1, <1>2, <1>4, <1>10
  <2>5. Starts(t, s)
    BY <1>2, <1>8, <2>1, <2>4 DEF Starts
  <2>6. PICK y \in Text : s = t \o y
    BY <1>2, <1>4, <2>5, StartsIs DEF Text
  <2>7. y # <<>> /\ y[1] = s[L + 1]
    <3>1. Len(s) = L + Len(y) /\ Len(y) \in Nat
      BY <1>4, <2>6, ConcatProperties, LenProperties DEF Text
    <3>2. \A i \in 1..(L + Len(y)) : s[i] = IF i <= L THEN t[i] ELSE y[i - L]
      BY <1>4, <2>6, ConcatProperties DEF Text
    <3> HIDE DEF L
    <3>3. Len(y) \in Nat \ {0}
      BY <1>1, <1>2, <1>4, <1>10, <3>1
    <3>4. L + 1 \in 1..(L + Len(y)) /\ ~ (L + 1 <= L) /\ (L + 1) - L = 1
      BY <1>4, <3>3
    <3>5. s[L + 1] = y[1]
      BY <3>2, <3>4
    <3> QED  BY <3>3, <3>5, EmptySeq
  <2>8. from_string(s) = None
    BY <1>4, <2>3, <2>6, <2>7, LongText
  <2> QED  BY <2>8 DEF s
<1> QED  BY <1>9, <1>10

(* Nothing is missing at the end of the text.                              *)
Ends(S, u, J, K) == u # <<>> => K[Len(u)] = Size(S, J[Len(u)])

(* What was handled came of messages in their order, and the messages that *)
(* the text still has the beginning of are later ones.                     *)
History(S, u, J, K, h, at) ==
    /\ at \in [1..Len(h) -> 1..Len(S)]
    /\ \A i, j \in 1..Len(h) : i < j => at[i] < at[j]
    /\ \A i \in 1..Len(h) : BecomesOf(h[i], S[at[i]])
    /\ \A i \in 1..Len(h), j \in 1..Len(u) : K[j] = 1 => at[i] < J[j]

Shifted(J, n) == [i \in Nat |-> J[i + n]]

LEMMA Remaining ==
    ASSUME NEW u \in Text, NEW n \in 0..Len(u)
    PROVE  LET r == SubSeq(u, n + 1, Len(u))
               c == SubSeq(u, 1, n)
           IN  /\ r \in Text /\ Len(r) = Len(u) - n /\ \A i \in 1..(Len(u) - n) : r[i] = u[i + n]
               /\ c \in Text /\ Len(c) = n /\ \A i \in 1..n : c[i] = u[i]
               /\ Len(u) \in Nat
<1>1. Len(u) \in Nat /\ \A i \in 1..Len(u) : u[i] \in Token
  BY LenProperties, ElementOfSeq DEF Text
<1> DEFINE k == Len(u)
<1>2. k \in Nat /\ n \in 0..k
  BY <1>1
<1> HIDE DEF k
<1> DEFINE r == SubSeq(u, n + 1, k)
           c == SubSeq(u, 1, n)
<1>3. /\ \A i \in (n + 1)..k : u[i] \in Token
      /\ \A i \in 1..n : u[i] \in Token
  BY <1>1, <1>2 DEF k
<1>4. /\ r \in Seq(Token) /\ Len(r) = IF n + 1 <= k THEN k - (n + 1) + 1 ELSE 0
      /\ \A i \in 1..(k - (n + 1) + 1) : r[i] = u[(n + 1) + i - 1]
  <2>1. n + 1 \in Int /\ k \in Int
    BY <1>2
  <2> QED  BY <1>3, <2>1, SubSeqProperties
<1>5. /\ c \in Seq(Token) /\ Len(c) = IF 1 <= n THEN n - 1 + 1 ELSE 0
      /\ \A i \in 1..(n - 1 + 1) : c[i] = u[1 + i - 1]
  <2>1. n \in Int
    BY <1>2
  <2> QED  BY <1>3, <2>1, SubSeqProperties
<1> HIDE DEF r, c
<1>6. Len(r) = k - n /\ \A i \in 1..(k - n) : r[i] = u[i + n]
  <2>1. Len(r) = k - n
    BY <1>2, <1>4
  <2>2. ASSUME NEW i \in 1..(k - n) PROVE r[i] = u[i + n]
    <3>1. i \in 1..(k - (n + 1) + 1) /\ (n + 1) + i - 1 = i + n
      BY <1>2
    <3> QED  BY <1>4, <3>1
  <2> QED  BY <2>1, <2>2
<1>7. Len(c) = n /\ \A i \in 1..n : c[i] = u[i]
  <2>1. Len(c) = n
    BY <1>2, <1>5
  <2>2. ASSUME NEW i \in 1..n PROVE c[i] = u[i]
    <3>1. i \in 1..(n - 1 + 1) /\ 1 + i - 1 = i
      BY <1>2
    <3> QED  BY <1>5, <3>1
  <2> QED  BY <2>1, <2>2
<1> QED  BY <1>2, <1>4, <1>5, <1>6, <1>7 DEF r, c, k, Text

(* What a read leaves, and what a failure leaves.                          *)
LEMMA StreamRemains ==
    ASSUME NEW S, NEW u \in Text, NEW J \in [Nat -> Nat], NEW K \in [Nat -> Nat],
           Stream(S, u, J, K), NEW n \in 0..Len(u)
    PROVE  /\ Stream(S, SubSeq(u, n + 1, Len(u)), Shifted(J, n), Shifted(K, n))
           /\ Stream(S, SubSeq(u, 1, n), J, K)
           /\ Shifted(J, n) \in [Nat -> Nat] /\ Shifted(K, n) \in [Nat -> Nat]
           /\ Ends(S, u, J, K) => Ends(S, SubSeq(u, n + 1, Len(u)), Shifted(J, n), Shifted(K, n))
<1> DEFINE r == SubSeq(u, n + 1, Len(u))
           c == SubSeq(u, 1, n)
           J2 == Shifted(J, n)
           K2 == Shifted(K, n)
<1>1. /\ Len(r) = Len(u) - n /\ \A i \in 1..(Len(u) - n) : r[i] = u[i + n]
      /\ Len(c) = n /\ \A i \in 1..n : c[i] = u[i]
      /\ Len(u) \in Nat /\ n \in Nat /\ n <= Len(u) /\ r \in Text
  <2>1. /\ Len(r) = Len(u) - n /\ \A i \in 1..(Len(u) - n) : r[i] = u[i + n]
        /\ Len(c) = n /\ \A i \in 1..n : c[i] = u[i]
        /\ Len(u) \in Nat /\ r \in Text
    BY Remaining
  <2> HIDE DEF r, c
  <2>2. n \in Nat /\ n <= Len(u)
    BY <2>1
  <2> QED  BY <2>1, <2>2
<1>2. J2 \in [Nat -> Nat] /\ K2 \in [Nat -> Nat] /\ \A i \in Nat : J2[i] = J[i + n] /\ K2[i] = K[i + n]
  <2>1. \A i \in Nat : i + n \in Nat
    <3>1. \A i, k \in Nat : i + k \in Nat
      OBVIOUS
    <3> QED  BY <1>1, <3>1, Zenon
  <2>2. \A i \in Nat : J[i + n] \in Nat /\ K[i + n] \in Nat
    BY <2>1
  <2> QED  BY <2>2 DEF Shifted
<1> HIDE DEF r, c, J2, K2
<1>3. Stream(S, r, J2, K2)
  <2>1. ASSUME NEW i \in 1..Len(r)
        PROVE  /\ J2[i] \in 1..Len(S) /\ K2[i] \in 1..Size(S, J2[i])
               /\ r[i] = to_string(S[J2[i]])[K2[i]]
    <3>1. i + n \in 1..Len(u) /\ i \in Nat /\ i \in 1..(Len(u) - n)
      BY <1>1
    <3> QED  BY <1>1, <1>2, <3>1 DEF Stream
  <2>2. ASSUME NEW i \in 1..Len(r), NEW j \in 1..Len(r), i < j PROVE Follows(S, J2, K2, i, j)
    <3>1. i + n \in 1..Len(u) /\ j + n \in 1..Len(u) /\ i \in Nat /\ j \in Nat /\ i + n < j + n
          /\ (j + n) - (i + n) = j - i
      BY <1>1, <2>2
    <3>2. Follows(S, J, K, i + n, j + n)
      BY <3>1 DEF Stream
    <3>3. J2[i] = J[i + n] /\ K2[i] = K[i + n] /\ J2[j] = J[j + n] /\ K2[j] = K[j + n]
      BY <1>2, <3>1
    <3> QED  BY <3>1, <3>2, <3>3 DEF Follows
  <2> QED  BY <2>1, <2>2 DEF Stream
<1>4. Stream(S, c, J, K)
  <2>1. \A i \in 1..n : i \in 1..Len(u)
    BY <1>1
  <2> QED  BY <1>1, <2>1 DEF Stream
<1>5. ASSUME Ends(S, u, J, K), r # <<>> PROVE K2[Len(r)] = Size(S, J2[Len(r)])
  <2>1. Len(r) \in Nat \ {0}
    BY <1>1, <1>5, EmptySeq DEF Text
  <2>2. Len(r) + n = Len(u) /\ Len(u) # 0
    BY <1>1, <2>1
  <2>3. u # <<>>
    BY <2>2, EmptySeq DEF Text
  <2> QED  BY <1>2, <1>5, <2>1, <2>2, <2>3 DEF Ends
<1> QED  BY <1>2, <1>3, <1>4, <1>5 DEF Ends, r, c, J2, K2

LEMMA PastTheEnd ==
    ASSUME NEW U \in Nat, NEW i \in Nat, NEW j \in Nat, NEW rest \in Int,
           ~ (j <= U), rest <= U - i
    PROVE  ~ (j - i <= rest) /\ (j - i = rest + 1 => j - U = 1)
<1>1. j >= U + 1
  OBVIOUS
<1>2. j - i >= rest + 1
  BY <1>1
<1>3. ASSUME j - i = rest + 1 PROVE j - U = 1
  BY <1>1, <1>3
<1> QED  BY <1>2, <1>3

(* A message more is at the end.                                           *)
LEMMA StreamGrows ==
    ASSUME NEW S \in Seq(ElevatorMessage), NEW u \in Text,
           NEW J \in [Nat -> Nat], NEW K \in [Nat -> Nat],
           Stream(S, u, J, K), Ends(S, u, J, K), NEW m \in ElevatorMessage
    PROVE  LET J2 == [i \in Nat |-> IF i <= Len(u) THEN J[i] ELSE Len(S) + 1]
               K2 == [i \in Nat |-> IF i <= Len(u) THEN K[i] ELSE i - Len(u)]
           IN  /\ J2 \in [Nat -> Nat] /\ K2 \in [Nat -> Nat]
               /\ Stream(Append(S, m), u \o to_string(m), J2, K2)
               /\ Ends(Append(S, m), u \o to_string(m), J2, K2)
<1> DEFINE J2 == [i \in Nat |-> IF i <= Len(u) THEN J[i] ELSE Len(S) + 1]
           K2 == [i \in Nat |-> IF i <= Len(u) THEN K[i] ELSE i - Len(u)]
           S2 == Append(S, m)
           t == to_string(m)
           v == u \o t
           U == Len(u)
           N == Len(S)
           L == Len(t)
<1>1. t \in Text /\ L \in Nat \ {0} /\ U \in Nat /\ N \in Nat
  BY MessageText, LenProperties DEF Text
<1>2. Len(S2) = N + 1 /\ S2[N + 1] = m /\ \A j \in 1..N : S2[j] = S[j]
  BY AppendProperties
<1> HIDE DEF t
<1>3. v \in Text /\ Len(v) = U + L /\ \A i \in 1..(U + L) : v[i] = IF i <= U THEN u[i] ELSE t[i - U]
  BY <1>1, ConcatProperties DEF Text
<1> HIDE DEF v, S2, N, U, L
<1> USE DEF N, U
<1>4. J2 \in [Nat -> Nat] /\ K2 \in [Nat -> Nat]
  <2>1. \A i \in Nat : (IF i <= Len(u) THEN J[i] ELSE Len(S) + 1) \in Nat
    BY <1>1
  <2>2. \A i \in Nat : (IF i <= Len(u) THEN K[i] ELSE i - Len(u)) \in Nat
    BY <1>1
  <2> QED  BY <2>1, <2>2
<1>5. /\ \A i \in Nat : i <= U => J2[i] = J[i] /\ K2[i] = K[i]
      /\ \A i \in Nat : ~ (i <= U) => J2[i] = N + 1 /\ K2[i] = i - U
  OBVIOUS
<1> HIDE DEF J2, K2, N, U
<1>6. \A i \in 1..U : /\ J[i] \in 1..N /\ K[i] \in 1..Size(S, J[i])
                      /\ u[i] = to_string(S[J[i]])[K[i]]
  BY DEF Stream, U, N
<1>7. \A j \in 1..N : S2[j] = S[j] /\ Size(S2, j) = Size(S, j)
  BY <1>2 DEF Size
<1>8. S2[N + 1] = m /\ Size(S2, N + 1) = L
  BY <1>2 DEF Size, L, t
<1>9. ASSUME NEW i \in 1..Len(v)
      PROVE  /\ J2[i] \in 1..Len(S2) /\ K2[i] \in 1..Size(S2, J2[i])
             /\ v[i] = to_string(S2[J2[i]])[K2[i]]
  <2>1. CASE i <= U
    <3>1. i \in 1..U /\ i \in Nat /\ i \in 1..(U + L)
      BY <1>1, <1>3, <2>1
    <3>2. J2[i] = J[i] /\ K2[i] = K[i] /\ v[i] = u[i]
      BY <1>3, <1>5, <2>1, <3>1
    <3>3. J[i] \in 1..N /\ J[i] \in 1..Len(S2)
      BY <1>1, <1>2, <1>6, <3>1
    <3>4. S2[J[i]] = S[J[i]] /\ Size(S2, J[i]) = Size(S, J[i])
      BY <1>7, <3>3, Zenon
    <3>5. K[i] \in 1..Size(S, J[i]) /\ u[i] = to_string(S[J[i]])[K[i]]
      BY <1>6, <3>1, Zenon
    <3> QED  BY <3>2, <3>3, <3>4, <3>5, Zenon
  <2>2. CASE ~ (i <= U)
    <3>1. i \in Nat /\ i \in 1..(U + L) /\ i - U \in 1..L
      BY <1>1, <1>3, <2>2
    <3>2. J2[i] = N + 1 /\ K2[i] = i - U /\ v[i] = t[i - U]
      BY <1>3, <1>5, <2>2, <3>1
    <3>3. N + 1 \in 1..Len(S2)
      BY <1>1, <1>2
    <3> QED  BY <1>8, <3>1, <3>2, <3>3 DEF t
  <2> QED  BY <2>1, <2>2
<1>10. \A i, j \in 1..U : i < j => Follows(S, J, K, i, j)
  BY DEF Stream, U
<1>11. ASSUME NEW i \in 1..U PROVE Size(S, J[i]) - K[i] <= U - i
  <2>1. U \in 1..U /\ u # <<>>
    <3>1. U \in 1..U /\ U # 0
      BY <1>1
    <3> QED  BY <3>1, EmptySeq DEF U
  <2>2. K[U] = Size(S, J[U])
    BY <2>1 DEF Ends, U
  <2>3. K[i] \in Nat /\ Size(S, J[i]) \in Nat
    <3>1. J[i] \in 1..N
      BY <1>6
    <3>2. S[J[i]] \in ElevatorMessage
      BY <3>1, ElementOfSeq DEF N
    <3> QED  BY <3>2, MessageText DEF Size
  <2>4. CASE i = U
    BY <1>1, <2>2, <2>3, <2>4
  <2>5. CASE i # U
    <3>1. i < U
      BY <1>1, <2>5
    <3>2. Follows(S, J, K, i, U)
      BY <1>10, <2>1, <3>1
    <3> DEFINE rest == Size(S, J[i]) - K[i]
    <3>3. IF U - i <= rest THEN J[U] = J[i] /\ K[U] = K[i] + (U - i)
          ELSE TRUE
      BY <3>2 DEF Follows
    <3>4. CASE U - i <= rest
      <4>1. J[U] = J[i] /\ K[U] = K[i] + (U - i)
        BY <3>3, <3>4
      <4>2. Size(S, J[i]) = K[i] + (U - i)
        BY <2>2, <4>1
      <4> QED  BY <1>1, <2>3, <4>2
    <3>5. CASE ~ (U - i <= rest)
      BY <1>1, <2>3, <3>5
    <3> QED  BY <3>4, <3>5
  <2> QED  BY <2>4, <2>5
<1>12. ASSUME NEW i \in 1..Len(v), NEW j \in 1..Len(v), i < j PROVE Follows(S2, J2, K2, i, j)
  <2>1. i \in Nat /\ j \in Nat /\ j <= U + L /\ 1 <= i
    BY <1>1, <1>3
  <2>2. CASE j <= U
    <3>1. i \in 1..U /\ j \in 1..U /\ i <= U
      BY <1>1, <1>12, <2>1, <2>2
    <3>2. Follows(S, J, K, i, j)
      BY <1>10, <1>12, <3>1
    <3>3. J2[i] = J[i] /\ K2[i] = K[i] /\ J2[j] = J[j] /\ K2[j] = K[j]
      BY <1>5, <2>1, <2>2, <3>1
    <3>4. Size(S2, J[i]) = Size(S, J[i])
      BY <1>6, <1>7, <3>1
    <3> QED  BY <3>2, <3>3, <3>4 DEF Follows
  <2>3. CASE i <= U /\ ~ (j <= U)
    <3>1. i \in 1..U
      BY <2>1, <2>3, <1>1
    <3>2. J2[i] = J[i] /\ K2[i] = K[i] /\ J2[j] = N + 1 /\ K2[j] = j - U
      BY <1>5, <2>1, <2>3
    <3>3. Size(S2, J[i]) = Size(S, J[i]) /\ J[i] \in 1..N
      BY <1>6, <1>7, <3>1
    <3>4. Size(S, J[i]) - K[i] <= U - i
      BY <1>11, <3>1
    <3> DEFINE rest == Size(S, J[i]) - K[i]
    <3>5. rest \in Int
      <4>1. S[J[i]] \in ElevatorMessage
        BY <3>3, ElementOfSeq DEF N
      <4> QED  BY <1>6, <3>1, <4>1, MessageText DEF Size
    <3>6. rest <= U - i
      BY <3>4
    <3> HIDE DEF rest
    <3>7. ~ (j - i <= rest) /\ (j - i = rest + 1 => j - U = 1)
      BY <1>1, <2>1, <2>3, <3>5, <3>6, PastTheEnd
    <3>8. N + 1 > J[i]
      BY <1>1, <3>3
    <3> QED  BY <3>2, <3>3, <3>7, <3>8 DEF Follows, rest
  <2>4. CASE ~ (i <= U)
    <3>1. ~ (j <= U)
      BY <1>1, <1>12, <2>1, <2>4
    <3>2. J2[i] = N + 1 /\ K2[i] = i - U /\ J2[j] = N + 1 /\ K2[j] = j - U
      BY <1>5, <2>1, <2>4, <3>1
    <3>3. j - i <= L - (i - U) /\ j - U = (i - U) + (j - i)
      BY <1>1, <2>1
    <3> QED  BY <1>8, <3>2, <3>3 DEF Follows
  <2> QED  BY <2>2, <2>3, <2>4
<1>13. Stream(S2, v, J2, K2)
  BY <1>9, <1>12 DEF Stream
<1>14. Ends(S2, v, J2, K2)
  <2>1. Len(v) \in Nat /\ ~ (Len(v) <= U) /\ Len(v) - U = L
    BY <1>1, <1>3
  <2>2. J2[Len(v)] = N + 1 /\ K2[Len(v)] = L
    BY <1>5, <2>1
  <2> QED  BY <1>8, <2>2 DEF Ends
<1> QED  BY <1>4, <1>13, <1>14 DEF J2, K2, v, t, S2, N, U

LEMMA HistorySent ==
    ASSUME NEW S \in Seq(ElevatorMessage), NEW u \in Text,
           NEW J \in [Nat -> Nat], NEW K \in [Nat -> Nat], NEW h, NEW at, Len(h) \in Nat,
           History(S, u, J, K, h, at), NEW m \in ElevatorMessage
    PROVE  LET J2 == [i \in Nat |-> IF i <= Len(u) THEN J[i] ELSE Len(S) + 1]
               K2 == [i \in Nat |-> IF i <= Len(u) THEN K[i] ELSE i - Len(u)]
           IN  History(Append(S, m), u \o to_string(m), J2, K2, h, at)
<1> DEFINE J2 == [i \in Nat |-> IF i <= Len(u) THEN J[i] ELSE Len(S) + 1]
           K2 == [i \in Nat |-> IF i <= Len(u) THEN K[i] ELSE i - Len(u)]
           S2 == Append(S, m)
           v == u \o to_string(m)
<1>1. Len(u) \in Nat /\ Len(S) \in Nat /\ Len(v) \in Nat
  <2>1. v \in Text
    BY MessageText, ConcatProperties DEF Text
  <2> HIDE DEF v
  <2> QED  BY <2>1, LenProperties DEF Text
<1>2. Len(S2) = Len(S) + 1 /\ \A j \in 1..Len(S) : S2[j] = S[j]
  BY AppendProperties
<1>3. /\ at \in [1..Len(h) -> 1..Len(S)]
      /\ \A i, j \in 1..Len(h) : i < j => at[i] < at[j]
      /\ \A i \in 1..Len(h) : BecomesOf(h[i], S[at[i]])
      /\ \A i \in 1..Len(h), j \in 1..Len(u) : K[j] = 1 => at[i] < J[j]
  BY DEF History
<1>4. /\ \A i \in Nat : i <= Len(u) => J2[i] = J[i] /\ K2[i] = K[i]
      /\ \A i \in Nat : ~ (i <= Len(u)) => J2[i] = Len(S) + 1
  OBVIOUS
<1> HIDE DEF J2, K2, S2, v
<1>5. at \in [1..Len(h) -> 1..Len(S2)]
  <2>1. 1..Len(S) \subseteq 1..Len(S2)
    BY <1>1, <1>2
  <2> QED  BY <1>3, <2>1
<1>6. \A i \in 1..Len(h) : BecomesOf(h[i], S2[at[i]])
  BY <1>2, <1>3
<1>7. ASSUME NEW i \in 1..Len(h), NEW j \in 1..Len(v), K2[j] = 1 PROVE at[i] < J2[j]
  <2>1. j \in Nat /\ 1 <= j
    BY <1>1
  <2>2. CASE j <= Len(u)
    <3>1. j \in 1..Len(u)
      BY <1>1, <2>1, <2>2
    <3>2. K[j] = 1 /\ J2[j] = J[j]
      BY <1>4, <1>7, <2>1, <2>2, Zenon
    <3> QED  BY <1>3, <3>1, <3>2, Zenon
  <2>3. CASE ~ (j <= Len(u))
    <3>1. J2[j] = Len(S) + 1
      BY <1>4, <2>1, <2>3
    <3>2. at[i] \in 1..Len(S)
      BY <1>3, Zenon
    <3>3. \A N \in Nat : \A a \in 1..N : a < N + 1
      OBVIOUS
    <3> QED  BY <1>1, <3>1, <3>2, <3>3, Zenon
  <2> QED  BY <2>2, <2>3
<1> QED  BY <1>3, <1>5, <1>6, <1>7 DEF History, J2, K2, S2, v

LEMMA OneMore ==
    ASSUME NEW N \in Nat
    PROVE  /\ N + 1 \in Nat /\ N + 1 \in 1..(N + 1) /\ ~ (N + 1 <= N)
           /\ 1..N \subseteq 1..(N + 1)
           /\ \A i \in 1..(N + 1) : i = N + 1 \/ (i \in 1..N /\ i <= N)
<1>1. N + 1 \in Nat /\ N + 1 \in 1..(N + 1) /\ ~ (N + 1 <= N)
  OBVIOUS
<1>2. 1..N \subseteq 1..(N + 1)
  OBVIOUS
<1>3. \A i \in 1..(N + 1) : i # N + 1 => i \in 1..N /\ i <= N
  OBVIOUS
<1> QED  BY <1>1, <1>2, <1>3, Zenon

LEMMA HistoryRead ==
    ASSUME NEW S, NEW u \in Text, NEW J \in [Nat -> Nat], NEW K \in [Nat -> Nat],
           NEW A, NEW h \in Seq(A), NEW at,
           History(S, u, J, K, h, at), NEW n \in 0..Len(u)
    PROVE  LET r == SubSeq(u, n + 1, Len(u))
           IN  /\ History(S, r, Shifted(J, n), Shifted(K, n), h, at)
               /\ History(S, SubSeq(u, 1, n), J, K, h, at)
               /\ \A x \in A :
                     Stream(S, u, J, K) /\ n > 0 /\ K[1] = 1 /\ J[1] \in 1..Len(S)
                        /\ BecomesOf(x, S[J[1]])
                     => \E b : History(S, r, Shifted(J, n), Shifted(K, n), Append(h, x), b)
<1> DEFINE r == SubSeq(u, n + 1, Len(u))
           c == SubSeq(u, 1, n)
           J2 == Shifted(J, n)
           K2 == Shifted(K, n)
<1>1. Len(r) = Len(u) - n /\ Len(c) = n /\ Len(u) \in Nat /\ Len(h) \in Nat
  BY Remaining, LenProperties
<1>2. n \in Nat /\ n <= Len(u)
  BY <1>1
<1>3. /\ at \in [1..Len(h) -> 1..Len(S)]
      /\ \A i, j \in 1..Len(h) : i < j => at[i] < at[j]
      /\ \A i \in 1..Len(h) : BecomesOf(h[i], S[at[i]])
      /\ \A i \in 1..Len(h), j \in 1..Len(u) : K[j] = 1 => at[i] < J[j]
  BY DEF History
<1>4. \A j \in Nat : J2[j] = J[j + n] /\ K2[j] = K[j + n]
  BY DEF Shifted
<1> HIDE DEF r, c, J2, K2
<1>5. \A j \in 1..Len(r) : j \in Nat /\ j + n \in 1..Len(u)
  BY <1>1, <1>2
<1>6. \A i \in 1..Len(h), j \in 1..Len(r) : K2[j] = 1 => at[i] < J2[j]
  BY <1>3, <1>4, <1>5
<1>7. History(S, r, J2, K2, h, at)
  BY <1>3, <1>6 DEF History
<1>8. History(S, c, J, K, h, at)
  <2>1. \A j \in 1..Len(c) : j \in 1..Len(u)
    BY <1>1, <1>2
  <2> QED  BY <1>3, <2>1 DEF History
<1>9. ASSUME NEW x \in A, Stream(S, u, J, K), n > 0, K[1] = 1, J[1] \in 1..Len(S),
             BecomesOf(x, S[J[1]])
      PROVE  \E b : History(S, r, J2, K2, Append(h, x), b)
  <2> DEFINE k == Len(h) + 1
             g == Append(h, x)
             b == [i \in 1..k |-> IF i <= Len(h) THEN at[i] ELSE J[1]]
  <2>1. k \in Nat /\ k \in 1..k /\ ~ (k <= Len(h)) /\ 1..Len(h) \subseteq 1..k
        /\ \A i \in 1..k : i = k \/ (i \in 1..Len(h) /\ i <= Len(h))
    BY <1>1, OneMore, Zenon
  <2>2. Len(g) = k /\ g[k] = x /\ \A i \in 1..Len(h) : g[i] = h[i]
    BY AppendProperties
  <2>3. b \in [1..k -> 1..Len(S)] /\ b[k] = J[1] /\ \A i \in 1..Len(h) : b[i] = at[i]
    <3> HIDE DEF k
    <3>1. \A i \in 1..k : (IF i <= Len(h) THEN at[i] ELSE J[1]) \in 1..Len(S)
      BY <1>3, <1>9, <2>1
    <3>2. \A i \in 1..Len(h) : i <= Len(h) /\ i \in 1..k
      BY <2>1, <1>1
    <3> QED  BY <2>1, <3>1, <3>2
  <2> HIDE DEF k, g, b
  <2>4. 1 \in 1..Len(u)
    BY <1>1, <1>2, <1>9
  <2>5. ASSUME NEW i \in 1..k, NEW j \in 1..k, i < j PROVE b[i] < b[j]
    <3>1. i \in 1..Len(h)
      BY <1>1, <2>1, <2>5 DEF k
    <3>2. CASE j = k
      BY <1>3, <1>9, <2>3, <2>4, <3>1, <3>2
    <3>3. CASE j # k
      <4>1. j \in 1..Len(h)
        BY <2>1, <3>3
      <4> QED  BY <1>3, <2>3, <2>5, <3>1, <4>1
    <3> QED  BY <3>2, <3>3
  <2>6. ASSUME NEW i \in 1..k PROVE BecomesOf(g[i], S[b[i]])
    <3>1. CASE i = k
      BY <1>9, <2>2, <2>3, <3>1
    <3>2. CASE i \in 1..Len(h)
      BY <1>3, <2>2, <2>3, <3>2
    <3> QED  BY <2>1, <3>1, <3>2
  <2>7. ASSUME NEW j \in 1..Len(r), K2[j] = 1 PROVE J[1] < J2[j]
    <3>1. j \in Nat /\ j + n \in 1..Len(u) /\ j >= 1 /\ 1 < j + n
      BY <1>1, <1>2, <1>5, <1>9
    <3>2. K[j + n] = 1 /\ J2[j] = J[j + n]
      BY <1>4, <2>7, <3>1
    <3>3. Follows(S, J, K, 1, j + n)
      BY <1>9, <2>4, <3>1 DEF Stream
    <3>4. ~ (K[j + n] = 1 + ((j + n) - 1))
      BY <1>2, <1>9, <3>1, <3>2
    <3>5. J[j + n] > J[1]
      BY <1>9, <3>3, <3>4 DEF Follows
    <3> QED  BY <1>9, <3>1, <3>2, <3>5
  <2>8. ASSUME NEW i \in 1..k, NEW j \in 1..Len(r), K2[j] = 1 PROVE b[i] < J2[j]
    <3>1. CASE i = k
      BY <2>3, <2>7, <2>8, <3>1
    <3>2. CASE i \in 1..Len(h)
      BY <1>6, <2>3, <2>8, <3>2
    <3> QED  BY <2>1, <3>1, <3>2
  <2>9. History(S, r, J2, K2, g, b)
    BY <2>2, <2>3, <2>5, <2>6, <2>8 DEF History
  <2> QED  BY <2>9 DEF g
<1> QED  BY <1>7, <1>8, <1>9 DEF r, c, J2, K2

-----------------------------------------------------------------------------
(* The invariant: the unread text is made of pieces of messages, and what  *)
(* was handled came of messages before them.                               *)

Parsed == {from_string(s) : s \in Text}

TextTypeOK ==
    /\ sent \in Seq(ElevatorMessage) /\ unread \in Text /\ handled \in Seq(Parsed)
    /\ open \in BOOLEAN

InOrder ==
    \E J, K \in [Nat -> Nat] : \E at \in [1..Len(handled) -> 1..Len(sent)] :
        /\ Stream(sent, unread, J, K)
        /\ open => Ends(sent, unread, J, K)
        /\ History(sent, unread, J, K, handled, at)

TextInv == TextTypeOK /\ InOrder

LEMMA TextInit == Init => TextInv
<1> SUFFICES ASSUME Init PROVE TextInv
  OBVIOUS
<1>1. sent = <<>> /\ unread = <<>> /\ handled = <<>> /\ open = TRUE
  BY DEF Init
<1>2. TextTypeOK
  BY <1>1, TextTypes DEF TextTypeOK
<1>3. InOrder
  <2> DEFINE J == [i \in Nat |-> 0]
             at == [i \in 1..0 |-> 1]
  <2>1. J \in [Nat -> Nat] /\ at \in [1..0 -> 1..0] /\ Len(<<>>) = 0 /\ \A i \in 1..0 : FALSE
    OBVIOUS
  <2> HIDE DEF J, at
  <2>2. Stream(<<>>, <<>>, J, J) /\ Ends(<<>>, <<>>, J, J) /\ History(<<>>, <<>>, J, J, <<>>, at)
    BY <2>1 DEF Stream, Ends, History
  <2>3. at \in [1..Len(handled) -> 1..Len(sent)]
    BY <1>1, <2>1
  <2> QED  BY <1>1, <2>1, <2>2, <2>3 DEF InOrder
<1> QED  BY <1>2, <1>3 DEF TextInv

LEMMA TextSend == ASSUME TextInv, NEW m \in ElevatorMessage, Send(m) PROVE TextInv'
<1> DEFINE t == to_string(m)
<1>1. /\ sent \in Seq(ElevatorMessage) /\ unread \in Text /\ handled \in Seq(Parsed)
      /\ open \in BOOLEAN
  BY DEF TextInv, TextTypeOK
<1>2. open /\ sent' = Append(sent, m) /\ unread' = unread \o t /\ handled' = handled /\ open' = open
  BY DEF Send
<1>3. TextTypeOK'
  <2>1. t \in Text
    BY MessageText
  <2> HIDE DEF t
  <2>2. unread \o t \in Text
    BY <1>1, <2>1, ConcatProperties DEF Text
  <2>3. Append(sent, m) \in Seq(ElevatorMessage)
    BY <1>1, AppendProperties
  <2> QED  BY <1>1, <1>2, <2>2, <2>3 DEF TextTypeOK
<1>4. PICK J \in [Nat -> Nat], K \in [Nat -> Nat], at \in [1..Len(handled) -> 1..Len(sent)] :
         /\ Stream(sent, unread, J, K)
         /\ open => Ends(sent, unread, J, K)
         /\ History(sent, unread, J, K, handled, at)
  BY DEF TextInv, InOrder
<1> DEFINE J2 == [i \in Nat |-> IF i <= Len(unread) THEN J[i] ELSE Len(sent) + 1]
           K2 == [i \in Nat |-> IF i <= Len(unread) THEN K[i] ELSE i - Len(unread)]
<1>5. /\ J2 \in [Nat -> Nat] /\ K2 \in [Nat -> Nat]
      /\ Stream(Append(sent, m), unread \o t, J2, K2)
      /\ Ends(Append(sent, m), unread \o t, J2, K2)
  BY <1>1, <1>2, <1>4, StreamGrows
<1>6. History(Append(sent, m), unread \o t, J2, K2, handled, at)
  <2>1. Len(handled) \in Nat
    BY <1>1, LenProperties
  <2> QED  BY <1>1, <1>4, <2>1, HistorySent
<1> HIDE DEF J2, K2, t
<1>7. at \in [1..Len(handled') -> 1..Len(sent')]
  BY <1>2, <1>6 DEF History
<1>8. InOrder'
  BY <1>2, <1>5, <1>6, <1>7 DEF InOrder
<1> QED  BY <1>3, <1>8 DEF TextInv

LEMMA TextRead == ASSUME TextInv, NEW n \in 1..BufferSize, Read(n) PROVE TextInv'
<1> DEFINE r == SubSeq(unread, n + 1, Len(unread))
           c == SubSeq(unread, 1, n)
           x == from_string(c)
<1>1. /\ sent \in Seq(ElevatorMessage) /\ unread \in Text /\ handled \in Seq(Parsed)
      /\ open \in BOOLEAN /\ Len(unread) \in Nat
  BY LenProperties DEF TextInv, TextTypeOK, Text
<1>2. n \in 1..Len(unread) /\ n \in 0..Len(unread) /\ n > 0
  <2>1. n \in Nat /\ n >= 1 /\ n <= Len(unread)
    BY MessagesAssumption DEF Read
  <2> QED  BY <1>1, <2>1
<1>3. /\ unread' = r /\ sent' = sent /\ open' = open
      /\ handled' = IF x = None THEN handled ELSE Append(handled, x)
  BY DEF Read
<1>4. r \in Text /\ c \in Text /\ x \in Parsed
  <2>1. r \in Text /\ c \in Text
    BY <1>1, <1>2, Remaining
  <2> QED  BY <2>1 DEF Parsed
<1>5. PICK J \in [Nat -> Nat], K \in [Nat -> Nat], at \in [1..Len(handled) -> 1..Len(sent)] :
         /\ Stream(sent, unread, J, K)
         /\ open => Ends(sent, unread, J, K)
         /\ History(sent, unread, J, K, handled, at)
  BY DEF TextInv, InOrder
<1> DEFINE J2 == Shifted(J, n)
           K2 == Shifted(K, n)
<1>6. /\ Stream(sent, r, J2, K2) /\ J2 \in [Nat -> Nat] /\ K2 \in [Nat -> Nat]
      /\ Ends(sent, unread, J, K) => Ends(sent, r, J2, K2)
  BY <1>1, <1>2, <1>5, StreamRemains
<1>7. CASE x = None
  <2>1. handled' = handled
    BY <1>3, <1>7
  <2>2. TextTypeOK'
    BY <1>1, <1>3, <1>4, <2>1 DEF TextTypeOK
  <2>3. History(sent, r, J2, K2, handled, at)
    BY <1>1, <1>2, <1>5, HistoryRead
  <2>4. at \in [1..Len(handled') -> 1..Len(sent')]
    BY <1>3, <2>1
  <2> HIDE DEF r, J2, K2
  <2>5. InOrder'
    BY <1>3, <1>5, <1>6, <2>1, <2>3, <2>4 DEF InOrder
  <2> QED  BY <2>2, <2>5 DEF TextInv
<1>8. CASE x # None
  <2> DEFINE g == Append(handled, x)
  <2>1. handled' = g
    BY <1>3, <1>8
  <2>2. g \in Seq(Parsed)
    BY <1>1, <1>4, AppendProperties
  <2>3. TextTypeOK'
    BY <1>1, <1>3, <1>4, <2>1, <2>2 DEF TextTypeOK
  <2>4. K[1] = 1 /\ J[1] \in 1..Len(sent) /\ BecomesOf(x, sent[J[1]])
    BY <1>1, <1>2, <1>5, <1>8, ReadMessage
  <2> HIDE DEF x
  <2>5. PICK b : History(sent, r, J2, K2, g, b)
    BY <1>1, <1>2, <1>4, <1>5, <2>4, HistoryRead
  <2> HIDE DEF r, J2, K2, g
  <2>6. b \in [1..Len(handled') -> 1..Len(sent')]
    BY <1>3, <2>1, <2>5 DEF History
  <2>7. InOrder'
    BY <1>3, <1>5, <1>6, <2>1, <2>5, <2>6 DEF InOrder
  <2> QED  BY <2>3, <2>7 DEF TextInv
<1> QED  BY <1>7, <1>8

LEMMA TextFail == ASSUME TextInv, NEW n \in 0..Len(unread), Fail(n) PROVE TextInv'
<1> DEFINE c == SubSeq(unread, 1, n)
<1>1. /\ sent \in Seq(ElevatorMessage) /\ unread \in Text /\ handled \in Seq(Parsed)
  BY DEF TextInv, TextTypeOK
<1>2. open' = FALSE /\ unread' = c /\ sent' = sent /\ handled' = handled
  BY DEF Fail
<1>3. c \in Text
  BY <1>1, Remaining
<1>4. PICK J \in [Nat -> Nat], K \in [Nat -> Nat], at \in [1..Len(handled) -> 1..Len(sent)] :
         /\ Stream(sent, unread, J, K)
         /\ open => Ends(sent, unread, J, K)
         /\ History(sent, unread, J, K, handled, at)
  BY DEF TextInv, InOrder
<1>5. Stream(sent, c, J, K)
  BY <1>1, <1>4, StreamRemains
<1>6. History(sent, c, J, K, handled, at)
  BY <1>1, <1>4, HistoryRead
<1> HIDE DEF c
<1>7. TextTypeOK'
  BY <1>1, <1>2, <1>3 DEF TextTypeOK
<1>8. at \in [1..Len(handled') -> 1..Len(sent')]
  BY <1>2, <1>4
<1>9. InOrder'
  BY <1>2, <1>4, <1>5, <1>6, <1>8 DEF InOrder
<1> QED  BY <1>7, <1>9 DEF TextInv

LEMMA TextStep == TextInv /\ [Next]_vars => TextInv'
<1> SUFFICES ASSUME TextInv, [Next]_vars PROVE TextInv'
  OBVIOUS
<1>1. ASSUME NEW m \in ElevatorMessage, Send(m) PROVE TextInv'
  BY <1>1, TextSend
<1>2. ASSUME NEW n \in 1..BufferSize, Read(n) PROVE TextInv'
  BY <1>2, TextRead
<1>3. ASSUME NEW n \in 0..Len(unread), Fail(n) PROVE TextInv'
  BY <1>3, TextFail
<1>4. CASE UNCHANGED vars
  <2>1. sent' = sent /\ unread' = unread /\ handled' = handled /\ open' = open
    BY <1>4 DEF vars
  <2>2. TextTypeOK'
    BY <2>1 DEF TextInv, TextTypeOK
  <2>3. InOrder'
    BY <2>1 DEF TextInv, InOrder
  <2> QED  BY <2>2, <2>3 DEF TextInv
<1> QED  BY <1>1, <1>2, <1>3, <1>4 DEF Next

(* The text on its way, and the messages that have been handled, are those *)
(* that were sent, in their order (send_message, message_listener).        *)
THEOREM TextInOrder == Spec => []TextInv
BY TextInit, TextStep, PTL DEF Spec

(* What is handled was sent: however the text is cut into reads and        *)
(* wherever the connection fails, each message handled is one of those     *)
(* sent, in their order and once each, or one of them with its timestamp   *)
(* shortened, or with its queue shortened and its obstruction missing      *)
(* (from_string, message_listener).                                        *)
THEOREM NothingMadeUp == Spec => []HandledWereSent
<1>1. TextInv => HandledWereSent
  <2> SUFFICES ASSUME TextInv PROVE HandledWereSent
    OBVIOUS
  <2>1. DOMAIN sent = 1..Len(sent) /\ DOMAIN handled = 1..Len(handled)
    BY LenProperties DEF TextInv, TextTypeOK
  <2>2. PICK J \in [Nat -> Nat], K \in [Nat -> Nat], at \in [1..Len(handled) -> 1..Len(sent)] :
           History(sent, unread, J, K, handled, at)
    BY DEF TextInv, InOrder
  <2> QED  BY <2>1, <2>2 DEF HandledWereSent, History
<1> QED  BY <1>1, TextInOrder, PTL

(* A read that returns one message hands over just that message, whatever  *)
(* the message is (to_string, from_string).                                *)
THEOREM WholeMessagesHandled == Spec => WholeReadsHandled
<1>1. ASSUME TextInv, [Next]_vars, NEW m \in ElevatorMessage,
             open' = open, unread = to_string(m) \o unread', vars' # vars
      PROVE  handled' = Append(handled, m)
  <2> DEFINE t == to_string(m)
             k == Len(unread)
             w == Len(unread')
  <2>1. unread \in Text /\ t \in Text /\ unread' \in Text /\ open \in BOOLEAN
    <3>1. TextInv'
      BY <1>1, TextStep
    <3> QED  BY <1>1, <3>1, MessageText DEF TextInv, TextTypeOK
  <2>2. Len(t) \in Nat \ {0} /\ k \in Nat /\ w \in Nat
    BY <2>1, MessageText, LenProperties DEF Text
  <2>3. k = Len(t) + w /\ \A i \in 1..Len(t) : unread[i] = t[i]
    <3>1. unread = t \o unread'
      BY <1>1
    <3> HIDE DEF t
    <3> QED  BY <2>1, <2>2, <3>1, ConcatProperties DEF Text
  <2> HIDE DEF t
  <2>4. ASSUME NEW x \in ElevatorMessage, Send(x) PROVE FALSE
    <3> DEFINE y == to_string(x)
    <3>1. y \in Text /\ Len(y) \in Nat \ {0} /\ unread' = unread \o y
      BY <2>4, MessageText DEF Send
    <3> HIDE DEF y
    <3>2. w = k + Len(y)
      BY <2>1, <3>1, ConcatProperties DEF Text
    <3> HIDE DEF k, w
    <3> QED  BY <2>2, <2>3, <3>1, <3>2
  <2>5. ASSUME NEW n \in 0..Len(unread), Fail(n) PROVE FALSE
    BY <1>1, <2>5 DEF Fail
  <2>6. ASSUME NEW n \in 1..BufferSize, Read(n) PROVE handled' = Append(handled, m)
    <3> DEFINE c == SubSeq(unread, 1, n)
    <3>1. n \in Nat /\ n <= k /\ unread' = SubSeq(unread, n + 1, Len(unread))
      BY <2>6, MessagesAssumption DEF Read
    <3>2. n \in 0..Len(unread)
      BY <2>2, <3>1
    <3>3. w = k - n /\ c \in Text /\ Len(c) = n /\ \A i \in 1..n : c[i] = unread[i]
      BY <2>1, <3>1, <3>2, Remaining
    <3> HIDE DEF c, k, w
    <3>4. n = Len(t)
      BY <2>2, <2>3, <3>1, <3>3
    <3>5. c = t
      BY <2>1, <2>3, <3>3, <3>4, SeqEqual DEF Text
    <3>6. from_string(c) = m /\ m # None
      BY <3>5, FromStringOfToString DEF t
    <3>7. handled' = IF from_string(c) = None THEN handled ELSE Append(handled, from_string(c))
      BY <2>6 DEF Read, c
    <3> QED  BY <3>6, <3>7
  <2>7. Next
    BY <1>1 DEF vars
  <2> QED  BY <2>4, <2>5, <2>6, <2>7 DEF Next
<1>2. TextInv /\ [Next]_vars =>
         [\A m \in ElevatorMessage :
            open' = open /\ unread = to_string(m) \o unread' => handled' = Append(handled, m)]_vars
  BY <1>1, Zenon
<1> QED  BY <1>2, TextInOrder, PTL DEF Spec, WholeReadsHandled
=============================================================================
