------------------------- MODULE Middleware_proofs -------------------------
(***************************************************************************)
(* Proofs about Middleware, for bodies of any chunks, any limit on them    *)
(* and any number of messages: the application is given the messages of    *)
(* the server, and the body an agent vouches for.                          *)
(***************************************************************************)
EXTENDS Middleware, FiniteSetTheorems, SequenceTheorems, TLAPS

(* Induction over the natural numbers, for a set in the place of a         *)
(* predicate: a set of them that has an element has a least one,           *)
LEMMA LeastNat ==
  ASSUME NEW S, S \subseteq Nat, S # {}
  PROVE  \E n \in S : \A m \in S : n <= m
<1> DEFINE R == StrictSubsetOrdering(Nat)
           T == {1 .. n : n \in S}
<1>1. IsWellFoundedOn(R, FiniteSubsetsOf(Nat))
  BY FS_StrictSubsetOrderingWellFounded
<1>2. T \subseteq FiniteSubsetsOf(Nat)
  <2>1. 1 \in Int /\ \A n \in S : n \in Int
    OBVIOUS
  <2>2. \A n \in S : IsFiniteSet(1 .. n) /\ 1 .. n \subseteq Nat
    BY <2>1, FS_Interval
  <2>3. QED
    BY <2>2 DEF FiniteSubsetsOf
<1>3. T # {}
  OBVIOUS
<1> HIDE DEF R, T
<1>4. PICK x \in T : \A y \in T : <<y, x>> \notin R
  BY <1>1, <1>2, <1>3, WFMin
<1>5. PICK n \in S : x = 1 .. n
  BY DEF T
<1>6. ASSUME NEW m \in S, ~(n <= m)
      PROVE  FALSE
  <2>1. n \in Nat /\ m \in Nat /\ m < n
    BY <1>6
  <2>2. n \in 1 .. n /\ n \notin 1 .. m /\ 1 .. m \subseteq 1 .. n
    BY <2>1
  <2>3. 1 .. m \in SUBSET Nat /\ 1 .. n \in SUBSET Nat
    BY <2>1
  <2>4. <<1 .. m, 1 .. n>> \in R
    BY <2>2, <2>3 DEF R, StrictSubsetOrdering
  <2>5. 1 .. m \in T
    BY DEF T
  <2>6. QED
    BY <1>4, <1>5, <2>4, <2>5
<1>7. QED
  BY <1>6

(* so one that has 0, and with a number the next, has them all.            *)
LEMMA SetInduction ==
  ASSUME NEW S, 0 \in S, \A n \in Nat : n \in S => n + 1 \in S
  PROVE  Nat \subseteq S
<1> SUFFICES ASSUME Nat \ S # {}
             PROVE  FALSE
  OBVIOUS
<1>1. PICK n \in Nat \ S : \A m \in Nat \ S : n <= m
  BY LeastNat
<1>2. n # 0
  BY <1>1
<1>3. n - 1 \in Nat
  BY <1>1, <1>2
<1>4. n - 1 \in S
  BY <1>1, <1>3
<1>5. QED
  BY <1>1, <1>3, <1>4

-----------------------------------------------------------------------------

(* g concatenates the first n of the sequences ss, as FlattenSeq does.     *)
Flattens(g, ss, n) ==
  g = [i \in 1 .. n |-> IF i = 1 THEN ss[i] ELSE g[i - 1] \o ss[i]]

LEMMA FlattensIff ==
  ASSUME NEW g, NEW ss, NEW n
  PROVE  Flattens(g, ss, n) <=>
           /\ g = [i \in 1 .. n |-> g[i]]
           /\ \A i \in 1 .. n : g[i] = IF i = 1 THEN ss[i] ELSE g[i - 1] \o ss[i]
<1> DEFINE e == [i \in 1 .. n |-> IF i = 1 THEN ss[i] ELSE g[i - 1] \o ss[i]]
<1>1. Flattens(g, ss, n) <=> g = e
  BY DEF Flattens
<1>2. \A i \in 1 .. n : e[i] = IF i = 1 THEN ss[i] ELSE g[i - 1] \o ss[i]
  OBVIOUS
<1>3. e = [i \in 1 .. n |-> e[i]]
  OBVIOUS
<1> HIDE DEF e
<1>4. ASSUME g = e
      PROVE  /\ g = [i \in 1 .. n |-> g[i]]
             /\ \A i \in 1 .. n : g[i] = IF i = 1 THEN ss[i] ELSE g[i - 1] \o ss[i]
  <2>1. g = [i \in 1 .. n |-> g[i]]
    BY <1>3, <1>4
  <2>2. \A i \in 1 .. n : g[i] = e[i]
    BY <1>4
  <2>3. QED
    BY <1>2, <2>1, <2>2
<1>5. ASSUME g = [i \in 1 .. n |-> g[i]],
             \A i \in 1 .. n : g[i] = IF i = 1 THEN ss[i] ELSE g[i - 1] \o ss[i]
      PROVE  g = e
  <2>1. \A i \in 1 .. n : g[i] = e[i]
    BY <1>2, <1>5
  <2>2. QED
    BY <1>3, <1>5, <2>1
<1>6. QED
  BY <1>1, <1>4, <1>5

(* There is such a g: with one for n there is one for n + 1.               *)
LEMMA FlattensExists ==
  ASSUME NEW ss, NEW n \in Nat
  PROVE  \E g : Flattens(g, ss, n)
<1> DEFINE D == {m \in Nat : \E g : Flattens(g, ss, m)}
<1>1. 0 \in D
  <2> DEFINE g == [i \in 1 .. 0 |-> {}]
  <2>1. g = [i \in 1 .. 0 |-> g[i]] /\ \A i \in 1 .. 0 : FALSE
    OBVIOUS
  <2> HIDE DEF g
  <2>2. Flattens(g, ss, 0)
    BY <2>1, FlattensIff
  <2>3. QED
    BY <2>2
<1>2. ASSUME NEW m \in Nat, m \in D
      PROVE  m + 1 \in D
  <2>1. PICK g : Flattens(g, ss, m)
    BY <1>2
  <2> DEFINE new == IF m + 1 = 1 THEN ss[m + 1] ELSE g[m] \o ss[m + 1]
             h == [i \in 1 .. m + 1 |-> IF i = m + 1 THEN new ELSE g[i]]
  <2>2. \A i \in 1 .. m : g[i] = IF i = 1 THEN ss[i] ELSE g[i - 1] \o ss[i]
    BY <2>1, FlattensIff
  <2>3. new = IF m + 1 = 1 THEN ss[m + 1] ELSE g[m] \o ss[m + 1]
    OBVIOUS
  <2> HIDE DEF new
  <2>4. \A i \in 1 .. m : i \in 1 .. m + 1 /\ i # m + 1
    OBVIOUS
  <2>5. /\ \A i \in 1 .. m : h[i] = g[i]
        /\ h[m + 1] = new
        /\ h = [i \in 1 .. m + 1 |-> h[i]]
    BY <2>4
  <2> HIDE DEF h
  <2>6. \A i \in 1 .. m + 1 : h[i] = IF i = 1 THEN ss[i] ELSE h[i - 1] \o ss[i]
    <3> SUFFICES ASSUME NEW i \in 1 .. m + 1
                 PROVE  h[i] = IF i = 1 THEN ss[i] ELSE h[i - 1] \o ss[i]
      OBVIOUS
    <3>1. i # 1 => i - 1 \in 1 .. m
      OBVIOUS
    <3>2. CASE i = m + 1
      <4>1. i - 1 = m
        BY <3>2
      <4>2. QED
        BY <2>3, <2>5, <3>1, <3>2, <4>1
    <3>3. CASE i # m + 1
      <4>1. i \in 1 .. m
        BY <3>3
      <4>2. QED
        BY <2>2, <2>5, <3>1, <4>1
    <3>4. QED
      BY <3>2, <3>3
  <2>7. Flattens(h, ss, m + 1)
    BY <2>5, <2>6, FlattensIff
  <2>8. QED
    BY <2>7
<1>3. n \in D
  <2> HIDE DEF D
  <2>1. QED
    BY <1>1, <1>2, SetInduction
<1>4. QED
  BY <1>3

(* It is what FlattenSeq takes.                                            *)
LEMMA FlattenSeqIs ==
  ASSUME NEW ss, Len(ss) \in Nat \ {0}
  PROVE  \E g : Flattens(g, ss, Len(ss)) /\ FlattenSeq(ss) = g[Len(ss)]
<1> DEFINE c == CHOOSE g : Flattens(g, ss, Len(ss))
<1>1. Flattens(c, ss, Len(ss))
  BY FlattensExists
<1>2. FlattenSeq(ss) = c[Len(ss)]
  BY DEF FlattenSeq, Flattens
<1> HIDE DEF c
<1>3. QED
  BY <1>1, <1>2

(* It depends on nothing but the sequences it concatenates.                *)
LEMMA FlattensAgree ==
  ASSUME NEW ss, NEW tt, NEW n \in Nat, NEW m \in Nat, n <= m,
         \A i \in 1 .. n : tt[i] = ss[i],
         NEW g, Flattens(g, ss, n), NEW h, Flattens(h, tt, m)
  PROVE  \A i \in 1 .. n : g[i] = h[i]
<1> DEFINE D == {k \in Nat : k + 1 <= n => g[k + 1] = h[k + 1]}
<1>1. /\ \A i \in 1 .. n : g[i] = IF i = 1 THEN ss[i] ELSE g[i - 1] \o ss[i]
      /\ \A i \in 1 .. n : h[i] = IF i = 1 THEN tt[i] ELSE h[i - 1] \o tt[i]
  <2>1. \A i \in 1 .. n : i \in 1 .. m
    OBVIOUS
  <2>2. QED
    BY <2>1, FlattensIff
<1>2. 0 \in D
  BY <1>1
<1>3. ASSUME NEW k \in Nat, k \in D
      PROVE  k + 1 \in D
  <2> SUFFICES ASSUME k + 2 <= n
               PROVE  g[k + 2] = h[k + 2]
    <3>1. (k + 1) + 1 = k + 2 /\ k + 1 \in Nat
      OBVIOUS
    <3>2. QED
      BY <3>1
  <2>1. k + 2 \in 1 .. n /\ k + 2 # 1 /\ (k + 2) - 1 = k + 1 /\ k + 1 <= n
    OBVIOUS
  <2>2. g[k + 1] = h[k + 1]
    BY <1>3, <2>1
  <2>3. g[k + 2] = g[k + 1] \o ss[k + 2] /\ h[k + 2] = h[k + 1] \o tt[k + 2]
    BY <1>1, <2>1
  <2>4. QED
    BY <2>1, <2>2, <2>3
<1>4. Nat \subseteq D
  <2> HIDE DEF D
  <2>1. QED
    BY <1>2, <1>3, SetInduction
<1>5. ASSUME NEW i \in 1 .. n
      PROVE  g[i] = h[i]
  <2>1. i - 1 \in Nat /\ (i - 1) + 1 = i /\ i <= n
    OBVIOUS
  <2>2. i - 1 \in D
    BY <1>4, <2>1
  <2>3. QED
    BY <2>1, <2>2
<1>6. QED
  BY <1>5

-----------------------------------------------------------------------------

(* The body that messages add up to.                                       *)
Msg == Message \cup {Disconnect}
Parts(ms) == [i \in DOMAIN ms |-> ms[i].body]

LEMMA MsgBody == \A m \in Msg : m.body \in Seq(Chunk)
<1>1. <<>> \in Seq(Chunk) /\ \A c \in Chunk : <<c>> \in Seq(Chunk)
  OBVIOUS
<1>2. \A m \in Message : m.body = <<>> \/ \E c \in Chunk : m.body = <<c>>
  BY DEF Message
<1>3. Disconnect.body = <<>>
  BY DEF Disconnect
<1>4. QED
  BY <1>1, <1>2, <1>3 DEF Msg

LEMMA PartsShape ==
  ASSUME NEW ms \in Seq(Msg)
  PROVE  /\ Parts(ms) \in Seq(Seq(Chunk)) /\ Len(Parts(ms)) = Len(ms)
         /\ \A i \in 1 .. Len(ms) : Parts(ms)[i] = ms[i].body /\ ms[i] \in Msg
         /\ Body(ms) = FlattenSeq(Parts(ms))
<1>1. /\ Len(ms) \in Nat /\ DOMAIN ms = 1 .. Len(ms)
      /\ \A i \in 1 .. Len(ms) : ms[i] \in Msg
  BY LenProperties, ElementOfSeq
<1>2. \A i \in 1 .. Len(ms) : ms[i].body \in Seq(Chunk)
  BY <1>1, MsgBody
<1>3. Parts(ms) \in [1 .. Len(ms) -> Seq(Chunk)]
  BY <1>1, <1>2 DEF Parts
<1>4. Parts(ms) \in Seq(Seq(Chunk)) /\ Len(Parts(ms)) = Len(ms)
  BY <1>1, <1>3
<1>5. QED
  BY <1>1, <1>4 DEF Parts, Body

LEMMA BodyOfNone == Body(<<>>) = <<>>
<1>1. <<>> \in Seq(Msg) /\ Len(<<>>) = 0
  OBVIOUS
<1>2. Parts(<<>>) \in Seq(Seq(Chunk)) /\ Len(Parts(<<>>)) = 0 /\ Body(<<>>) = FlattenSeq(Parts(<<>>))
  BY <1>1, PartsShape
<1>3. Parts(<<>>) = <<>>
  BY <1>2, EmptySeq
<1>4. QED
  BY <1>2, <1>3 DEF FlattenSeq

(* One message more adds its part.                                         *)
LEMMA BodyOfNext ==
  ASSUME NEW ms \in Seq(Msg), NEW n \in Nat, n < Len(ms)
  PROVE  Body(SubSeq(ms, 1, n + 1)) = Body(SubSeq(ms, 1, n)) \o ms[n + 1].body
<1> DEFINE s == SubSeq(ms, 1, n)
           t == SubSeq(ms, 1, n + 1)
<1>1. /\ Len(ms) \in Nat /\ \A i \in 1 .. Len(ms) : ms[i] \in Msg
  BY LenProperties, ElementOfSeq
<1>2. /\ s \in Seq(Msg) /\ Len(s) = n /\ \A i \in 1 .. n : s[i] = ms[i]
      /\ t \in Seq(Msg) /\ Len(t) = n + 1 /\ \A i \in 1 .. n + 1 : t[i] = ms[i]
  BY <1>1
<1> HIDE DEF s, t
<1>3. /\ Len(Parts(s)) = n /\ Body(s) = FlattenSeq(Parts(s))
      /\ Len(Parts(t)) = n + 1 /\ Body(t) = FlattenSeq(Parts(t))
      /\ \A i \in 1 .. n : Parts(s)[i] = ms[i].body
      /\ \A i \in 1 .. n + 1 : Parts(t)[i] = ms[i].body
  BY <1>2, PartsShape
<1>4. PICK h : Flattens(h, Parts(t), n + 1) /\ Body(t) = h[n + 1]
  BY <1>3, FlattenSeqIs
<1>5. h[n + 1] = IF n + 1 = 1 THEN ms[n + 1].body ELSE h[n] \o ms[n + 1].body
  <2>1. n + 1 \in 1 .. n + 1 /\ (n + 1) - 1 = n
    OBVIOUS
  <2>2. QED
    BY <1>3, <1>4, <2>1, FlattensIff
<1>6. ms[n + 1].body \in Seq(Chunk)
  BY <1>1, MsgBody
<1>7. CASE n = 0
  <2>1. s = <<>>
    BY <1>2, <1>7, EmptySeq
  <2>2. Body(s) = <<>>
    BY <2>1, BodyOfNone
  <2>3. Body(t) = ms[n + 1].body
    BY <1>4, <1>5, <1>7
  <2>4. QED
    BY <1>6, <2>2, <2>3, ConcatEmptySeq DEF s, t
<1>8. CASE n # 0
  <2>1. PICK g : Flattens(g, Parts(s), n) /\ Body(s) = g[n]
    BY <1>3, <1>8, FlattenSeqIs
  <2>2. \A i \in 1 .. n : i \in 1 .. n + 1
    OBVIOUS
  <2>3. \A i \in 1 .. n : Parts(t)[i] = Parts(s)[i]
    BY <1>3, <2>2
  <2>4. n + 1 \in Nat /\ n <= n + 1 /\ n \in 1 .. n
    BY <1>8
  <2>5. g[n] = h[n]
    BY <1>4, <2>1, <2>3, <2>4, FlattensAgree
  <2>6. n + 1 # 1
    BY <1>8
  <2>7. Body(t) = Body(s) \o ms[n + 1].body
    BY <1>4, <1>5, <2>1, <2>5, <2>6
  <2>8. QED
    BY <2>7 DEF s, t
<1>9. QED
  BY <1>7, <1>8

(* More messages add a part, and none if they have none.                   *)
LEMMA BodyGrows ==
  ASSUME NEW ms \in Seq(Msg), NEW a \in Nat, NEW b \in Nat, a <= b, b <= Len(ms)
  PROVE  /\ Body(SubSeq(ms, 1, a)) \in Seq(Chunk)
         /\ \E u \in Seq(Chunk) : Body(SubSeq(ms, 1, b)) = Body(SubSeq(ms, 1, a)) \o u
         /\ (\A i \in a + 1 .. b : ms[i].body = <<>>) =>
              Body(SubSeq(ms, 1, b)) = Body(SubSeq(ms, 1, a))
<1> DEFINE B(n) == Body(SubSeq(ms, 1, n))
<1>1. Len(ms) \in Nat /\ \A i \in 1 .. Len(ms) : ms[i].body \in Seq(Chunk)
  BY LenProperties, ElementOfSeq, MsgBody
<1>2. \A n \in Nat : n < Len(ms) => B(n + 1) = B(n) \o ms[n + 1].body
  BY BodyOfNext
<1>3. B(0) = <<>>
  <2>1. SubSeq(ms, 1, 0) = <<>>
    BY SubSeqEmpty
  <2>2. QED
    BY <2>1, BodyOfNone
<1> HIDE DEF B
<1>4. \A n \in Nat : n <= Len(ms) => B(n) \in Seq(Chunk)
  <2> DEFINE D == {n \in Nat : n <= Len(ms) => B(n) \in Seq(Chunk)}
  <2>1. 0 \in D
    BY <1>3, EmptySeq
  <2>2. ASSUME NEW n \in Nat, n \in D
        PROVE  n + 1 \in D
    <3> SUFFICES ASSUME n + 1 <= Len(ms)
                 PROVE  B(n + 1) \in Seq(Chunk)
      OBVIOUS
    <3>1. n < Len(ms) /\ n <= Len(ms) /\ n + 1 \in 1 .. Len(ms)
      BY <1>1
    <3>2. B(n) \in Seq(Chunk) /\ ms[n + 1].body \in Seq(Chunk)
      BY <1>1, <2>2, <3>1
    <3>3. QED
      BY <1>2, <3>1, <3>2, ConcatProperties
  <2> HIDE DEF D
  <2>3. Nat \subseteq D
    BY <2>1, <2>2, SetInduction
  <2>4. QED
    BY <2>3 DEF D
<1>5. DEFINE Grown(d) ==
               a + d <= Len(ms) =>
                 /\ \E u \in Seq(Chunk) : B(a + d) = B(a) \o u
                 /\ (\A i \in a + 1 .. a + d : ms[i].body = <<>>) => B(a + d) = B(a)
             D == {d \in Nat : Grown(d)}
<1>6. B(a) \in Seq(Chunk)
  <2>1. a <= Len(ms)
    BY <1>1
  <2>2. QED
    BY <1>4, <2>1
<1>7. 0 \in D
  <2>1. a + 0 = a /\ B(a) = B(a) \o <<>> /\ <<>> \in Seq(Chunk)
    BY <1>6, ConcatEmptySeq
  <2>2. QED
    BY <2>1
<1>8. ASSUME NEW d \in Nat, d \in D
      PROVE  d + 1 \in D
  <2>0. d + 1 \in Nat
    OBVIOUS
  <2> SUFFICES Grown(d + 1)
    <3> HIDE DEF Grown
    <3>1. QED
      BY <2>0
  <2> SUFFICES ASSUME a + (d + 1) <= Len(ms)
               PROVE  /\ \E u \in Seq(Chunk) : B(a + (d + 1)) = B(a) \o u
                      /\ (\A i \in a + 1 .. a + (d + 1) : ms[i].body = <<>>) =>
                           B(a + (d + 1)) = B(a)
    BY Zenon
  <2>1. /\ a + d \in Nat /\ a + d < Len(ms) /\ a + d <= Len(ms)
        /\ a + (d + 1) = (a + d) + 1 /\ (a + d) + 1 \in 1 .. Len(ms)
        /\ (a + d) + 1 \in a + 1 .. a + (d + 1)
        /\ \A i \in a + 1 .. a + d : i \in a + 1 .. a + (d + 1)
    BY <1>1
  <2> DEFINE last == ms[(a + d) + 1].body
  <2>2. B(a + (d + 1)) = B(a + d) \o last /\ last \in Seq(Chunk)
    BY <1>1, <1>2, <2>1
  <2>3. PICK u \in Seq(Chunk) : B(a + d) = B(a) \o u
    BY <1>8, <2>1
  <2>4. B(a + d) \in Seq(Chunk)
    BY <1>4, <2>1
  <2>5. (\A i \in a + 1 .. a + d : ms[i].body = <<>>) => B(a + d) = B(a)
    BY <1>8, <2>1
  <2> HIDE DEF last
  <2>6. u \o last \in Seq(Chunk) /\ B(a + (d + 1)) = B(a) \o (u \o last)
    <3>1. u \o last \in Seq(Chunk)
      BY <2>2, ConcatProperties
    <3>2. (B(a) \o u) \o last = B(a) \o (u \o last)
      BY <1>6, <2>2, ConcatAssociative
    <3>3. B(a + (d + 1)) = (B(a) \o u) \o last
      BY <2>2, <2>3, Zenon
    <3>4. QED
      BY <3>1, <3>2, <3>3, Zenon
  <2>7. ASSUME \A i \in a + 1 .. a + (d + 1) : ms[i].body = <<>>
        PROVE  B(a + (d + 1)) = B(a)
    <3>1. B(a + d) = B(a)
      BY <2>1, <2>5, <2>7
    <3>2. last = <<>>
      BY <2>1, <2>7 DEF last
    <3>3. QED
      BY <1>6, <2>2, <3>1, <3>2, ConcatEmptySeq
  <2>8. QED
    BY <2>6, <2>7
<1>9. b - a \in D
  <2> HIDE DEF D
  <2>1. Nat \subseteq D
    BY <1>7, <1>8, SetInduction
  <2>2. QED
    BY <2>1
<1>10. a + (b - a) = b
  OBVIOUS
<1>11. QED
  BY <1>6, <1>9, <1>10 DEF B

-----------------------------------------------------------------------------

(* The inductive invariant.  Types.                                        *)
Types ==
  /\ request.digest \in Seq(Chunk)
  /\ sent \in Seq(Msg) /\ messages \in Seq(Msg) /\ read \in Seq(Msg)
  /\ taken \in 0 .. Len(sent)
  /\ agent \in BOOLEAN

(* What the application has been given, and then what the middleware       *)
(* holds, are the messages taken.                                          *)
InOrder ==
  /\ Len(read) + Len(messages) = taken
  /\ \A i \in 1 .. Len(read) : read[i] = sent[i]
  /\ \A i \in 1 .. Len(messages) : messages[i] = sent[Len(read) + i]

(* After the end of the body a client can only go away.                    *)
EndsOnce ==
  \A i, j \in 1 .. Len(sent) : i < j /\ ~sent[i].more_body => sent[j] = Disconnect

(* What is to be verified is all of a body, and not too big.               *)
Verifying ==
  /\ stage \in {"call", "buffer", "verify"} => Len(read) = 0
  /\ stage = "verify" =>
       taken > 0 /\ ~sent[taken].more_body /\ Len(Body(SubSeq(sent, 1, taken))) <= MAX_BODY

(* Behind an agent is a body, which ended at the message h.                *)
VouchedTo(h) ==
  /\ ~sent[h].more_body
  /\ Body(SubSeq(sent, 1, h)) \in {<<>>, request.digest}
  /\ Len(Body(SubSeq(sent, 1, h))) <= MAX_BODY
Vouched == agent => \E h \in 1 .. taken : VouchedTo(h)

(* Where a signature is required, the application is not called without.   *)
Required == stage \in {"app", "done"} /\ request.http /\ request.required => agent

Inv == Types /\ InOrder /\ EndsOnce /\ Verifying /\ Vouched /\ Required

LEMMA InvInit == Init => Inv
<1> SUFFICES ASSUME Init PROVE Inv
  OBVIOUS
<1> USE DEF Init
<1>1. request.digest \in Seq(Chunk)
  <2>1. request.digest \in BoundedSeq(Chunk, MaxMessages)
    BY DEF Request
  <2>2. \A m \in 0 .. MaxMessages : [1 .. m -> Chunk] \subseteq Seq(Chunk)
    BY BodyAssumption
  <2>3. QED
    BY <2>1, <2>2 DEF BoundedSeq, SeqOf
<1>2. <<>> \in Seq(Msg) /\ Len(<<>>) = 0
  OBVIOUS
<1>3. Types
  <2>1. taken \in 0 .. Len(sent)
    <3>1. taken = 0 /\ Len(sent) = 0
      BY <1>2
    <3>2. QED
      BY <3>1
  <2>4. agent \in BOOLEAN
    OBVIOUS
  <2>2. sent \in Seq(Msg) /\ messages \in Seq(Msg) /\ read \in Seq(Msg)
    BY <1>2
  <2>3. QED
    BY <1>1, <2>1, <2>2, <2>4 DEF Types
<1>4. InOrder /\ EndsOnce
  BY <1>2 DEF InOrder, EndsOnce
<1>5. Verifying /\ Vouched /\ Required
  BY <1>2 DEF Verifying, Vouched, Required
<1>6. QED
  BY <1>3, <1>4, <1>5 DEF Inv

(* The messages of the first of two sequences that agree.                  *)
LEMMA SameStart ==
  ASSUME NEW s \in Seq(Msg), NEW t \in Seq(Msg), NEW n \in Nat, n <= Len(s), n <= Len(t),
         \A i \in 1 .. n : s[i] = t[i]
  PROVE  SubSeq(s, 1, n) = SubSeq(t, 1, n)
<1> DEFINE a == SubSeq(s, 1, n)
           b == SubSeq(t, 1, n)
<1>1. /\ a \in Seq(Msg) /\ Len(a) = n /\ \A i \in 1 .. n : a[i] = s[i]
      /\ b \in Seq(Msg) /\ Len(b) = n /\ \A i \in 1 .. n : b[i] = t[i]
  <2>1. /\ Len(s) \in Nat /\ \A i \in 1 .. Len(s) : s[i] \in Msg
        /\ Len(t) \in Nat /\ \A i \in 1 .. Len(t) : t[i] \in Msg
    BY LenProperties, ElementOfSeq
  <2>2. QED
    BY <2>1
<1> HIDE DEF a, b
<1>2. a = b
  BY <1>1, SeqEqual
<1>3. QED
  BY <1>2 DEF a, b

(* What the middleware has taken, while the application has read nothing.  *)
LEMMA HeldIs ==
  ASSUME Types, InOrder, Len(read) = 0
  PROVE  Len(messages) = taken /\ messages = SubSeq(sent, 1, taken)
<1>1. taken \in Nat /\ taken <= Len(sent) /\ Len(messages) = taken /\ Len(sent) \in Nat
  BY LenProperties DEF Types, InOrder
<1>2. \A i \in 1 .. taken : messages[i] = sent[i]
  BY <1>1 DEF InOrder
<1>3. SubSeq(messages, 1, taken) = SubSeq(sent, 1, taken)
  BY <1>1, <1>2, SameStart DEF Types
<1>4. QED
  BY <1>1, <1>3, SubSeqFull DEF Types

LEMMA ArriveStep ==
  ASSUME Inv, NEW m \in Message \cup {Disconnect}, Arrive(m)
  PROVE  Inv'
<1>1. /\ sent' = Append(sent, m) /\ m \in Msg
      /\ UNCHANGED <<request, taken, stage, messages, agent, read>>
      /\ m = Disconnect \/ ~Ended(sent)
  BY DEF Arrive, Msg
<1>2. /\ Len(sent) \in Nat /\ sent' \in Seq(Msg) /\ Len(sent') = Len(sent) + 1
      /\ \A i \in 1 .. Len(sent) : sent'[i] = sent[i]
      /\ sent'[Len(sent) + 1] = m
      /\ taken \in Nat /\ taken <= Len(sent)
  BY <1>1, LenProperties, AppendProperties DEF Inv, Types
<1>3. \A n \in Nat : n <= Len(sent) => SubSeq(sent', 1, n) = SubSeq(sent, 1, n)
  BY <1>2, SameStart DEF Inv, Types
<1>4. Types'
  BY <1>1, <1>2 DEF Inv, Types
<1>5. InOrder'
  <2>1. Len(read) \in Nat /\ Len(messages) \in Nat
    BY LenProperties DEF Inv, Types
  <2>2. QED
    BY <1>1, <1>2, <2>1 DEF Inv, InOrder
<1>6. EndsOnce'
  <2> SUFFICES ASSUME NEW i \in 1 .. Len(sent) + 1, NEW j \in 1 .. Len(sent) + 1,
                      i < j, ~sent'[i].more_body
               PROVE  sent'[j] = Disconnect
    BY <1>2 DEF EndsOnce
  <2>1. i \in 1 .. Len(sent) /\ ~sent[i].more_body
    BY <1>2
  <2>2. CASE j \in 1 .. Len(sent)
    BY <1>2, <2>1, <2>2 DEF Inv, EndsOnce
  <2>3. CASE j = Len(sent) + 1
    <3>1. Ended(sent)
      <4>1. sent # <<>> /\ Len(sent) \in 1 .. Len(sent)
        BY <1>2, <2>1
      <4>2. ~sent[Len(sent)].more_body
        BY <2>1, <4>1 DEF Inv, EndsOnce, Disconnect
      <4>3. QED
        BY <4>1, <4>2 DEF Ended, Last
    <3>2. QED
      BY <1>1, <1>2, <2>3, <3>1
  <2>4. QED
    BY <1>2, <2>2, <2>3
<1>7. Verifying'
  <2>1. taken > 0 => sent'[taken] = sent[taken]
    BY <1>2
  <2>2. SubSeq(sent', 1, taken) = SubSeq(sent, 1, taken)
    BY <1>2, <1>3
  <2>3. /\ stage \in {"call", "buffer", "verify"} => Len(read) = 0
        /\ stage = "verify" =>
             /\ taken > 0 /\ ~sent[taken].more_body
             /\ Len(Body(SubSeq(sent, 1, taken))) <= MAX_BODY
    BY DEF Inv, Verifying
  <2>4. /\ stage = "verify" =>
             /\ taken > 0 /\ ~sent'[taken].more_body
             /\ Len(Body(SubSeq(sent', 1, taken))) <= MAX_BODY
    BY <2>1, <2>2, <2>3
  <2>5. QED
    BY <1>1, <2>3, <2>4 DEF Verifying
<1>8. Vouched'
  <2>1. \A h \in 1 .. taken : h \in Nat /\ h \in 1 .. Len(sent) /\ h <= Len(sent)
    BY <1>2
  <2>2. QED
    BY <1>1, <1>2, <1>3, <2>1 DEF Inv, Vouched, VouchedTo
<1>9. Required'
  BY <1>1 DEF Inv, Required
<1>10. QED
  BY <1>4, <1>5, <1>6, <1>7, <1>8, <1>9 DEF Inv

LEMMA CallStep == ASSUME Inv, Call PROVE Inv'
<1>1. UNCHANGED <<request, sent, taken, messages, agent, read>> /\ stage = "call"
  BY DEF Call
<1>2. stage' \in {"app", "buffer", "reject"} /\ (stage' = "app" => ~request.http \/ ~request.required)
  BY DEF Call
<1>3. Types' /\ InOrder' /\ EndsOnce' /\ Vouched'
  BY <1>1 DEF Inv, Types, InOrder, EndsOnce, Vouched, VouchedTo
<1>4. Verifying' /\ Required'
  BY <1>1, <1>2 DEF Inv, Verifying, Required
<1>5. QED
  BY <1>3, <1>4 DEF Inv

LEMMA BufferStep == ASSUME Inv, Buffer PROVE Inv'
<1> DEFINE m == sent[taken + 1]
<1>1. /\ stage = "buffer" /\ taken < Len(sent) /\ taken' = taken + 1
      /\ messages' = Append(messages, m)
      /\ UNCHANGED <<request, sent, agent, read>>
      /\ stage' = IF Len(Body(messages')) > MAX_BODY THEN "reject"
                  ELSE IF m.more_body THEN "buffer" ELSE "verify"
  BY DEF Buffer
<1>2. /\ Len(sent) \in Nat /\ taken \in Nat /\ Len(read) = 0 /\ Len(messages) = taken
      /\ \A i \in 1 .. Len(messages) : messages[i] = sent[i]
  BY <1>1, LenProperties, HeldIs DEF Inv, Types, Verifying, InOrder
<1>3. m \in Msg
  <2>1. taken + 1 \in 1 .. Len(sent)
    BY <1>1, <1>2
  <2>2. QED
    BY <2>1, ElementOfSeq DEF Inv, Types
<1> HIDE DEF m
<1>4. /\ messages' \in Seq(Msg) /\ Len(messages') = taken + 1
      /\ \A i \in 1 .. taken : messages'[i] = messages[i]
      /\ messages'[taken + 1] = m
  BY <1>1, <1>2, <1>3, AppendProperties DEF Inv, Types
<1>5. Types' /\ EndsOnce'
  BY <1>1, <1>2, <1>4 DEF Inv, Types, EndsOnce
<1>6. InOrder'
  BY <1>1, <1>2, <1>4 DEF InOrder, m
<1>7. messages' = SubSeq(sent, 1, taken')
  <2>1. taken' \in Nat /\ taken' <= Len(sent) /\ \A i \in 1 .. taken' : messages'[i] = sent[i]
    BY <1>1, <1>2, <1>4 DEF m
  <2>2. SubSeq(messages', 1, taken') = SubSeq(sent, 1, taken')
    BY <1>1, <1>4, <2>1, SameStart DEF Inv, Types
  <2>3. QED
    BY <1>1, <1>4, <2>2, SubSeqFull
<1>8. Verifying'
  <2>1. Body(messages') \in Seq(Chunk)
    BY <1>1, <1>2, <1>7, BodyGrows DEF Inv, Types
  <2>2. stage' = "verify" => ~m.more_body /\ Len(Body(messages')) <= MAX_BODY
    BY <1>1, <2>1, LenProperties, BodyAssumption
  <2>3. QED
    BY <1>1, <1>2, <1>7, <2>2 DEF Verifying, m
<1>9. Vouched' /\ Required'
  BY <1>1, <1>2 DEF Inv, Vouched, VouchedTo, Required
<1>10. QED
  BY <1>5, <1>6, <1>8, <1>9 DEF Inv

LEMMA VerifyStep == ASSUME Inv, Verify PROVE Inv'
<1>1. /\ stage = "verify" /\ UNCHANGED <<request, sent, taken, messages, read>>
      /\ \/ Verifies(Body(messages)) /\ agent' = TRUE /\ stage' = "app"
         \/ agent' = FALSE /\ stage' \in {"reject", "error"}
         \/ agent' = FALSE /\ stage' = "app" /\ ~request.required
  BY DEF Verify
<1>2. messages = SubSeq(sent, 1, taken) /\ taken \in Nat /\ taken > 0
  BY <1>1, HeldIs DEF Inv, Types, Verifying
<1>3. agent' = TRUE => VouchedTo(taken)
  BY <1>1, <1>2 DEF Inv, Verifying, VouchedTo, Verifies
<1>4. Types' /\ InOrder' /\ EndsOnce'
  BY <1>1 DEF Inv, Types, InOrder, EndsOnce
<1>5. Vouched'
  <2>1. taken \in 1 .. taken
    BY <1>2
  <2>2. agent' => \E h \in 1 .. taken : VouchedTo(h)
    BY <1>1, <1>3, <2>1
  <2>3. QED
    BY <1>1, <2>2 DEF Vouched, VouchedTo
<1>6. Verifying' /\ Required'
  BY <1>1 DEF Verifying, Required
<1>7. QED
  BY <1>4, <1>5, <1>6 DEF Inv

LEMMA ReplayStep == ASSUME Inv, Replay PROVE Inv'
<1>1. /\ stage = "app" /\ messages # <<>>
      /\ read' = Append(read, Head(messages)) /\ messages' = Tail(messages)
      /\ UNCHANGED <<request, sent, taken, stage, agent>>
  BY DEF Replay
<1>2. /\ Len(read) \in Nat /\ Len(messages) \in Nat \ {0}
      /\ Head(messages) = messages[1] /\ Head(messages) \in Msg
  BY <1>1, LenProperties, EmptySeq, HeadTailProperties DEF Inv, Types
<1>3. /\ read' \in Seq(Msg) /\ Len(read') = Len(read) + 1
      /\ \A i \in 1 .. Len(read) : read'[i] = read[i]
      /\ read'[Len(read) + 1] = messages[1]
  BY <1>1, <1>2, AppendProperties DEF Inv, Types
<1>4. /\ messages' \in Seq(Msg) /\ Len(messages') = Len(messages) - 1
      /\ \A i \in 1 .. Len(messages') : messages'[i] = messages[i + 1]
  BY <1>1, <1>2, HeadTailProperties DEF Inv, Types
<1>5. InOrder'
  <2>1. Len(read') + Len(messages') = taken
    BY <1>2, <1>3, <1>4 DEF Inv, InOrder
  <2>2. ASSUME NEW i \in 1 .. Len(read')
        PROVE  read'[i] = sent[i]
    <3>1. i \in 1 .. Len(read) \/ i = Len(read) + 1
      BY <1>2, <1>3
    <3>2. 1 \in 1 .. Len(messages)
      BY <1>2
    <3>3. QED
      BY <1>3, <3>1, <3>2 DEF Inv, InOrder
  <2>3. ASSUME NEW i \in 1 .. Len(messages')
        PROVE  messages'[i] = sent[Len(read') + i]
    <3>1. i + 1 \in 1 .. Len(messages) /\ Len(read) + (i + 1) = Len(read') + i
      BY <1>2, <1>3, <1>4
    <3>2. QED
      BY <1>4, <3>1 DEF Inv, InOrder
  <2>4. QED
    BY <1>1, <2>1, <2>2, <2>3 DEF InOrder
<1>6. Types' /\ EndsOnce' /\ Vouched' /\ Required' /\ Verifying'
  BY <1>1, <1>3, <1>4 DEF Inv, Types, EndsOnce, Vouched, VouchedTo, Required, Verifying
<1>7. QED
  BY <1>5, <1>6 DEF Inv

LEMMA ReceiveStep == ASSUME Inv, Receive PROVE Inv'
<1>1. /\ stage = "app" /\ messages = <<>> /\ taken < Len(sent)
      /\ read' = Append(read, sent[taken + 1]) /\ taken' = taken + 1
      /\ UNCHANGED <<request, sent, stage, messages, agent>>
  BY DEF Receive
<1>2. /\ Len(sent) \in Nat /\ taken \in Nat /\ Len(messages) = 0 /\ Len(read) = taken
  BY <1>1, LenProperties DEF Inv, Types, InOrder
<1>3. sent[taken + 1] \in Msg
  <2>1. taken + 1 \in 1 .. Len(sent)
    BY <1>1, <1>2
  <2>2. QED
    BY <2>1, ElementOfSeq DEF Inv, Types
<1>4. /\ read' \in Seq(Msg) /\ Len(read') = taken + 1
      /\ \A i \in 1 .. taken : read'[i] = read[i]
      /\ read'[taken + 1] = sent[taken + 1]
  BY <1>1, <1>2, <1>3, AppendProperties DEF Inv, Types
<1>5. InOrder'
  BY <1>1, <1>2, <1>4 DEF Inv, InOrder
<1>6. Vouched'
  <2>1. \A h \in 1 .. taken : h \in 1 .. taken'
    BY <1>1, <1>2
  <2>2. QED
    BY <1>1, <2>1 DEF Inv, Vouched, VouchedTo
<1>7. Types' /\ EndsOnce' /\ Required' /\ Verifying'
  BY <1>1, <1>2, <1>4 DEF Inv, Types, EndsOnce, Required, Verifying
<1>8. QED
  BY <1>5, <1>6, <1>7 DEF Inv

LEMMA InvStep == Inv /\ [Next]_vars => Inv'
<1> SUFFICES ASSUME Inv, [Next]_vars PROVE Inv'
  OBVIOUS
<1>1. CASE Return
  BY <1>1 DEF Return, Inv, Types, InOrder, EndsOnce, Verifying, Vouched, VouchedTo, Required
<1>2. CASE UNCHANGED vars
  BY <1>2 DEF vars, Inv, Types, InOrder, EndsOnce, Verifying, Vouched, VouchedTo, Required
<1>3. QED
  BY <1>1, <1>2, ArriveStep, CallStep, BufferStep, VerifyStep, ReplayStep, ReceiveStep DEF Next

(* The invariant, for any bodies, limit and number of messages.            *)
THEOREM MiddlewareInvariant == Spec => []Inv
BY InvInit, InvStep, PTL DEF Spec

(* What the application has been given is the beginning of what was sent.  *)
LEMMA ReadIs ==
  ASSUME Inv
  PROVE  /\ Len(read) \in Nat /\ Len(read) <= taken /\ Len(read) <= Len(sent)
         /\ read = SubSeq(sent, 1, Len(read))
<1>1. /\ Len(read) \in Nat /\ Len(messages) \in Nat /\ Len(sent) \in Nat
      /\ taken \in Nat /\ taken <= Len(sent)
  BY LenProperties DEF Inv, Types
<1>2. Len(read) <= taken /\ Len(read) <= Len(sent)
  BY <1>1 DEF Inv, InOrder
<1>3. SubSeq(read, 1, Len(read)) = SubSeq(sent, 1, Len(read))
  BY <1>1, <1>2, SameStart DEF Inv, Types, InOrder
<1>4. QED
  BY <1>1, <1>2, <1>3, SubSeqFull DEF Inv, Types

(* No message is lost, repeated or overtaken on its way through the        *)
(* middleware (verifier.py:372-383, 405-408).                              *)
THEOREM MessagesStayInOrder == Spec => []MessagesInOrder
<1>1. Inv => MessagesInOrder
  <2> SUFFICES ASSUME Inv
               PROVE  IsPrefix(read, sent) /\ Len(read) + Len(messages) = taken
    BY DEF MessagesInOrder
  <2>1. SubSeq(read, 1, Len(read)) = read
    BY SubSeqFull DEF Inv, Types
  <2>2. QED
    BY <2>1, ReadIs DEF IsPrefix, Inv, InOrder
<1>2. QED
  BY <1>1, MiddlewareInvariant, PTL

-----------------------------------------------------------------------------

(* A sequence is a prefix of itself with more.                             *)
LEMMA PrefixOfConcat ==
  ASSUME NEW S, NEW s \in Seq(S), NEW u \in Seq(S)
  PROVE  IsPrefix(s, s \o u) /\ Len(s) <= Len(s \o u)
<1> DEFINE t == s \o u
           p == SubSeq(t, 1, Len(s))
<1>1. /\ Len(s) \in Nat /\ Len(u) \in Nat
      /\ t \in Seq(S) /\ Len(t) = Len(s) + Len(u)
      /\ \A i \in 1 .. Len(s) + Len(u) : t[i] = IF i <= Len(s) THEN s[i] ELSE u[i - Len(s)]
  BY LenProperties, ConcatProperties
<1> HIDE DEF t
<1>2. \A i \in 1 .. Len(s) : t[i] = s[i] /\ i \in 1 .. Len(t)
  BY <1>1
<1>3. \A i \in 1 .. Len(t) : t[i] \in S
  BY <1>1, ElementOfSeq
<1>4. Len(s) <= Len(t)
  BY <1>1
<1>5. p \in Seq(S) /\ Len(p) = Len(s) /\ \A i \in 1 .. Len(s) : p[i] = t[i]
  BY <1>1, <1>3, <1>4
<1> HIDE DEF p
<1>6. p = s
  BY <1>2, <1>5, SeqEqual
<1>7. SubSeq(s, 1, Len(s)) = s
  BY SubSeqFull
<1>8. QED
  BY <1>4, <1>6, <1>7 DEF IsPrefix, p, t

(* What the application has read of a body that is vouched for.            *)
LEMMA ReadOfVouched ==
  ASSUME Inv, NEW h \in 1 .. taken, VouchedTo(h)
  PROVE  /\ IsPrefix(Body(read), request.digest)
         /\ Len(Body(read)) <= MAX_BODY
         /\ Ended(read) => Body(read) \in {<<>>, request.digest}
<1> DEFINE n == Len(read)
           all == Body(SubSeq(sent, 1, h))
<1>1. /\ n \in Nat /\ n <= Len(sent) /\ read = SubSeq(sent, 1, n)
      /\ read \in Seq(Msg) /\ sent \in Seq(Msg) /\ request.digest \in Seq(Chunk)
  BY ReadIs DEF Inv, Types
<1>2. /\ taken \in Nat /\ taken <= Len(sent) /\ Len(sent) \in Nat
      /\ h \in Nat /\ h >= 1 /\ h <= Len(sent) /\ h \in 1 .. Len(sent)
  BY LenProperties DEF Inv, Types
<1>3. ~sent[h].more_body /\ all \in {<<>>, request.digest} /\ Len(all) <= MAX_BODY
  BY DEF VouchedTo
<1>4. Disconnect.body = <<>> /\ Disconnect.more_body = FALSE
  BY DEF Disconnect
<1>5. ASSUME NEW i \in 1 .. Len(sent), ~sent[i].more_body
      PROVE  \A j \in i + 1 .. Len(sent) : sent[j] = Disconnect /\ sent[j].body = <<>>
  <2> SUFFICES ASSUME NEW j \in i + 1 .. Len(sent)
               PROVE  sent[j] = Disconnect
    BY <1>4
  <2>1. j \in 1 .. Len(sent) /\ i < j
    BY <1>2
  <2>2. QED
    BY <1>5, <2>1 DEF Inv, EndsOnce
<1> HIDE DEF n
<1>6. all \in Seq(Chunk)
  BY <1>1, <1>2, BodyGrows
<1>7. IsPrefix(all, request.digest)
  <2>1. IsPrefix(<<>>, <<>> \o request.digest) /\ <<>> \o request.digest = request.digest
    <3>1. <<>> \in Seq(Chunk)
      BY EmptySeq
    <3>2. QED
      BY <1>1, <3>1, PrefixOfConcat, ConcatEmptySeq
  <2>2. IsPrefix(request.digest, request.digest \o <<>>) /\ request.digest \o <<>> = request.digest
    <3>1. <<>> \in Seq(Chunk)
      BY EmptySeq
    <3>2. QED
      BY <1>1, <3>1, PrefixOfConcat, ConcatEmptySeq
  <2>3. QED
    BY <1>3, <2>1, <2>2
<1>8. CASE h <= n
  <2>1. \A i \in h + 1 .. n : sent[i].body = <<>>
    <3>1. \A i \in h + 1 .. n : i \in h + 1 .. Len(sent)
      BY <1>1, <1>2
    <3>2. QED
      BY <1>2, <1>3, <1>5, <3>1
  <2>2. Body(SubSeq(sent, 1, n)) = all
    BY <1>1, <1>2, <1>8, <2>1, BodyGrows
  <2>3. Body(read) = all
    BY <1>1, <2>2
  <2>4. QED
    BY <1>3, <1>7, <2>3
<1>9. CASE n < h
  <2>1. PICK u \in Seq(Chunk) : all = Body(SubSeq(sent, 1, n)) \o u
    <3>1. n <= h
      BY <1>1, <1>2, <1>9
    <3>2. QED
      BY <1>1, <1>2, <3>1, BodyGrows
  <2>2. Body(read) \in Seq(Chunk) /\ all = Body(read) \o u
    <3>1. Body(SubSeq(sent, 1, n)) \in Seq(Chunk)
      BY <1>1, BodyGrows
    <3>2. QED
      BY <1>1, <2>1, <3>1
  <2>3. IsPrefix(Body(read), all) /\ Len(Body(read)) <= Len(all)
    BY <2>2, PrefixOfConcat
  <2>4. Len(Body(read)) <= MAX_BODY
    <3>1. Len(Body(read)) \in Nat /\ Len(all) \in Nat
      BY <1>6, <2>2, LenProperties
    <3>2. QED
      BY <1>3, <2>3, <3>1, BodyAssumption
  <2>5. IsPrefix(Body(read), request.digest)
    <3>1. CASE all = request.digest
      BY <2>3, <3>1
    <3>2. CASE all = <<>>
      <4>1. Len(Body(read)) = 0
        <5>1. Len(all) = 0
          BY <3>2
        <5>2. Len(Body(read)) \in Nat
          BY <2>2, LenProperties
        <5>3. QED
          BY <2>3, <5>1, <5>2
      <4>2. Body(read) = <<>>
        BY <2>2, <4>1, EmptySeq
      <4>3. QED
        BY <1>7, <3>2, <4>2
    <3>3. QED
      BY <1>3, <3>1, <3>2
  <2>6. ASSUME Ended(read)
        PROVE  Body(read) = all
    <3>1. n \in 1 .. Len(read) /\ n \in 1 .. Len(sent) /\ ~read[n].more_body
      <4>1. read # <<>> /\ ~read[Len(read)].more_body
        BY <2>6 DEF Ended, Last
      <4>2. n # 0
        BY <1>1, <4>1, EmptySeq DEF n
      <4>3. QED
        BY <1>1, <4>1, <4>2 DEF n
    <3>2. read[n] = sent[n]
      BY <3>1 DEF Inv, InOrder
    <3>3. \A i \in n + 1 .. h : sent[i].body = <<>>
      <4>1. \A i \in n + 1 .. h : i \in n + 1 .. Len(sent)
        BY <1>1, <1>2
      <4>2. QED
        BY <1>5, <3>1, <3>2, <4>1
    <3>4. n <= h
      BY <1>1, <1>2, <1>9
    <3>5. all = Body(SubSeq(sent, 1, n))
      BY <1>1, <1>2, <3>3, <3>4, BodyGrows
    <3>6. QED
      BY <1>1, <3>5
  <2>7. QED
    BY <1>3, <2>4, <2>5, <2>6
<1>10. QED
  BY <1>1, <1>2, <1>8, <1>9

(* An application that finds an agent reads the body the agent vouched     *)
(* for, or a beginning of it, whatever its parts, and whenever the client  *)
(* leaves (verifier.py:376-403).                                           *)
THEOREM AgentsVouch == Spec => []AgentVouches
<1>1. Inv => AgentVouches
  <2> SUFFICES ASSUME Inv, stage \in {"app", "done"}, request.http
               PROVE  /\ agent => /\ IsPrefix(Body(read), request.digest)
                                  /\ Len(Body(read)) <= MAX_BODY
                                  /\ Ended(read) => Body(read) \in {<<>>, request.digest}
                      /\ request.required => agent
    BY DEF AgentVouches
  <2>1. agent => \E h \in 1 .. taken : VouchedTo(h)
    BY DEF Inv, Vouched
  <2>2. request.required => agent
    BY DEF Inv, Required
  <2>3. QED
    BY <2>1, <2>2, ReadOfVouched
<1>2. QED
  BY <1>1, MiddlewareInvariant, PTL

=============================================================================
