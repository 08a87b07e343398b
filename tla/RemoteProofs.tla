---------------------------- MODULE RemoteProofs ----------------------------
(***************************************************************************)
(* What the wire of the remote debugger guarantees for any number of       *)
(* debuggers, connections and messages, wherever the buffers are cut.      *)
(***************************************************************************)
EXTENDS Remote, SequenceTheorems, TLAPS

Unit == Messages \X {1, 2}
Even(n) == n = 2 * (n \div 2)

\* The units come in pairs, those of one message.
Framed(s) == \A i \in 1 .. Len(s) \div 2 :
  s[2 * i - 1] = <<s[2 * i][1], 1>> /\ s[2 * i] = <<s[2 * i][1], 2>>

\* The two ends of a connection.
Asked(c) == in[c] \o up[c]
Sound(c) == Live(c) /\ c[1] \notin torn

\* A link that has not been used carries nothing, and nobody waits for it; a
\* debugger that is there does not answer with a reset.
LinksInv ==
  /\ Range(clients) \union Range(backlog) \subseteq Used
  /\ \A i \in DOMAIN events : events[i][1] = "connect" => events[i][2] \in Used
  /\ \A c \in Links \ Used : in[c] = <<>> /\ up[c] = <<>> /\ down[c] = <<>> /\ out[c] = <<>>
  /\ reset \subseteq Used
  /\ \A c \in reset : ~Live(c)
  /\ \A d \in open : link[d] # 0

\* Messages are cut, but never mixed, and those of a debugger that is there are whole.
FrameInv ==
  /\ \A c \in Links : Framed(Asked(c))
  /\ \A c \in Links : Live(c) => Even(Len(Asked(c)))
  /\ \A c \in Links : Sound(c) => Framed(Path(c)) /\ Even(Len(Path(c)))
  /\ \A d \in Debuggers \ (open \union torn) : stream[d] = <<>>

\* When it will have read what is under way, the debugger will show the state it was
\* told last: the server's, unless the link is stale.
Other(s) == IF s = "paused" THEN "running" ELSE "paused"
Word(c) == IF c \in stale THEN Other(pause) ELSE pause
SayInv ==
  \A c \in Links : Sound(c) /\ Greeted(c) => LastState(Word(c), Whole(Path(c)), view[c[1]])

IInv == TypeOK /\ LinksInv /\ FrameInv /\ SayInv
----------------------------------------------------------------------------
(* Sequences                                                               *)

LEMMA Concat ==
  ASSUME NEW S, NEW s \in Seq(S), NEW t \in Seq(S)
  PROVE  /\ s \o t \in Seq(S)
         /\ Len(s \o t) = Len(s) + Len(t)
         /\ Len(s) \in Nat /\ Len(t) \in Nat
         /\ \A i \in 1 .. Len(s) : (s \o t)[i] = s[i]
         /\ \A i \in 1 .. Len(t) : (s \o t)[Len(s) + i] = t[i]
<1>1. Len(s) \in Nat /\ Len(t) \in Nat
  OBVIOUS
<1>2. /\ s \o t \in Seq(S) /\ Len(s \o t) = Len(s) + Len(t)
      /\ \A i \in 1 .. Len(s) + Len(t) : (s \o t)[i] = IF i <= Len(s) THEN s[i] ELSE t[i - Len(s)]
  BY ConcatProperties
<1>3. \A i \in 1 .. Len(t) : Len(s) + i \in 1 .. Len(s) + Len(t) /\ ~(Len(s) + i <= Len(s)) /\ Len(s) + i - Len(s) = i
  BY <1>1
<1> QED
  BY <1>1, <1>2, <1>3

LEMMA Sub ==
  ASSUME NEW S, NEW s \in Seq(S), NEW a \in Nat \ {0}, NEW b \in 0 .. Len(s)
  PROVE  /\ SubSeq(s, a, b) \in Seq(S)
         /\ Len(SubSeq(s, a, b)) = IF a <= b THEN b - a + 1 ELSE 0
         /\ \A i \in 1 .. b - a + 1 : SubSeq(s, a, b)[i] = s[a + i - 1]
<1>1. \A i \in a .. b : s[i] \in S
  BY ElementOfSeq
<1> QED
  BY <1>1, SubSeqProperties

Upto(s, n) == SubSeq(s, 1, n)
After(s, n) == SubSeq(s, n + 1, Len(s))

LEMMA Parts ==
  ASSUME NEW S, NEW s \in Seq(S), NEW n \in 0 .. Len(s)
  PROVE  /\ Upto(s, n) \in Seq(S) /\ Len(Upto(s, n)) = n
         /\ \A i \in 1 .. n : Upto(s, n)[i] = s[i]
         /\ After(s, n) \in Seq(S) /\ Len(After(s, n)) = Len(s) - n
         /\ \A i \in 1 .. Len(s) - n : After(s, n)[i] = s[n + i]
         /\ Upto(s, n) \o After(s, n) = s
<1>1. Len(s) \in Nat /\ n \in Nat /\ n <= Len(s) /\ n + 1 \in Nat \ {0} /\ Len(s) \in 0 .. Len(s)
  OBVIOUS
<1>2. /\ Upto(s, n) \in Seq(S) /\ Len(Upto(s, n)) = IF 1 <= n THEN n - 1 + 1 ELSE 0
      /\ \A i \in 1 .. n - 1 + 1 : Upto(s, n)[i] = s[1 + i - 1]
  BY Sub, 1 \in Nat \ {0} DEF Upto
<1>3. /\ After(s, n) \in Seq(S) /\ Len(After(s, n)) = IF n + 1 <= Len(s) THEN Len(s) - (n + 1) + 1 ELSE 0
      /\ \A i \in 1 .. Len(s) - (n + 1) + 1 : After(s, n)[i] = s[n + 1 + i - 1]
  BY <1>1, Sub DEF After
<1>4. /\ n - 1 + 1 = n /\ (~(1 <= n) => n = 0) /\ \A i \in 1 .. n : 1 + i - 1 = i
      /\ Len(s) - (n + 1) + 1 = Len(s) - n /\ (~(n + 1 <= Len(s)) => Len(s) - n = 0)
      /\ \A i \in 1 .. Len(s) - n : n + 1 + i - 1 = n + i
  BY <1>1
<1>5. Upto(s, n) \o After(s, n) = s
  <2>1. 1 \in 1 .. Len(s) + 1 /\ n \in 1 - 1 .. Len(s) /\ Len(s) \in n .. Len(s)
    BY <1>1
  <2>2. SubSeq(s, 1, n) \o SubSeq(s, n + 1, Len(s)) = SubSeq(s, 1, Len(s))
    BY <2>1, ConcatAdjacentSubSeq
  <2> QED
    BY <2>2, SubSeqFull DEF Upto, After
<1>6. Len(Upto(s, n)) = n /\ \A i \in 1 .. n : Upto(s, n)[i] = s[i]
  <2> DEFINE f == Upto(s, n)
  <2>1. Len(f) = IF 1 <= n THEN n - 1 + 1 ELSE 0
    BY <1>2
  <2>2. \A i \in 1 .. n - 1 + 1 : f[i] = s[1 + i - 1]
    BY <1>2
  <2> HIDE DEF f
  <2>3. Len(f) = n
    BY <1>4, <2>1
  <2>4. \A i \in 1 .. n : f[i] = s[i]
    BY <1>4, <2>2
  <2> QED
    BY <2>3, <2>4 DEF f
<1>7. Len(After(s, n)) = Len(s) - n /\ \A i \in 1 .. Len(s) - n : After(s, n)[i] = s[n + i]
  <2> DEFINE f == After(s, n)
  <2>1. Len(f) = IF n + 1 <= Len(s) THEN Len(s) - (n + 1) + 1 ELSE 0
    BY <1>3
  <2>2. \A i \in 1 .. Len(s) - (n + 1) + 1 : f[i] = s[n + 1 + i - 1]
    BY <1>3
  <2> HIDE DEF f
  <2>3. Len(f) = Len(s) - n
    <3>1. Len(s) \in Nat /\ n \in Nat /\ n <= Len(s)
      BY <1>1
    <3> QED
      BY <2>1, <3>1
  <2>4. ASSUME NEW i \in 1 .. Len(s) - n PROVE f[i] = s[n + i]
    <3>1. i \in 1 .. Len(s) - (n + 1) + 1 /\ n + 1 + i - 1 = n + i
      BY <1>4
    <3> QED
      BY <2>2, <3>1
  <2> QED
    BY <2>3, <2>4 DEF f
<1>8. Upto(s, n) \in Seq(S) /\ After(s, n) \in Seq(S)
  BY <1>2, <1>3
<1> QED
  BY <1>5, <1>6, <1>7, <1>8

Join(s, t) == s \o t

LEMMA Joins ==
  ASSUME NEW S, NEW s \in Seq(S), NEW t \in Seq(S)
  PROVE  Join(s, t) \in Seq(S) /\ Len(Join(s, t)) = Len(s) + Len(t)
BY ConcatProperties DEF Join

LEMMA JoinOfJoin ==
  ASSUME NEW S, NEW s \in Seq(S), NEW t \in Seq(S), NEW u \in Seq(S)
  PROVE  Join(Join(s, t), u) = Join(s, Join(t, u))
BY ConcatAssociative DEF Join

LEMMA UptoAndAfter ==
  ASSUME NEW S, NEW s \in Seq(S), NEW n \in 0 .. Len(s)
  PROVE  /\ Upto(s, n) \in Seq(S) /\ Len(Upto(s, n)) = n /\ After(s, n) \in Seq(S)
         /\ Join(Upto(s, n), After(s, n)) = s
BY Parts DEF Join

\* What is taken from the front of o can be put to the end of d.
LEMMA MovePath ==
  ASSUME NEW S, NEW s \in Seq(S), NEW d \in Seq(S), NEW o \in Seq(S), NEW n \in 0 .. Len(o)
  PROVE  /\ Upto(o, n) \in Seq(S) /\ After(o, n) \in Seq(S)
         /\ Join(d, Upto(o, n)) \in Seq(S) /\ Len(Join(d, Upto(o, n))) = Len(d) + n
         /\ Join(Join(d, Upto(o, n)), After(o, n)) = Join(d, o)
         /\ Join(Join(s, Join(d, Upto(o, n))), After(o, n)) = Join(Join(s, d), o)
<1> DEFINE x == Upto(o, n)
           y == After(o, n)
<1>1. x \in Seq(S) /\ y \in Seq(S) /\ Len(x) = n /\ Join(x, y) = o
  BY UptoAndAfter
<1> HIDE DEF x, y
<1>2. Join(d, x) \in Seq(S) /\ Len(Join(d, x)) = Len(d) + n
  BY <1>1, Joins
<1>3. Join(Join(d, x), y) = Join(d, Join(x, y))
  BY <1>1, JoinOfJoin
<1>4. Join(Join(s, Join(d, x)), y) = Join(s, Join(Join(d, x), y))
  BY <1>1, <1>2, JoinOfJoin
<1>5. Join(s, Join(d, o)) = Join(Join(s, d), o)
  BY JoinOfJoin
<1> QED
  BY <1>1, <1>2, <1>3, <1>4, <1>5 DEF x, y

LEMMA Drop ==
  ASSUME NEW S, NEW s \in Seq(S), NEW t \in Seq(S), NEW n \in 0 .. Len(s)
  PROVE  SubSeq(s, n + 1, Len(s)) \o t = SubSeq(s \o t, n + 1, Len(s \o t))
<1> DEFINE u == SubSeq(s, n + 1, Len(s))
           w == SubSeq(s \o t, n + 1, Len(s \o t))
<1>1. /\ Len(s) \in Nat /\ Len(t) \in Nat /\ s \o t \in Seq(S) /\ Len(s \o t) = Len(s) + Len(t)
      /\ \A i \in 1 .. Len(s) : (s \o t)[i] = s[i]
      /\ \A i \in 1 .. Len(t) : (s \o t)[Len(s) + i] = t[i]
  BY Concat
<1>2. /\ u \in Seq(S) /\ Len(u) = Len(s) - n
      /\ \A i \in 1 .. Len(s) - n : u[i] = s[n + i]
  <2>1. n + 1 \in Nat \ {0} /\ Len(s) \in 0 .. Len(s)
    BY <1>1
  <2>2. /\ u \in Seq(S) /\ Len(u) = IF n + 1 <= Len(s) THEN Len(s) - (n + 1) + 1 ELSE 0
        /\ \A i \in 1 .. Len(s) - (n + 1) + 1 : u[i] = s[n + 1 + i - 1]
    BY <2>1, Sub
  <2> QED
    BY <1>1, <2>2
<1>3. /\ w \in Seq(S) /\ Len(w) = Len(s) + Len(t) - n
      /\ \A i \in 1 .. Len(s) + Len(t) - n : w[i] = (s \o t)[n + i]
  <2>1. n + 1 \in Nat \ {0} /\ Len(s \o t) \in 0 .. Len(s \o t)
    BY <1>1
  <2>2. /\ w \in Seq(S) /\ Len(w) = IF n + 1 <= Len(s \o t) THEN Len(s \o t) - (n + 1) + 1 ELSE 0
        /\ \A i \in 1 .. Len(s \o t) - (n + 1) + 1 : w[i] = (s \o t)[n + 1 + i - 1]
    BY <1>1, <2>1, Sub
  <2> QED
    BY <1>1, <2>2
<1>4. /\ u \o t \in Seq(S) /\ Len(u \o t) = Len(u) + Len(t)
      /\ \A i \in 1 .. Len(u) : (u \o t)[i] = u[i]
      /\ \A i \in 1 .. Len(t) : (u \o t)[Len(u) + i] = t[i]
  <2>1. u \in Seq(S)
    BY <1>2
  <2> HIDE DEF u, w
  <2> QED
    BY <2>1, Concat
<1>5. ASSUME NEW i \in 1 .. Len(u \o t) PROVE (u \o t)[i] = w[i]
  <2> HIDE DEF u, w
  <2>1. CASE i \in 1 .. Len(u)
    BY <1>1, <1>2, <1>3, <1>4, <2>1
  <2>2. CASE i \notin 1 .. Len(u)
    <3>1. PICK j \in 1 .. Len(t) : i = Len(u) + j
      <4>1. i - Len(u) \in 1 .. Len(t) /\ i = Len(u) + (i - Len(u))
        BY <1>1, <1>2, <1>4, <2>2
      <4> QED BY <4>1
    <3>2. (u \o t)[i] = t[j]
      BY <1>4, <3>1
    <3>3. n + i = Len(s) + j /\ i \in 1 .. Len(s) + Len(t) - n
      BY <1>1, <1>2, <3>1
    <3> QED
      BY <1>1, <1>3, <3>1, <3>2, <3>3
  <2> QED
    BY <2>1, <2>2
<1>6. Len(u \o t) = Len(w)
  BY <1>1, <1>2, <1>3, <1>4
<1> HIDE DEF u, w
<1>7. u \o t = w
  BY <1>3, <1>4, <1>5, <1>6, SeqEqual
<1> QED
  BY <1>7 DEF u, w

----------------------------------------------------------------------------
(* Frames                                                                  *)

LEMMA Half ==
  ASSUME NEW n \in Nat
  PROVE  /\ n \div 2 \in Nat
         /\ n = 2 * (n \div 2) \/ n = 2 * (n \div 2) + 1
         /\ (2 * n) \div 2 = n
  OBVIOUS

LEMMA WholeOf ==
  ASSUME NEW s \in Seq(Unit)
  PROVE  /\ Len(s) \in Nat /\ Len(s) \div 2 \in Nat
         /\ \A i \in 1 .. Len(s) \div 2 :
              2 * i \in 1 .. Len(s) /\ 2 * i - 1 \in 1 .. Len(s) /\ s[2 * i][1] \in Messages
         /\ Whole(s) \in Seq(Messages) /\ Len(Whole(s)) = Len(s) \div 2
         /\ \A i \in 1 .. Len(s) \div 2 : Whole(s)[i] = s[2 * i][1]
<1>1. Len(s) \in Nat /\ Len(s) \div 2 \in Nat
  <2>1. Len(s) \in Nat
    OBVIOUS
  <2> QED
    BY <2>1, Half
<1>2. Len(s) = 2 * (Len(s) \div 2) \/ Len(s) = 2 * (Len(s) \div 2) + 1
  BY <1>1, Half
<1>3. ASSUME NEW i \in 1 .. Len(s) \div 2
      PROVE  2 * i \in 1 .. Len(s) /\ 2 * i - 1 \in 1 .. Len(s) /\ s[2 * i][1] \in Messages
  <2>1. 2 * i \in 1 .. Len(s) /\ 2 * i - 1 \in 1 .. Len(s)
    BY <1>1, <1>2
  <2>2. s[2 * i] \in Unit
    BY <2>1, ElementOfSeq
  <2> QED
    BY <2>1, <2>2 DEF Unit
<1>4. /\ Whole(s) \in Seq(Messages) /\ Len(Whole(s)) = Len(s) \div 2
      /\ \A i \in 1 .. Len(s) \div 2 : Whole(s)[i] = s[2 * i][1]
  <2>1. Whole(s) = [i \in 1 .. Len(s) \div 2 |-> s[2 * i][1]]
    BY DEF Whole
  <2>2. Whole(s) \in [1 .. Len(s) \div 2 -> Messages]
    BY <1>3, <2>1
  <2>3. Whole(s) \in Seq(Messages)
    BY <1>1, <2>2, SMT
  <2> QED
    BY <1>1, <2>1, <2>3
<1> QED
  BY <1>1, <1>3, <1>4

LEMMA FrameOf ==
  ASSUME NEW m \in Messages
  PROVE  /\ Frame(m) \in Seq(Unit) /\ Len(Frame(m)) = 2
         /\ Frame(m)[1] = <<m, 1>> /\ Frame(m)[2] = <<m, 2>>
<1>1. <<m, 1>> \in Unit /\ <<m, 2>> \in Unit
  BY DEF Unit
<1> QED
  BY <1>1 DEF Frame

\* A message is put to the end of whole messages.
LEMMA FrameAppend ==
  ASSUME NEW s \in Seq(Unit), Framed(s), Even(Len(s)), NEW m \in Messages
  PROVE  /\ s \o Frame(m) \in Seq(Unit) /\ Framed(s \o Frame(m)) /\ Even(Len(s \o Frame(m)))
         /\ Whole(s \o Frame(m)) = Append(Whole(s), m)
<1> DEFINE t == s \o Frame(m)
           n == Len(s) \div 2
<1>1. /\ t \in Seq(Unit) /\ Len(t) = Len(s) + 2 /\ Len(s) \in Nat
      /\ \A i \in 1 .. Len(s) : t[i] = s[i]
      /\ t[Len(s) + 1] = <<m, 1>> /\ t[Len(s) + 2] = <<m, 2>>
  BY FrameOf, Concat
<1>2. n \in Nat /\ Len(s) = 2 * n
  BY <1>1, Half DEF Even
<1>3. Len(t) = 2 * (n + 1) /\ Len(t) \div 2 = n + 1
  <2> HIDE DEF t, n
  <2>1. Len(t) = 2 * (n + 1) /\ n + 1 \in Nat
    BY <1>1, <1>2
  <2> QED
    BY <2>1, Half
<1>4. /\ \A i \in 1 .. n : s[2 * i][1] \in Messages /\ 2 * i \in 1 .. Len(s) /\ 2 * i - 1 \in 1 .. Len(s)
      /\ Whole(s) \in Seq(Messages) /\ Len(Whole(s)) = n
      /\ \A i \in 1 .. n : Whole(s)[i] = s[2 * i][1]
  BY WholeOf
<1>5. /\ Whole(t) \in Seq(Messages) /\ Len(Whole(t)) = n + 1
      /\ \A i \in 1 .. n + 1 : Whole(t)[i] = t[2 * i][1]
  <2> HIDE DEF t, n
  <2> QED
    BY <1>1, <1>3, WholeOf
<1>6. \A i \in 1 .. n : s[2 * i - 1] = <<s[2 * i][1], 1>> /\ s[2 * i] = <<s[2 * i][1], 2>>
  BY DEF Framed
<1> HIDE DEF t, n
<1>7. /\ \A i \in 1 .. n : t[2 * i - 1] = <<t[2 * i][1], 1>> /\ t[2 * i] = <<t[2 * i][1], 2>>
      /\ t[2 * (n + 1) - 1] = <<m, 1>> /\ t[2 * (n + 1)] = <<m, 2>>
  <2>1. 2 * (n + 1) - 1 = Len(s) + 1 /\ 2 * (n + 1) = Len(s) + 2
    BY <1>2
  <2> QED
    BY <1>1, <1>4, <1>6, <2>1
<1>8. t[2 * (n + 1)][1] = m
  BY <1>7
<1>9. \A i \in 1 .. n + 1 : i = n + 1 \/ i \in 1 .. n
  BY <1>2
<1>10. Framed(t)
  BY <1>3, <1>7, <1>8, <1>9 DEF Framed
<1>11. Even(Len(t))
  BY <1>3 DEF Even
<1>12. Whole(t) = Append(Whole(s), m)
  <2>1. /\ Append(Whole(s), m) \in Seq(Messages) /\ Len(Append(Whole(s), m)) = n + 1
        /\ \A i \in 1 .. n : Append(Whole(s), m)[i] = Whole(s)[i]
        /\ Append(Whole(s), m)[n + 1] = m
    <3> DEFINE ws == Whole(s)
    <3>1. ws \in Seq(Messages) /\ Len(ws) = n
      BY <1>4
    <3> HIDE DEF ws
    <3>2. /\ Append(ws, m) \in Seq(Messages) /\ Len(Append(ws, m)) = Len(ws) + 1
          /\ \A i \in 1 .. Len(ws) : Append(ws, m)[i] = ws[i]
          /\ Append(ws, m)[Len(ws) + 1] = m
      BY <3>1, AppendProperties
    <3>3. /\ Append(ws, m) \in Seq(Messages) /\ Len(Append(ws, m)) = n + 1
          /\ \A i \in 1 .. n : Append(ws, m)[i] = ws[i]
          /\ Append(ws, m)[n + 1] = m
      BY <3>1, <3>2
    <3> QED
      BY <3>3 DEF ws
  <2>2. ASSUME NEW i \in 1 .. n PROVE Whole(t)[i] = Whole(s)[i]
    <3>1. i \in 1 .. n + 1
      BY <1>2
    <3>2. t[2 * i] = s[2 * i]
      BY <1>1, <1>4
    <3> QED
      BY <1>4, <1>5, <3>1, <3>2
  <2>3. \A i \in 1 .. n + 1 : Whole(t)[i] = Append(Whole(s), m)[i]
    BY <1>2, <1>5, <1>8, <1>9, <2>1, <2>2
  <2> QED
    BY <1>5, <2>1, <2>3, SeqEqual
<1> QED
  BY <1>1, <1>10, <1>11, <1>12 DEF t

\* Messages are taken from the front.
LEMMA FrameDrop ==
  ASSUME NEW s \in Seq(Unit), Framed(s), NEW k \in 0 .. Len(s) \div 2
  PROVE  LET t == SubSeq(s, 2 * k + 1, Len(s))
         IN  /\ t \in Seq(Unit) /\ Framed(t) /\ Len(t) = Len(s) - 2 * k
             /\ Even(Len(s)) => Even(Len(t))
             /\ Whole(t) = SubSeq(Whole(s), k + 1, Len(Whole(s)))
<1> DEFINE t == SubSeq(s, 2 * k + 1, Len(s))
           n == Len(s) \div 2
           w == Whole(s)
           v == SubSeq(w, k + 1, Len(w))
<1>1. /\ Len(s) \in Nat /\ n \in Nat /\ k \in Nat /\ k <= n
      /\ Len(s) = 2 * n \/ Len(s) = 2 * n + 1
      /\ w \in Seq(Messages) /\ Len(w) = n
      /\ \A i \in 1 .. n : w[i] = s[2 * i][1] /\ s[2 * i][1] \in Messages
      /\ \A i \in 1 .. n : 2 * i \in 1 .. Len(s) /\ 2 * i - 1 \in 1 .. Len(s)
  BY WholeOf, Half
<1>2. \A i \in 1 .. n : s[2 * i - 1] = <<s[2 * i][1], 1>> /\ s[2 * i] = <<s[2 * i][1], 2>>
  BY DEF Framed
<1>3. /\ t \in Seq(Unit) /\ Len(t) = Len(s) - 2 * k
      /\ \A i \in 1 .. Len(s) - 2 * k : t[i] = s[2 * k + i]
  <2> HIDE DEF n, w
  <2>1. 2 * k \in 0 .. Len(s)
    BY <1>1
  <2> HIDE DEF t
  <2>2. /\ After(s, 2 * k) \in Seq(Unit) /\ Len(After(s, 2 * k)) = Len(s) - 2 * k
        /\ \A i \in 1 .. Len(s) - 2 * k : After(s, 2 * k)[i] = s[2 * k + i]
    BY <2>1, Parts
  <2> QED
    BY <2>2 DEF After, t
<1>4. /\ v \in Seq(Messages) /\ Len(v) = n - k
      /\ \A i \in 1 .. n - k : v[i] = w[k + i]
  <2>1. k + 1 \in Nat \ {0} /\ Len(w) \in 0 .. Len(w) /\ w \in Seq(Messages)
    BY <1>1
  <2> HIDE DEF n, w
  <2>2. /\ v \in Seq(Messages) /\ Len(v) = IF k + 1 <= Len(w) THEN Len(w) - (k + 1) + 1 ELSE 0
        /\ \A i \in 1 .. Len(w) - (k + 1) + 1 : v[i] = w[k + 1 + i - 1]
    BY <2>1, Sub
  <2> QED
    BY <1>1, <2>1, <2>2
<1>5. Len(t) \div 2 = n - k
  <2> HIDE DEF t, n
  <2>1. Len(t) = 2 * (n - k) \/ Len(t) = 2 * (n - k) + 1
    BY <1>1, <1>3
  <2>2. n - k \in Nat /\ Len(t) \in Nat
    BY <1>1, <1>3
  <2> QED
    BY <2>1, <2>2, Half
<1>6. \A i \in 1 .. n - k : /\ k + i \in 1 .. n
                            /\ t[2 * i - 1] = s[2 * (k + i) - 1] /\ t[2 * i] = s[2 * (k + i)]
  <2> HIDE DEF t, n
  <2>1. ASSUME NEW i \in 1 .. n - k
        PROVE  /\ k + i \in 1 .. n
               /\ 2 * i \in 1 .. Len(s) - 2 * k /\ 2 * k + 2 * i = 2 * (k + i)
               /\ 2 * i - 1 \in 1 .. Len(s) - 2 * k /\ 2 * k + (2 * i - 1) = 2 * (k + i) - 1
    BY <1>1
  <2> QED
    BY <1>3, <2>1
<1>7. Framed(t)
  <2> HIDE DEF t, n
  <2>1. \A i \in 1 .. n - k : t[2 * i - 1] = <<t[2 * i][1], 1>> /\ t[2 * i] = <<t[2 * i][1], 2>>
    BY <1>2, <1>6
  <2> QED
    BY <1>5, <2>1 DEF Framed
<1>8. Even(Len(s)) => Even(Len(t))
  <2> HIDE DEF t
  <2>1. Even(Len(s)) => Len(s) = 2 * n
    BY DEF Even
  <2>2. Len(t) = 2 * (n - k) => Even(Len(t))
    BY <1>5 DEF Even
  <2>3. Len(s) = 2 * n => Len(t) = 2 * (n - k)
    <3> HIDE DEF n
    <3> QED
      BY <1>1, <1>3
  <2> QED
    BY <2>1, <2>2, <2>3
<1>9. Whole(t) = v
  <2> HIDE DEF t
  <2>1. /\ Whole(t) \in Seq(Messages) /\ Len(Whole(t)) = n - k
        /\ \A i \in 1 .. n - k : Whole(t)[i] = t[2 * i][1]
    BY <1>3, <1>5, WholeOf
  <2> HIDE DEF n, w, v
  <2>2. ASSUME NEW i \in 1 .. n - k PROVE Whole(t)[i] = v[i]
    <3>1. Whole(t)[i] = s[2 * (k + i)][1] /\ k + i \in 1 .. n
      BY <1>6, <2>1
    <3>2. v[i] = w[k + i]
      BY <1>4
    <3>3. w[k + i] = s[2 * (k + i)][1]
      BY <1>1, <3>1
    <3> QED
      BY <3>1, <3>2, <3>3
  <2> QED
    BY <1>4, <2>1, <2>2, SeqEqual
<1> QED
  BY <1>3, <1>7, <1>8, <1>9

\* What has been read of the units p is read right.
LEMMA FrameFront ==
  ASSUME NEW s \in Seq(Unit), NEW u \in Seq(Unit), Framed(s \o u)
  PROVE  /\ Len(s) \div 2 \in 0 .. Len(s \o u) \div 2
         /\ Framed(s)
         /\ Whole(s) = SubSeq(Whole(s \o u), 1, Len(s) \div 2)
<1> DEFINE p == s \o u
           k == Len(s) \div 2
           n == Len(p) \div 2
           w == Whole(p)
           v == SubSeq(w, 1, k)
<1>1. /\ p \in Seq(Unit) /\ Len(p) = Len(s) + Len(u) /\ Len(s) \in Nat /\ Len(u) \in Nat
      /\ \A i \in 1 .. Len(s) : p[i] = s[i]
  BY Concat
<1>2. /\ k \in Nat /\ n \in Nat /\ Len(p) \in Nat
      /\ Len(s) = 2 * k \/ Len(s) = 2 * k + 1
      /\ Len(p) = 2 * n \/ Len(p) = 2 * n + 1
  <2>1. Len(s) \in Nat /\ Len(p) \in Nat
    BY <1>1
  <2> HIDE DEF p
  <2> QED
    BY <2>1, Half
<1>3. k <= n
  <2> HIDE DEF p, k, n
  <2> QED
    BY <1>1, <1>2
<1>4. /\ \A i \in 1 .. k : /\ 2 * i \in 1 .. Len(s) /\ 2 * i - 1 \in 1 .. Len(s)
                           /\ s[2 * i][1] \in Messages
      /\ Whole(s) \in Seq(Messages) /\ Len(Whole(s)) = k
      /\ \A i \in 1 .. k : Whole(s)[i] = s[2 * i][1]
  BY WholeOf
<1>5. /\ w \in Seq(Messages) /\ Len(w) = n
      /\ \A i \in 1 .. n : w[i] = p[2 * i][1]
  <2> HIDE DEF p
  <2> QED
    BY <1>1, WholeOf
<1>6. /\ v \in Seq(Messages) /\ Len(v) = k
      /\ \A i \in 1 .. k : v[i] = w[i]
  <2>1. 1 \in Nat \ {0} /\ k \in 0 .. Len(w) /\ w \in Seq(Messages)
    BY <1>2, <1>3, <1>5
  <2> HIDE DEF n, w, k, p
  <2>2. /\ v \in Seq(Messages) /\ Len(v) = IF 1 <= k THEN k - 1 + 1 ELSE 0
        /\ \A i \in 1 .. k - 1 + 1 : v[i] = w[1 + i - 1]
    BY <2>1, Sub
  <2> QED
    BY <1>2, <2>1, <2>2
<1>7. \A i \in 1 .. n : p[2 * i - 1] = <<p[2 * i][1], 1>> /\ p[2 * i] = <<p[2 * i][1], 2>>
  BY DEF Framed
<1>8. \A i \in 1 .. k : i \in 1 .. n /\ p[2 * i] = s[2 * i] /\ p[2 * i - 1] = s[2 * i - 1]
  <2>1. \A i \in 1 .. k : /\ i \in 1 .. n
                          /\ 2 * i \in 1 .. Len(s) /\ 2 * i - 1 \in 1 .. Len(s)
    <3> HIDE DEF p, n
    <3>1. k \in Nat /\ n \in Nat /\ k <= n
      BY <1>2, <1>3
    <3>2. \A i \in 1 .. k : /\ 2 * i \in 1 .. Len(s) /\ 2 * i - 1 \in 1 .. Len(s)
      BY <1>4
    <3> HIDE DEF k
    <3> QED
      BY <3>1, <3>2
  <2> HIDE DEF p, n, k
  <2> QED
    BY <1>1, <2>1
<1>9. Framed(s)
  <2> HIDE DEF p, n
  <2>1. \A i \in 1 .. k : s[2 * i - 1] = <<s[2 * i][1], 1>> /\ s[2 * i] = <<s[2 * i][1], 2>>
    BY <1>7, <1>8
  <2> QED
    BY <2>1 DEF Framed
<1>10. Whole(s) = v
  <2> HIDE DEF p, n, k, v, w
  <2>1. \A i \in 1 .. k : Whole(s)[i] = v[i]
    BY <1>4, <1>5, <1>6, <1>8
  <2> QED
    BY <1>4, <1>6, <2>1, SeqEqual
<1>11. k \in 0 .. n
  BY <1>2, <1>3
<1> QED
  BY <1>9, <1>10, <1>11

\* A message that is there is understood.
LEMMA Understood ==
  ASSUME NEW s \in Seq(Unit), Len(s) >= 2, NEW m \in Messages, s[1] = <<m, 1>>, s[2] = <<m, 2>>
  PROVE  Created(s) = {m}
<1> DEFINE f == SubSeq(s, 1, 2)
<1>1. Frame(m) \in Seq(Unit) /\ Len(Frame(m)) = 2 /\ Frame(m)[1] = <<m, 1>> /\ Frame(m)[2] = <<m, 2>>
  BY FrameOf
<1>2. f \in Seq(Unit) /\ Len(f) = 2 /\ f[1] = s[1] /\ f[2] = s[2]
  <2>1. 1 \in Nat \ {0} /\ 2 \in 0 .. Len(s)
    OBVIOUS
  <2>2. /\ f \in Seq(Unit) /\ Len(f) = IF 1 <= 2 THEN 2 - 1 + 1 ELSE 0
        /\ \A j \in 1 .. 2 - 1 + 1 : f[j] = s[1 + j - 1]
    BY <2>1, Sub
  <2> HIDE DEF f
  <2> QED
    BY <2>2
<1> HIDE DEF f
<1>3. f = Frame(m)
  <2>1. \A i \in 1 .. Len(f) : f[i] = Frame(m)[i]
    <3>1. \A i \in 1 .. 2 : i = 1 \/ i = 2
      OBVIOUS
    <3> QED
      BY <1>1, <1>2, <3>1
  <2> QED
    BY <1>1, <1>2, <2>1, SeqEqual
<1>4. SubSeq(Frame(m), 1, 2) = Frame(m)
  BY <1>1, SubSeqFull
<1>5. IsPrefix(Frame(m), s)
  BY <1>1, <1>3, <1>4 DEF IsPrefix, f
<1>6. s[1][1] = m
  OBVIOUS
<1> QED
  BY <1>5, <1>6 DEF Created

LEMMA CreatedOf ==
  ASSUME NEW s \in Seq(Unit), Framed(s), NEW i \in 1 .. Len(s) \div 2
  PROVE  /\ Created(SubSeq(s, 2 * i - 1, 2 * i)) = {s[2 * i][1]}
         /\ s[2 * i][1] \in Messages
<1> DEFINE m == s[2 * i][1]
           f == SubSeq(s, 2 * i - 1, 2 * i)
<1>1. /\ Len(s) \in Nat /\ 2 * i \in 1 .. Len(s) /\ 2 * i - 1 \in 1 .. Len(s)
      /\ m \in Messages
  BY WholeOf
<1>2. s[2 * i - 1] = <<m, 1>> /\ s[2 * i] = <<m, 2>>
  BY DEF Framed
<1>3. f \in Seq(Unit) /\ Len(f) = 2 /\ f[1] = s[2 * i - 1] /\ f[2] = s[2 * i]
  <2>1. 2 * i - 1 \in Nat \ {0} /\ 2 * i \in 0 .. Len(s)
    BY <1>1
  <2>2. /\ f \in Seq(Unit) /\ Len(f) = IF 2 * i - 1 <= 2 * i THEN 2 * i - (2 * i - 1) + 1 ELSE 0
        /\ \A j \in 1 .. 2 * i - (2 * i - 1) + 1 : f[j] = s[2 * i - 1 + j - 1]
    BY <2>1, Sub
  <2>3. /\ 2 * i - 1 <= 2 * i /\ 2 * i - (2 * i - 1) + 1 = 2 /\ 1 \in 1 .. 2 /\ 2 \in 1 .. 2
        /\ 2 * i - 1 + 1 - 1 = 2 * i - 1 /\ 2 * i - 1 + 2 - 1 = 2 * i
    BY <1>1
  <2> HIDE DEF f
  <2> QED
    BY <2>2, <2>3
<1> HIDE DEF m, f
<1>4. Created(f) = {m}
  <2>1. f \in Seq(Unit) /\ Len(f) >= 2 /\ m \in Messages /\ f[1] = <<m, 1>> /\ f[2] = <<m, 2>>
    BY <1>1, <1>2, <1>3
  <2> QED
    BY <2>1, Understood
<1> QED
  BY <1>1, <1>4 DEF m, f

----------------------------------------------------------------------------
(* The last state                                                          *)

LEMMA SaysNothing ==
  ASSUME NEW v, NEW old, LastState(v, <<>>, old)
  PROVE  v = old
BY DEF LastState

LEMMA SaysLast ==
  ASSUME NEW ms \in Seq(Messages), NEW v \in States, NEW old
  PROVE  LastState(v, Append(ms, v), old)
<1>1. /\ v \in Messages /\ Len(ms) \in Nat
      /\ DOMAIN Append(ms, v) = 1 .. Len(ms) + 1 /\ Append(ms, v)[Len(ms) + 1] = v
  BY DEF Messages
<1> QED
  BY <1>1 DEF LastState

LEMMA SaysStill ==
  ASSUME NEW ms \in Seq(Messages), NEW m \in Messages \ States, NEW v \in States, NEW old,
         LastState(v, ms, old)
  PROVE  LastState(v, Append(ms, m), old)
<1>1. /\ Len(ms) \in Nat /\ DOMAIN ms = 1 .. Len(ms)
      /\ DOMAIN Append(ms, m) = 1 .. Len(ms) + 1 /\ Append(ms, m)[Len(ms) + 1] = m
      /\ \A i \in 1 .. Len(ms) : Append(ms, m)[i] = ms[i]
  OBVIOUS
<1>2. \A i \in 1 .. Len(ms) + 1 : i = Len(ms) + 1 \/ i \in 1 .. Len(ms)
  BY <1>1
<1>3. \A i \in 1 .. Len(ms) : i \in 1 .. Len(ms) + 1
  BY <1>1
<1>4. CASE v = old /\ \A i \in DOMAIN ms : ms[i] \notin States
  BY <1>1, <1>2, <1>4 DEF LastState
<1>5. CASE \E i \in DOMAIN ms : v = ms[i] /\ \A j \in DOMAIN ms : ms[j] \in States => j <= i
  BY <1>1, <1>2, <1>3, <1>5 DEF LastState
<1> QED
  BY <1>4, <1>5 DEF LastState

\* What is shown after a part, and what will be after the rest.
LEMMA SaysRest ==
  ASSUME NEW ms \in Seq(Messages), NEW k \in 0 .. Len(ms),
         NEW v \in States, NEW w \in States, NEW old,
         LastState(v, ms, old), LastState(w, SubSeq(ms, 1, k), old)
  PROVE  LastState(v, SubSeq(ms, k + 1, Len(ms)), w)
<1> DEFINE a == SubSeq(ms, 1, k)
           b == SubSeq(ms, k + 1, Len(ms))
<1>1. Len(ms) \in Nat /\ DOMAIN ms = 1 .. Len(ms) /\ k \in Nat /\ k <= Len(ms)
  OBVIOUS
<1>2. DOMAIN a = 1 .. k /\ \A i \in 1 .. k : a[i] = ms[i]
  <2>1. /\ a \in Seq(Messages) /\ Len(a) = IF 1 <= k THEN k - 1 + 1 ELSE 0
        /\ \A i \in 1 .. k - 1 + 1 : a[i] = ms[1 + i - 1]
    BY Sub
  <2> HIDE DEF a
  <2> QED
    BY <1>1, <2>1
<1>3. DOMAIN b = 1 .. Len(ms) - k /\ \A i \in 1 .. Len(ms) - k : b[i] = ms[k + i]
  <2>1. k + 1 \in Nat \ {0} /\ Len(ms) \in 0 .. Len(ms)
    BY <1>1
  <2>2. /\ b \in Seq(Messages) /\ Len(b) = IF k + 1 <= Len(ms) THEN Len(ms) - (k + 1) + 1 ELSE 0
        /\ \A i \in 1 .. Len(ms) - (k + 1) + 1 : b[i] = ms[k + 1 + i - 1]
    BY <2>1, Sub
  <2>3. /\ Len(ms) - (k + 1) + 1 = Len(ms) - k
        /\ ~(k + 1 <= Len(ms)) => Len(ms) - k = 0
        /\ \A i \in 1 .. Len(ms) - k : k + 1 + i - 1 = k + i
    <3>1. Len(ms) \in Nat /\ k \in Nat /\ k <= Len(ms)
      BY <1>1
    <3> QED
      BY <3>1
  <2> HIDE DEF b
  <2>4. Len(b) = Len(ms) - k
    BY <2>2, <2>3
  <2>5. DOMAIN b = 1 .. Len(b)
    BY <2>2
  <2> QED
    BY <2>2, <2>3, <2>4, <2>5
<1>4. \A i \in 1 .. Len(ms) - k : k + i \in DOMAIN ms
  BY <1>1
<1> HIDE DEF a, b
<1>5. CASE v = old /\ \A i \in DOMAIN ms : ms[i] \notin States
  <2>1. \A i \in 1 .. k : i \in DOMAIN ms
    BY <1>1
  <2>2. w = old
    BY <1>2, <1>5, <2>1 DEF LastState, a
  <2>3. \A i \in DOMAIN b : b[i] \notin States
    BY <1>3, <1>4, <1>5
  <2> QED
    BY <1>5, <2>2, <2>3 DEF LastState, b
<1>6. ASSUME NEW i \in DOMAIN ms, v = ms[i], \A j \in DOMAIN ms : ms[j] \in States => j <= i
      PROVE  LastState(v, b, w)
  <2>1. CASE i > k
    <3>1. i - k \in 1 .. Len(ms) - k /\ k + (i - k) = i
      BY <1>1, <2>1
    <3>2. ASSUME NEW j \in DOMAIN b, b[j] \in States PROVE j <= i - k
      <4>1. k + j <= i
        BY <1>3, <1>4, <1>6, <3>2
      <4> QED
        BY <1>1, <1>3, <4>1
    <3>3. b[i - k] = v
      BY <1>3, <1>6, <3>1
    <3> QED
      BY <1>3, <3>1, <3>2, <3>3 DEF LastState
  <2>2. CASE i <= k
    <3>1. i \in DOMAIN a /\ a[i] = v
      BY <1>1, <1>2, <1>6, <2>2
    <3>2. PICK j \in DOMAIN a : w = a[j] /\ \A l \in DOMAIN a : a[l] \in States => l <= j
      BY <3>1 DEF LastState, a
    <3>3. j <= i
      BY <1>1, <1>2, <1>6, <3>2
    <3>4. i <= j
      BY <3>1, <3>2
    <3>5. w = v
      BY <1>1, <1>2, <3>1, <3>2, <3>3, <3>4
    <3>6. ASSUME NEW l \in DOMAIN b PROVE b[l] \notin States
      <4>1. ~(k + l <= i)
        BY <1>1, <1>3, <2>2
      <4> QED
        BY <1>3, <1>4, <1>6, <4>1
    <3> QED
      BY <3>5, <3>6 DEF LastState
  <2> QED
    BY <1>1, <2>1, <2>2
<1> QED
  BY <1>5, <1>6 DEF LastState, b

----------------------------------------------------------------------------
(* Connections                                                             *)

LEMMA Typed ==
  ASSUME TypeOK
  PROVE  /\ clients \in Seq(Links) /\ backlog \in Seq(Links) /\ turn \in Seq(Links)
         /\ out \in [Links -> Seq(Unit)] /\ in \in [Links -> Seq(Unit)]
         /\ down \in [Links -> Seq(Unit)] /\ up \in [Links -> Seq(Unit)]
         /\ stream \in [Debuggers -> Seq(Unit)]
         /\ \A c \in Links : c[1] \in Debuggers /\ c[2] \in 1 .. MaxLinks
BY DEF TypeOK, Units, Unit, Links

LEMMA Paths ==
  ASSUME TypeOK, NEW c \in Links
  PROVE  /\ Path(c) \in Seq(Unit) /\ Asked(c) \in Seq(Unit)
         /\ stream[c[1]] \in Seq(Unit) /\ down[c] \in Seq(Unit) /\ out[c] \in Seq(Unit)
         /\ in[c] \in Seq(Unit) /\ up[c] \in Seq(Unit)
         /\ stream[c[1]] \o down[c] \in Seq(Unit)
<1>1. /\ stream[c[1]] \in Seq(Unit) /\ down[c] \in Seq(Unit) /\ out[c] \in Seq(Unit)
      /\ in[c] \in Seq(Unit) /\ up[c] \in Seq(Unit)
  BY Typed
<1>2. stream[c[1]] \o down[c] \in Seq(Unit)
  BY <1>1, ConcatProperties
<1> QED
  BY <1>1, <1>2, ConcatProperties DEF Path, Asked

\* The messages that are sent are put to the end of the path.
LEMMA SendIs ==
  ASSUME TypeOK, NEW to \in SUBSET Links, NEW m \in Messages, Send(to, m), UNCHANGED <<down, stream>>
  PROVE  /\ out' \in [Links -> Seq(Unit)]
         /\ \A c \in Links : Path(c)' = IF c \in to THEN Path(c) \o Frame(m) ELSE Path(c)
         /\ \A c \in Links \ to : out'[c] = out[c]
<1>1. /\ out \in [Links -> Seq(Unit)] /\ Frame(m) \in Seq(Unit)
      /\ out' = [c \in Links |-> IF c \in to THEN out[c] \o Frame(m) ELSE out[c]]
  BY Typed, FrameOf DEF Send
<1>2. \A c \in Links : out[c] \o Frame(m) \in Seq(Unit)
  BY <1>1, ConcatProperties
<1>3. out' \in [Links -> Seq(Unit)]
  BY <1>1, <1>2
<1>4. ASSUME NEW c \in Links PROVE Path(c)' = IF c \in to THEN Path(c) \o Frame(m) ELSE Path(c)
  <2>1. stream[c[1]] \o down[c] \in Seq(Unit) /\ out[c] \in Seq(Unit)
    BY Paths
  <2>2. Path(c)' = stream[c[1]] \o down[c] \o out'[c]
    BY DEF Path
  <2>3. CASE c \in to
    <3>1. out'[c] = out[c] \o Frame(m)
      BY <1>1, <2>3
    <3> DEFINE a == stream[c[1]] \o down[c]
               b == out[c]
               f == Frame(m)
    <3>2. a \in Seq(Unit) /\ b \in Seq(Unit) /\ f \in Seq(Unit)
      BY <1>1, <2>1
    <3>3. Path(c)' = a \o (b \o f) /\ Path(c) = a \o b
      BY <2>2, <3>1 DEF Path
    <3> HIDE DEF a, b, f
    <3>4. (a \o b) \o f = a \o (b \o f)
      BY <3>2, ConcatAssociative
    <3> QED
      BY <2>3, <3>3, <3>4 DEF f
  <2>4. CASE c \notin to
    BY <1>1, <2>2, <2>4 DEF Path
  <2> QED
    BY <2>3, <2>4
<1> QED
  BY <1>1, <1>3, <1>4

LEMMA RangeOf ==
  ASSUME NEW S, NEW s \in Seq(S)
  PROVE  /\ Range(s) = {s[i] : i \in 1 .. Len(s)}
         /\ Range(s) \subseteq S
         /\ s = <<>> \/ /\ Head(s) \in S /\ Head(s) \in Range(s)
                        /\ Tail(s) \in Seq(S) /\ Range(Tail(s)) \subseteq Range(s)
         /\ \A e \in S : Append(s, e) \in Seq(S) /\ Range(Append(s, e)) = Range(s) \union {e}
<1>1. DOMAIN s = 1 .. Len(s) /\ Len(s) \in Nat
  OBVIOUS
<1>2. Range(s) = {s[i] : i \in 1 .. Len(s)} /\ Range(s) \subseteq S
  BY <1>1, ElementOfSeq DEF Range
<1>3. ASSUME s # <<>>
      PROVE  /\ Head(s) \in S /\ Head(s) \in Range(s)
             /\ Tail(s) \in Seq(S) /\ Range(Tail(s)) \subseteq Range(s)
  <2>1. /\ Head(s) = s[1] /\ Tail(s) \in Seq(S) /\ Len(s) \in Nat \ {0}
        /\ DOMAIN Tail(s) = 1 .. Len(s) - 1 /\ \A i \in 1 .. Len(s) - 1 : Tail(s)[i] = s[i + 1]
    BY <1>3
  <2>2. 1 \in 1 .. Len(s) /\ \A i \in 1 .. Len(s) - 1 : i + 1 \in 1 .. Len(s)
    BY <2>1
  <2> QED
    BY <1>1, <1>2, <2>1, <2>2, ElementOfSeq DEF Range
<1>4. ASSUME NEW e \in S PROVE Append(s, e) \in Seq(S) /\ Range(Append(s, e)) = Range(s) \union {e}
  <2>1. /\ Append(s, e) \in Seq(S) /\ DOMAIN Append(s, e) = 1 .. Len(s) + 1
        /\ \A i \in 1 .. Len(s) : Append(s, e)[i] = s[i]
        /\ Append(s, e)[Len(s) + 1] = e
    OBVIOUS
  <2>2. /\ \A i \in 1 .. Len(s) + 1 : i = Len(s) + 1 \/ i \in 1 .. Len(s)
        /\ Len(s) + 1 \in 1 .. Len(s) + 1 /\ \A i \in 1 .. Len(s) : i \in 1 .. Len(s) + 1
    BY <1>1
  <2> QED
    BY <1>1, <2>1, <2>2 DEF Range
<1> QED
  BY <1>2, <1>3, <1>4

LEMMA EmptyIsFramed == Framed(<<>>) /\ Even(Len(<<>>)) /\ Whole(<<>>) = <<>>
<1>1. Len(<<>>) = 0 /\ 0 \div 2 = 0 /\ 1 .. 0 = {}
  OBVIOUS
<1>2. Framed(<<>>) /\ Even(Len(<<>>))
  BY <1>1 DEF Framed, Even
<1>3. <<>> \in Seq(Unit)
  OBVIOUS
<1>4. Whole(<<>>) \in Seq(Messages) /\ Len(Whole(<<>>)) = 0
  BY <1>1, <1>3, WholeOf
<1> QED
  BY <1>2, <1>4, EmptySeq

\* A step of the server or of TCP that leaves the framing alone, or keeps it.
LEMMA KeepFrame ==
  ASSUME FrameInv, UNCHANGED <<link, open, stream, torn>>,
         \A c \in Links : \/ Asked(c)' = Asked(c)
                          \/ Framed(Asked(c))' /\ (Live(c) => Even(Len(Asked(c)))')
         ,
         \A c \in Links : Sound(c) => \/ Path(c)' = Path(c)
                                      \/ Framed(Path(c))' /\ Even(Len(Path(c)))'
  PROVE  FrameInv'
<1>1. \A c \in Links : (Live(c) <=> Live(c)') /\ (Sound(c) <=> Sound(c)')
  BY DEF Live, Sound
<1>2. \A c \in Links : Framed(Asked(c))' /\ (Live(c)' => Even(Len(Asked(c)))')
  BY <1>1 DEF FrameInv
<1>3. \A c \in Links : Sound(c)' => Framed(Path(c))' /\ Even(Len(Path(c)))'
  BY <1>1 DEF FrameInv
<1> QED
  BY <1>2, <1>3 DEF FrameInv

LEMMA KeepSay ==
  ASSUME SayInv, UNCHANGED <<link, open, torn, view>>,
         \A c \in Links :
           Sound(c) /\ Greeted(c)' =>
             \/ Greeted(c) /\ Path(c)' = Path(c) /\ Word(c)' = Word(c)
             \/ LastState(Word(c)', Whole(Path(c)'), view[c[1]])
  PROVE  SayInv'
<1>1. \A c \in Links : Sound(c) <=> Sound(c)'
  BY DEF Live, Sound
<1> QED
  BY <1>1 DEF SayInv

LEMMA WordStays ==
  ASSUME UNCHANGED <<pause, stale>>
  PROVE  \A c \in Links : Word(c)' = Word(c)
BY DEF Word

\* What is taken from the events leaves the others.
LEMMA NextEvent ==
  ASSUME events \in Seq(Events), events # <<>>, events' = Tail(events)
  PROVE  /\ Head(events) \in Events /\ events' \in Seq(Events)
         /\ 1 \in DOMAIN events /\ events[1] = Head(events)
         /\ \A i \in DOMAIN events' : \E j \in DOMAIN events : events'[i] = events[j]
         /\ \A i \in DOMAIN events : i = 1 \/ \E j \in DOMAIN events' : events[i] = events'[j]
<1>1. /\ Head(events) = events[1] /\ Tail(events) \in Seq(Events) /\ Len(events) \in Nat \ {0}
      /\ DOMAIN events = 1 .. Len(events) /\ DOMAIN events' = 1 .. Len(events) - 1
      /\ \A i \in 1 .. Len(events) - 1 : events'[i] = events[i + 1]
  OBVIOUS
<1>2. Head(events) \in Events
  BY HeadTailProperties
<1>3. /\ \A i \in 1 .. Len(events) - 1 : i + 1 \in 1 .. Len(events)
      /\ \A i \in 1 .. Len(events) : i = 1 \/ (i - 1 \in 1 .. Len(events) - 1 /\ (i - 1) + 1 = i)
      /\ 1 \in 1 .. Len(events)
  BY <1>1
<1>4. \A i \in DOMAIN events : i = 1 \/ (i - 1 \in DOMAIN events' /\ events[i] = events'[i - 1])
  BY <1>1, <1>3
<1> QED
  BY <1>1, <1>2, <1>3, <1>4

\* What update has taken is there.
LEMMA BatchIs ==
  ASSUME events \in Seq(Events), batch \in 0 .. Len(events), batch > 0,
         events' = Tail(events), batch' = batch - 1
  PROVE  events # <<>> /\ batch' \in 0 .. Len(events')
<1>1. Len(events) \in Nat /\ Len(events) > 0
  OBVIOUS
<1>2. events # <<>>
  BY <1>1
<1>3. Len(Tail(events)) = Len(events) - 1
  BY <1>2
<1> QED
  BY <1>1, <1>2, <1>3

\* An event is put behind the others.
LEMMA PostIs ==
  ASSUME NEW q \in Seq(Events), NEW e \in Events
  PROVE  /\ Append(q, e) \in Seq(Events) /\ Len(q) \in Nat /\ Len(Append(q, e)) = Len(q) + 1
         /\ \A i \in DOMAIN Append(q, e) : Append(q, e)[i] = e \/ \E j \in DOMAIN q : Append(q, e)[i] = q[j]
         /\ \A i \in DOMAIN q : \E j \in DOMAIN Append(q, e) : q[i] = Append(q, e)[j]
         /\ \E i \in DOMAIN Append(q, e) : Append(q, e)[i] = e
<1>1. /\ Append(q, e) \in Seq(Events) /\ Len(q) \in Nat /\ Len(Append(q, e)) = Len(q) + 1
      /\ DOMAIN q = 1 .. Len(q)
      /\ DOMAIN Append(q, e) = 1 .. Len(q) + 1
      /\ Append(q, e)[Len(q) + 1] = e
      /\ \A i \in 1 .. Len(q) : Append(q, e)[i] = q[i]
  OBVIOUS
<1>2. /\ \A i \in 1 .. Len(q) + 1 : i = Len(q) + 1 \/ i \in 1 .. Len(q)
      /\ \A i \in 1 .. Len(q) : i \in 1 .. Len(q) + 1
      /\ Len(q) + 1 \in 1 .. Len(q) + 1
  BY <1>1
<1> QED
  BY <1>1, <1>2

\* So is the end of a pause.
LEMMA ResumedIs ==
  ASSUME NEW q \in Seq(Events)
  PROVE  /\ Resumed(q) \in Seq(Events) /\ Len(q) \in Nat /\ Len(Resumed(q)) = Len(q) + 1
         /\ \A i \in DOMAIN Resumed(q) : Resumed(q)[i][1] = "connect" => \E j \in DOMAIN q : Resumed(q)[i] = q[j]
         /\ \A i \in DOMAIN q : \E j \in DOMAIN Resumed(q) : q[i] = Resumed(q)[j]
<1> DEFINE e == <<"pause", "running">>
<1>1. e \in Events /\ e[1] # "connect"
  BY DEF Events, States
<1>2. Resumed(q) = Append(q, e)
  BY DEF Resumed
<1> HIDE DEF e
<1>3. /\ Append(q, e) \in Seq(Events) /\ Len(q) \in Nat /\ Len(Append(q, e)) = Len(q) + 1
      /\ \A i \in DOMAIN Append(q, e) : Append(q, e)[i] = e \/ \E j \in DOMAIN q : Append(q, e)[i] = q[j]
      /\ \A i \in DOMAIN q : \E j \in DOMAIN Append(q, e) : q[i] = Append(q, e)[j]
  BY <1>1, PostIs
<1>4. \A i \in DOMAIN Append(q, e) : Append(q, e)[i][1] = "connect" => \E j \in DOMAIN q : Append(q, e)[i] = q[j]
  BY <1>1, <1>3
<1> QED
  BY <1>2, <1>3, <1>4

LEMMA ConnectedIs ==
  ASSUME TypeOK
  PROVE  Connected \in SUBSET Links /\ Range(backlog) \in SUBSET Links /\ Range(turn) \in SUBSET Links
BY Typed, RangeOf DEF Connected

----------------------------------------------------------------------------
(* The server                                                              *)

LEMMA WordIs ==
  ASSUME NEW c, pause \in States
  PROVE  Word(c) \in States
BY DEF Word, Other, States

LEMMA GreetKeeps ==
  ASSUME IInv, Greet
  PROVE  IInv'
<1> DEFINE e == Head(events)[2]
<1>1. TypeOK /\ LinksInv /\ FrameInv /\ SayInv
  BY DEF IInv
<1>2. /\ events \in Seq(Events) /\ events # <<>> /\ events' = Tail(events)
      /\ Head(events)[1] = "connect" /\ lpause \in States /\ pause \in States
      /\ batch' \in 0 .. Len(events')
  BY <1>1, BatchIs DEF Greet, Handling, TypeOK
<1>3. Head(events) = <<"connect", e>> /\ e \in Links
  BY <1>2, NextEvent DEF Events
<1>4. /\ Send({e}, lpause)
      /\ stale' = (IF lpause = pause THEN stale \ {e} ELSE stale \union {e})
      /\ UNCHANGED <<sockets, pc, time, pause, lpause, zone, lzone, tcp, debugger>>
  BY DEF Greet
<1>5. lpause \in Messages
  BY <1>2 DEF Messages
<1>6. /\ out' \in [Links -> Seq(Unit)]
      /\ \A c \in Links : Path(c)' = IF c \in {e} THEN Path(c) \o Frame(lpause) ELSE Path(c)
      /\ \A c \in Links \ {e} : out'[c] = out[c]
  <2>1. UNCHANGED <<down, stream>> /\ {e} \in SUBSET Links
    BY <1>3, <1>4 DEF tcp, debugger
  <2> HIDE DEF e
  <2> QED
    BY <1>1, <1>4, <1>5, <2>1, SendIs
<1> HIDE DEF e
<1>7. TypeOK'
  <2>1. events' \in Seq(Events)
    BY <1>2, NextEvent
  <2>2. stale' \subseteq Links
    BY <1>1, <1>3, <1>4 DEF TypeOK
  <2>3. UNCHANGED <<clients, backlog, in, turn, readable, writable, pc, time, pause, lpause, zone, lzone,
                    down, up, reset, link, open, stream, view, orders, torn>>
    BY <1>4 DEF sockets, tcp, debugger
  <2>4. {out, in, down, up}' \subseteq [Links -> Units]
    BY <1>1, <1>6, <2>3 DEF TypeOK, Units, Unit
  <2>5. batch' \in 0 .. Len(events')
    BY <1>2
  <2> QED
    BY <1>1, <2>1, <2>2, <2>3, <2>4, <2>5 DEF TypeOK
<1>8. LinksInv'
  <2>1. e \in Used
    BY <1>1, <1>2, <1>3, NextEvent DEF LinksInv
  <2>2. \A i \in DOMAIN events' : events'[i][1] = "connect" => events'[i][2] \in Used
    BY <1>1, <1>2, NextEvent DEF LinksInv
  <2>3. \A c \in Links \ Used : out'[c] = <<>>
    BY <1>1, <1>6, <2>1 DEF LinksInv
  <2>4. Used' = Used /\ \A c \in Links : Live(c)' <=> Live(c)
    BY <1>4 DEF Used, Live, debugger
  <2>5. \A d \in open' : link'[d] # 0
    BY <1>1, <1>4 DEF LinksInv, debugger
  <2>6. UNCHANGED <<clients, backlog, in, up, down, reset>>
    BY <1>4 DEF sockets, tcp
  <2> QED
    BY <1>1, <2>2, <2>3, <2>4, <2>5, <2>6 DEF LinksInv, TypeOK
<1>9. FrameInv'
  <2>1. UNCHANGED <<link, open, stream, torn>> /\ \A c \in Links : Asked(c)' = Asked(c)
    BY <1>4 DEF debugger, Asked, sockets, tcp
  <2>2. \A c \in Links : Sound(c) => Path(c)' = Path(c) \/ (Framed(Path(c))' /\ Even(Len(Path(c)))')
    BY <1>1, <1>5, <1>6, Paths, FrameAppend DEF FrameInv
  <2> QED
    BY <1>1, <2>1, <2>2, KeepFrame
<1>10. SayInv'
  <2>1. UNCHANGED <<link, open, torn, view, pause>>
    BY <1>4 DEF debugger
  <2>2. ASSUME NEW c \in Links, Sound(c), Greeted(c)'
        PROVE  \/ Greeted(c) /\ Path(c)' = Path(c) /\ Word(c)' = Word(c)
               \/ LastState(Word(c)', Whole(Path(c)'), view[c[1]])
    <3>1. CASE c = e
      <4>1. Word(c)' = lpause
        BY <1>2, <1>4, <3>1 DEF Word, Other, States
      <4>2. Whole(Path(c)') = Append(Whole(Path(c)), lpause) /\ Whole(Path(c)) \in Seq(Messages)
        BY <1>1, <1>5, <1>6, <2>2, <3>1, Paths, FrameAppend, WholeOf DEF FrameInv
      <4>3. LastState(lpause, Append(Whole(Path(c)), lpause), view[c[1]])
        BY <1>2, <4>2, SaysLast
      <4> QED
        BY <4>1, <4>2, <4>3
    <3>2. CASE c # e
      <4>1. Path(c)' = Path(c) /\ Word(c)' = Word(c)
        BY <1>4, <1>6, <2>2, <3>2 DEF Word
      <4>2. c \in Connected /\ \A i \in DOMAIN events' : events'[i] # <<"connect", c>>
        <5>1. clients' = clients
          BY <1>4 DEF sockets
        <5>2. c \in Connected
          BY <2>2, <5>1 DEF Greeted, Connected
        <5>3. \A i \in DOMAIN events' : events'[i] # <<"connect", c>>
          BY <2>2 DEF Greeted
        <5> QED
          BY <5>2, <5>3
      <4>3. ASSUME NEW i \in DOMAIN events PROVE events[i] # <<"connect", c>>
        <5>1. events[1] = <<"connect", e>> /\ (i = 1 \/ \E j \in DOMAIN events' : events[i] = events'[j])
          BY <1>2, <1>3, NextEvent
        <5>2. <<"connect", e>> # <<"connect", c>>
          BY <3>2
        <5> QED
          BY <4>2, <5>1, <5>2
      <4> QED
        BY <4>1, <4>2, <4>3 DEF Greeted
    <3> QED
      BY <3>1, <3>2
  <2> QED
    BY <1>1, <2>1, <2>2, KeepSay
<1> QED
  BY <1>7, <1>8, <1>9, <1>10 DEF IInv

LEMMA PauseKeeps ==
  ASSUME IInv, HandlePause
  PROVE  IInv'
<1>1. TypeOK /\ LinksInv /\ FrameInv /\ SayInv
  BY DEF IInv
<1>2. /\ events \in Seq(Events) /\ events # <<>> /\ events' = Tail(events)
      /\ Head(events)[1] = "pause" /\ pause' = Head(events)[2] /\ batch' \in 0 .. Len(events')
  BY <1>1, BatchIs DEF HandlePause, Handling, TypeOK
<1>3. pause' \in States /\ pause' \in Messages /\ pause \in States
  BY <1>1, <1>2, NextEvent DEF Events, Messages, TypeOK
<1>4. /\ Send(Told, pause') /\ Told \subseteq Connected
      /\ stale' = IF lzone THEN {} ELSE IF pause' = pause THEN stale ELSE Connected \ stale
      /\ time' = (IF Told = {} THEN time ELSE 0)
      /\ UNCHANGED <<sockets, pc, lpause, zone, lzone, tcp, debugger>>
  BY DEF HandlePause, Told
<1>5. /\ out' \in [Links -> Seq(Unit)]
      /\ \A c \in Links : Path(c)' = IF c \in Told THEN Path(c) \o Frame(pause') ELSE Path(c)
      /\ \A c \in Links \ Told : out'[c] = out[c]
  <2>1. UNCHANGED <<down, stream>> /\ Told \in SUBSET Links
    BY <1>1, <1>4, ConnectedIs DEF tcp, debugger
  <2> QED
    BY <1>1, <1>3, <1>4, <2>1, SendIs
<1>6. TypeOK'
  <2>1. events' \in Seq(Events)
    BY <1>2, NextEvent
  <2>2. time' \in 0 .. PingAfter
    BY <1>1, <1>4, RemoteAssumption DEF TypeOK
  <2>3. stale' \subseteq Links
    BY <1>1, <1>4, ConnectedIs DEF TypeOK
  <2>4. UNCHANGED <<clients, backlog, in, turn, readable, writable, pc, lpause, zone, lzone, down, up, reset,
                    link, open, stream, view, orders, torn>>
    BY <1>4 DEF sockets, tcp, debugger
  <2>5. {out, in, down, up}' \subseteq [Links -> Units]
    BY <1>1, <1>5, <2>4 DEF TypeOK, Units, Unit
  <2>6. batch' \in 0 .. Len(events') /\ {pause', lpause'} \subseteq States
    BY <1>1, <1>2, <1>3, <2>4 DEF TypeOK
  <2> QED
    BY <1>1, <2>1, <2>2, <2>3, <2>4, <2>5, <2>6 DEF TypeOK
<1>7. LinksInv'
  <2>1. \A i \in DOMAIN events' : events'[i][1] = "connect" => events'[i][2] \in Used
    BY <1>1, <1>2, NextEvent DEF LinksInv
  <2>2. \A c \in Links \ Used : out'[c] = <<>>
    BY <1>1, <1>4, <1>5 DEF LinksInv, Connected
  <2>3. Used' = Used /\ \A c \in Links : Live(c)' <=> Live(c)
    BY <1>4 DEF Used, Live, debugger
  <2>4. \A d \in open' : link'[d] # 0
    BY <1>1, <1>4 DEF LinksInv, debugger
  <2>5. UNCHANGED <<clients, backlog, in, up, down, reset>>
    BY <1>4 DEF sockets, tcp
  <2> QED
    BY <1>1, <2>1, <2>2, <2>3, <2>4, <2>5 DEF LinksInv, TypeOK
<1>8. FrameInv'
  <2>1. UNCHANGED <<link, open, stream, torn>> /\ \A c \in Links : Asked(c)' = Asked(c)
    BY <1>4 DEF debugger, Asked, sockets, tcp
  <2>2. \A c \in Links : Sound(c) => Path(c)' = Path(c) \/ (Framed(Path(c))' /\ Even(Len(Path(c)))')
    BY <1>1, <1>3, <1>5, Paths, FrameAppend DEF FrameInv
  <2> QED
    BY <1>1, <2>1, <2>2, KeepFrame
<1>9. SayInv'
  <2>1. UNCHANGED <<link, open, torn, view, clients>>
    BY <1>4 DEF debugger, sockets
  <2>2. ASSUME NEW c \in Links, Sound(c), Greeted(c)'
        PROVE  \/ Greeted(c) /\ Path(c)' = Path(c) /\ Word(c)' = Word(c)
               \/ LastState(Word(c)', Whole(Path(c)'), view[c[1]])
    <3>1. c \in Connected
      BY <2>1, <2>2 DEF Greeted, Connected
    <3>2. CASE lzone
      <4>1. c \in Told /\ Word(c)' = pause'
        BY <1>4, <3>1, <3>2 DEF Told, Word
      <4>2. Whole(Path(c)') = Append(Whole(Path(c)), pause') /\ Whole(Path(c)) \in Seq(Messages)
        BY <1>1, <1>3, <1>5, <2>2, <4>1, Paths, FrameAppend, WholeOf DEF FrameInv
      <4>3. LastState(pause', Append(Whole(Path(c)), pause'), view[c[1]])
        BY <1>3, <4>2, SaysLast
      <4> QED
        BY <4>1, <4>2, <4>3
    <3>3. CASE ~lzone
      <4>1. Path(c)' = Path(c)
        BY <1>5, <2>2, <3>3 DEF Told
      <4>2. Word(c)' = Word(c)
        BY <1>3, <1>4, <3>1, <3>3 DEF Word, Other, States
      <4>3. ASSUME NEW i \in DOMAIN events PROVE events[i] # <<"connect", c>>
        <5>1. events[1][1] = "pause" /\ (i = 1 \/ \E k \in DOMAIN events' : events[i] = events'[k])
          BY <1>2, NextEvent
        <5>2. \A k \in DOMAIN events' : events'[k] # <<"connect", c>>
          BY <2>2 DEF Greeted
        <5> QED
          BY <5>1, <5>2
      <4> QED
        BY <3>1, <4>1, <4>2, <4>3 DEF Greeted
    <3> QED
      BY <3>2, <3>3
  <2> QED
    BY <1>1, <2>1, <2>2, KeepSay
<1> QED
  BY <1>6, <1>7, <1>8, <1>9 DEF IInv

LEMMA ZoneKeeps ==
  ASSUME IInv, HandleZone
  PROVE  IInv'
<1>1. TypeOK /\ LinksInv /\ FrameInv /\ SayInv
  BY DEF IInv
<1>2. /\ orders < MaxOrders /\ orders' = orders + 1 /\ zone' \in BOOLEAN
      /\ events' = events \/ events' = Resumed(events)
      /\ UNCHANGED <<clients, backlog, in, turn, readable, writable, out, pc, batch, time, pause, lpause,
                     lzone, stale, down, up, reset, link, open, stream, view, torn>>
  BY DEF HandleZone, sockets, tcp
<1>3. /\ events' \in Seq(Events) /\ batch \in 0 .. Len(events')
      /\ \A i \in DOMAIN events' : events'[i][1] = "connect" => \E j \in DOMAIN events : events'[i] = events[j]
      /\ \A i \in DOMAIN events : \E j \in DOMAIN events' : events[i] = events'[j]
  <2>1. events \in Seq(Events) /\ batch \in 0 .. Len(events)
    BY <1>1 DEF TypeOK
  <2>2. CASE events' = events
    BY <2>1, <2>2
  <2>3. CASE events' = Resumed(events)
    <3>1. /\ Resumed(events) \in Seq(Events) /\ Len(events) \in Nat /\ Len(Resumed(events)) = Len(events) + 1
          /\ \A i \in DOMAIN Resumed(events) :
               Resumed(events)[i][1] = "connect" => \E j \in DOMAIN events : Resumed(events)[i] = events[j]
          /\ \A i \in DOMAIN events : \E j \in DOMAIN Resumed(events) : events[i] = Resumed(events)[j]
      BY <2>1, ResumedIs
    <3>2. batch \in 0 .. Len(Resumed(events))
      BY <2>1, <3>1
    <3> QED
      BY <2>3, <3>1, <3>2
  <2> QED
    BY <1>2, <2>2, <2>3
<1>4. TypeOK'
  <2>1. orders' \in 0 .. MaxOrders
    BY <1>1, <1>2, RemoteAssumption DEF TypeOK
  <2> QED
    BY <1>1, <1>2, <1>3, <2>1 DEF TypeOK
<1>5. /\ Used' = Used
      /\ \A c \in Links : /\ Live(c)' = Live(c) /\ Path(c)' = Path(c) /\ Asked(c)' = Asked(c)
                          /\ Word(c)' = Word(c) /\ (Greeted(c)' => Greeted(c))
  <2>1. /\ Used' = Used
        /\ \A c \in Links : /\ Live(c)' = Live(c) /\ Path(c)' = Path(c) /\ Asked(c)' = Asked(c)
                            /\ Word(c)' = Word(c)
    BY <1>2 DEF Used, Live, Path, Asked, Word
  <2>2. \A c \in Links : Greeted(c)' => Greeted(c)
    BY <1>2, <1>3 DEF Greeted, Connected
  <2> QED
    BY <2>1, <2>2
<1>6. LinksInv'
  <2>1. \A i \in DOMAIN events' : events'[i][1] = "connect" => events'[i][2] \in Used
    BY <1>1, <1>3 DEF LinksInv
  <2> QED
    BY <1>1, <1>2, <1>5, <2>1 DEF LinksInv, TypeOK
<1>7. FrameInv'
  BY <1>1, <1>2, <1>5, KeepFrame
<1>8. SayInv'
  BY <1>1, <1>2, <1>5, KeepSay
<1> QED
  BY <1>4, <1>6, <1>7, <1>8 DEF IInv

LEMMA SelectKeeps ==
  ASSUME IInv, Select
  PROVE  IInv'
<1> DEFINE resume == IF (clients = <<>> \/ ~lzone) /\ lpause = "paused" THEN Resumed(events) ELSE events
<1>1. TypeOK /\ LinksInv /\ FrameInv /\ SayInv
  BY DEF IInv
<1>2. /\ Send(Pinged, "ping") /\ batch = 0 /\ batch' = 0
      /\ time' = (IF time + 1 > PingAfter THEN 0 ELSE time + 1)
      /\ readable' \subseteq Connected /\ writable' \subseteq Connected
      /\ \/ backlog = <<>> /\ events' = resume /\ UNCHANGED <<clients, backlog>>
         \/ /\ backlog # <<>> /\ clients' = Append(clients, Head(backlog))
            /\ backlog' = Tail(backlog) /\ events' = Append(resume, <<"connect", Head(backlog)>>)
      /\ turn' = clients' /\ pc' = "send"
      /\ UNCHANGED <<in, session, tcp, debugger>>
  BY DEF Select
<1>3. /\ clients \in Seq(Links) /\ backlog \in Seq(Links)
      /\ backlog # <<>> => /\ Head(backlog) \in Links /\ Head(backlog) \in Range(backlog)
                           /\ Tail(backlog) \in Seq(Links) /\ Range(Tail(backlog)) \subseteq Range(backlog)
                           /\ Append(clients, Head(backlog)) \in Seq(Links)
                           /\ Range(Append(clients, Head(backlog))) = Range(clients) \union {Head(backlog)}
  BY <1>1, Typed, RangeOf
<1>4. /\ clients' \in Seq(Links) /\ backlog' \in Seq(Links)
      /\ Range(clients') \subseteq Range(clients) \union Range(backlog)
      /\ Range(backlog') \subseteq Range(backlog)
  <2>1. CASE backlog = <<>>
    BY <1>2, <1>3, <2>1
  <2>2. CASE backlog # <<>>
    <3>1. clients' = Append(clients, Head(backlog)) /\ backlog' = Tail(backlog)
      BY <1>2, <2>2
    <3> QED
      BY <1>3, <2>2, <3>1
  <2> QED
    BY <2>1, <2>2
<1>5. /\ resume \in Seq(Events)
      /\ \A i \in DOMAIN resume : resume[i][1] = "connect" => \E j \in DOMAIN events : resume[i] = events[j]
      /\ \A i \in DOMAIN events : \E j \in DOMAIN resume : events[i] = resume[j]
  <2>1. events \in Seq(Events)
    BY <1>1 DEF TypeOK
  <2> QED
    BY <2>1, ResumedIs
<1> HIDE DEF resume
<1>6. /\ events' \in Seq(Events)
      /\ \A i \in DOMAIN events' : events'[i][1] = "connect" =>
           \/ backlog # <<>> /\ events'[i][2] = Head(backlog)
           \/ \E j \in DOMAIN events : events'[i] = events[j]
      /\ \A i \in DOMAIN events : \E j \in DOMAIN events' : events[i] = events'[j]
      /\ backlog # <<>> => \E i \in DOMAIN events' : events'[i] = <<"connect", Head(backlog)>>
  <2>1. CASE backlog = <<>>
    BY <1>2, <1>5, <2>1
  <2>2. CASE backlog # <<>>
    <3> DEFINE e == <<"connect", Head(backlog)>>
    <3>1. e \in Events /\ e[2] = Head(backlog)
      BY <1>3, <2>2 DEF Events
    <3>2. events' = Append(resume, e)
      BY <1>2, <2>2
    <3> HIDE DEF e
    <3>3. /\ Append(resume, e) \in Seq(Events)
          /\ \A i \in DOMAIN Append(resume, e) :
               Append(resume, e)[i] = e \/ \E j \in DOMAIN resume : Append(resume, e)[i] = resume[j]
          /\ \A i \in DOMAIN resume : \E j \in DOMAIN Append(resume, e) : resume[i] = Append(resume, e)[j]
          /\ \E i \in DOMAIN Append(resume, e) : Append(resume, e)[i] = e
      BY <1>5, <3>1, PostIs
    <3>4. \A i \in DOMAIN events' : events'[i][1] = "connect" =>
             events'[i][2] = Head(backlog) \/ \E j \in DOMAIN events : events'[i] = events[j]
      BY <1>5, <3>1, <3>2, <3>3
    <3>5. \A i \in DOMAIN events : \E j \in DOMAIN events' : events[i] = events'[j]
      BY <1>5, <3>2, <3>3
    <3> QED
      BY <2>2, <3>2, <3>3, <3>4, <3>5 DEF e
  <2> QED
    BY <2>1, <2>2
<1>7. Pinged \in SUBSET Links /\ Pinged \subseteq Range(clients) /\ "ping" \in Messages
  BY <1>1, ConnectedIs DEF Pinged, Connected, Messages
<1>8. /\ out' \in [Links -> Seq(Unit)]
      /\ \A c \in Links : Path(c)' = IF c \in Pinged THEN Path(c) \o Frame("ping") ELSE Path(c)
      /\ \A c \in Links \ Pinged : out'[c] = out[c]
  <2>1. UNCHANGED <<down, stream>>
    BY <1>2 DEF tcp, debugger
  <2> QED
    BY <1>1, <1>2, <1>7, <2>1, SendIs
<1>9. TypeOK'
  <2>1. time' \in 0 .. PingAfter
    BY <1>1, <1>2, RemoteAssumption DEF TypeOK
  <2>2. turn' \in Seq(Links) /\ Len(turn') <= Len(clients')
    BY <1>2, <1>4
  <2>3. turn' = SubSeq(clients', Len(clients') - Len(turn') + 1, Len(clients'))
    <3>1. Len(clients') \in Nat
      BY <1>4
    <3>2. Len(clients') - Len(turn') + 1 = 1
      BY <1>2, <3>1
    <3> QED
      BY <1>2, <1>4, <3>2, SubSeqFull
  <2>4. readable' \subseteq Links /\ writable' \subseteq Links
    BY <1>1, <1>2, ConnectedIs
  <2>5. {clients, backlog, turn}' \subseteq Seq(Links)
    BY <1>4, <2>2
  <2>6. {out, in, down, up}' \subseteq [Links -> Units]
    BY <1>1, <1>2, <1>8 DEF TypeOK, tcp, Units, Unit
  <2>7. \A c \in Links : Len(down'[c]) <= Window
    BY <1>1, <1>2 DEF TypeOK, tcp
  <2>8. pc' \in {"events", "send", "recv"} /\ (pc' = "recv" => turn' # <<>>)
    BY <1>2
  <2>9. UNCHANGED <<pause, lpause, zone, lzone, stale, reset, link, open, stream, view, orders, torn>>
    BY <1>2 DEF session, tcp, debugger
  <2>10. batch' \in 0 .. Len(events')
    BY <1>2, <1>6
  <2> QED
    BY <1>1, <1>6, <2>1, <2>2, <2>3, <2>4, <2>5, <2>6, <2>7, <2>8, <2>9, <2>10 DEF TypeOK
<1>10. LinksInv'
  <2>1. UNCHANGED <<in, up, down, reset, link, open>>
    BY <1>2 DEF tcp, debugger
  <2>2. Used' = Used /\ \A c \in Links : Live(c)' <=> Live(c)
    BY <2>1 DEF Used, Live
  <2>3. Range(clients') \union Range(backlog') \subseteq Used
    BY <1>1, <1>4 DEF LinksInv
  <2>4. \A i \in DOMAIN events' : events'[i][1] = "connect" => events'[i][2] \in Used
    BY <1>1, <1>3, <1>6 DEF LinksInv
  <2>5. \A c \in Links \ Used : out'[c] = <<>>
    BY <1>1, <1>7, <1>8 DEF LinksInv
  <2> QED
    BY <1>1, <2>1, <2>2, <2>3, <2>4, <2>5 DEF LinksInv, TypeOK
<1>11. FrameInv'
  <2>1. UNCHANGED <<link, open, stream, torn>> /\ \A c \in Links : Asked(c)' = Asked(c)
    BY <1>2 DEF debugger, Asked, tcp
  <2>2. \A c \in Links : Sound(c) => Path(c)' = Path(c) \/ (Framed(Path(c))' /\ Even(Len(Path(c)))')
    BY <1>1, <1>7, <1>8, Paths, FrameAppend DEF FrameInv
  <2> QED
    BY <1>1, <2>1, <2>2, KeepFrame
<1>12. SayInv'
  <2>1. UNCHANGED <<link, open, torn, view, pause, stale>> /\ pause \in States
    BY <1>1, <1>2 DEF debugger, session, TypeOK
  <2>2. ASSUME NEW c \in Links, Sound(c), Greeted(c)'
        PROVE  \/ Greeted(c) /\ Path(c)' = Path(c) /\ Word(c)' = Word(c)
               \/ LastState(Word(c)', Whole(Path(c)'), view[c[1]])
    <3>1. c \in Range(clients') /\ \A i \in DOMAIN events' : events'[i] # <<"connect", c>>
      BY <2>2 DEF Greeted, Connected
    <3>2. c \in Range(clients)
      BY <1>2, <1>3, <1>6, <3>1
    <3>3. Greeted(c)
      BY <1>6, <3>1, <3>2 DEF Greeted, Connected
    <3>4. Word(c)' = Word(c) /\ Word(c) \in States
      BY <2>1, WordIs DEF Word
    <3>5. LastState(Word(c), Whole(Path(c)), view[c[1]])
      BY <1>1, <2>2, <3>3 DEF SayInv
    <3>6. CASE c \in Pinged
      <4>1. Whole(Path(c)') = Append(Whole(Path(c)), "ping") /\ Whole(Path(c)) \in Seq(Messages)
        BY <1>1, <1>7, <1>8, <2>2, <3>6, Paths, FrameAppend, WholeOf DEF FrameInv
      <4>2. "ping" \in Messages \ States
        BY DEF Messages, States
      <4>3. LastState(Word(c), Append(Whole(Path(c)), "ping"), view[c[1]])
        BY <3>4, <3>5, <4>1, <4>2, SaysStill
      <4> QED
        BY <3>4, <4>1, <4>3
    <3>7. CASE c \notin Pinged
      BY <1>8, <2>2, <3>3, <3>4, <3>7
    <3> QED
      BY <3>6, <3>7
  <2> QED
    BY <1>1, <2>1, <2>2, KeepSay
<1> QED
  BY <1>9, <1>10, <1>11, <1>12 DEF IInv

LEMMA EndKeeps ==
  ASSUME IInv, EndUpdate
  PROVE  IInv'
<1>1. TypeOK /\ LinksInv /\ FrameInv /\ SayInv
  BY DEF IInv
<1>2. /\ pc' = "events" /\ lpause' = pause /\ lzone' = zone /\ batch' = Len(events)
      /\ readable' = {} /\ writable' = {}
      /\ UNCHANGED <<clients, backlog, in, turn, pause, zone, stale, out, events, time,
                     down, up, reset, link, open, stream, view, orders, torn>>
  BY DEF EndUpdate, tcp, debugger
<1>3. TypeOK'
  <2>1. batch' \in 0 .. Len(events)
    BY <1>1, <1>2 DEF TypeOK
  <2> QED
    BY <1>1, <1>2, <2>1 DEF TypeOK
<1>4. /\ Used' = Used
      /\ \A c \in Links : /\ Live(c)' = Live(c) /\ Path(c)' = Path(c) /\ Asked(c)' = Asked(c)
                          /\ Greeted(c)' = Greeted(c) /\ Word(c)' = Word(c)
  BY <1>2 DEF Used, Live, Path, Asked, Greeted, Connected, Word
<1>5. LinksInv'
  BY <1>1, <1>2, <1>4 DEF LinksInv, TypeOK
<1>6. FrameInv'
  BY <1>1, <1>2, <1>4, KeepFrame
<1>7. SayInv'
  BY <1>1, <1>2, <1>4, KeepSay
<1> QED
  BY <1>3, <1>5, <1>6, <1>7 DEF IInv

\* closeClient takes away the client the loop is at, and no other.
LEMMA CloseIs ==
  ASSUME TypeOK, turn # <<>>, Close(Head(turn))
  PROVE  /\ Head(turn) \in Links
         /\ clients' \in Seq(Links) /\ turn' \in Seq(Links)
         /\ Len(turn') <= Len(clients')
         /\ turn' = SubSeq(clients', Len(clients') - Len(turn') + 1, Len(clients'))
         /\ Range(clients') \subseteq Range(clients)
         /\ Range(clients) \ Range(clients') \subseteq {Head(turn)}
<1> DEFINE n == Len(clients)
           l == Len(turn)
           p == n - l + 1
           a == SubSeq(clients, 1, p - 1)
           b == SubSeq(clients, p + 1, n)
<1>1. /\ clients \in Seq(Links) /\ turn \in Seq(Links) /\ l <= n
      /\ turn = SubSeq(clients, p, n)
  BY Typed DEF TypeOK
<1>2. /\ n \in Nat /\ l \in Nat \ {0} /\ p \in 1 .. n
      /\ DOMAIN clients = 1 .. n /\ DOMAIN turn = 1 .. l
  BY <1>1
<1>3. /\ Head(turn) = turn[1] /\ turn' = Tail(turn) /\ turn' \in Seq(Links) /\ Len(turn') = l - 1
      /\ \A i \in 1 .. l - 1 : turn'[i] = turn[i + 1]
  BY <1>1 DEF Close
<1>4. \A i \in 1 .. l : turn[i] = clients[p + i - 1]
  <2>1. p \in Nat \ {0} /\ n \in 0 .. Len(clients) /\ n - p + 1 = l
    <3>1. n \in Nat /\ l \in Nat \ {0} /\ n = Len(clients) /\ p \in 1 .. n
      BY <1>2
    <3> HIDE DEF n, l
    <3> QED
      BY <3>1
  <2> HIDE DEF p, l
  <2>2. \A i \in 1 .. n - p + 1 : SubSeq(clients, p, n)[i] = clients[p + i - 1]
    BY <1>1, <2>1, Sub
  <2> QED
    BY <1>1, <2>1, <2>2
<1>5. Head(turn) = clients[p] /\ Head(turn) \in Links
  <2>1. 1 \in 1 .. l /\ p + 1 - 1 = p
    BY <1>2
  <2>2. turn[1] = clients[p]
    BY <1>4, <2>1
  <2> QED
    BY <1>1, <1>2, <1>3, <2>2, ElementOfSeq
<1>6. /\ a \in Seq(Links) /\ Len(a) = p - 1
      /\ \A i \in 1 .. p - 1 : a[i] = clients[i]
  <2>1. p - 1 \in 0 .. Len(clients) /\ 1 \in Nat \ {0} /\ p \in Int
    BY <1>2
  <2> HIDE DEF p
  <2>2. /\ a \in Seq(Links) /\ Len(a) = IF 1 <= p - 1 THEN p - 1 - 1 + 1 ELSE 0
        /\ \A i \in 1 .. p - 1 - 1 + 1 : a[i] = clients[1 + i - 1]
    BY <1>1, <2>1, Sub
  <2>3. /\ p - 1 - 1 + 1 = p - 1 /\ (~(1 <= p - 1) => p - 1 = 0)
        /\ \A i \in 1 .. p - 1 : 1 + i - 1 = i
    BY <2>1
  <2> HIDE DEF a
  <2> QED
    BY <2>2, <2>3
<1>7. /\ b \in Seq(Links) /\ Len(b) = n - p
      /\ \A i \in 1 .. n - p : b[i] = clients[p + i]
  <2>1. p + 1 \in Nat \ {0} /\ n \in 0 .. Len(clients) /\ p \in Int /\ p <= n /\ n \in Nat
    <3>1. n \in Nat /\ n = Len(clients) /\ p \in 1 .. n
      BY <1>2
    <3> HIDE DEF n, p
    <3> QED
      BY <3>1
  <2> HIDE DEF p
  <2>2. /\ b \in Seq(Links) /\ Len(b) = IF p + 1 <= n THEN n - (p + 1) + 1 ELSE 0
        /\ \A i \in 1 .. n - (p + 1) + 1 : b[i] = clients[p + 1 + i - 1]
    BY <1>1, <2>1, Sub
  <2> HIDE DEF n
  <2>3. /\ n - (p + 1) + 1 = n - p /\ (~(p + 1 <= n) => n - p = 0)
        /\ \A i \in 1 .. n - p : p + 1 + i - 1 = p + i
    BY <2>1
  <2> HIDE DEF b
  <2> QED
    BY <2>2, <2>3
<1>8. clients' = a \o b
  BY DEF Close, RemoveAt
<1> HIDE DEF a, b
<1>9. /\ clients' \in Seq(Links) /\ Len(clients') = n - 1
      /\ \A i \in 1 .. p - 1 : clients'[i] = clients[i]
      /\ \A i \in 1 .. n - p : clients'[p - 1 + i] = clients[p + i]
  <2>1. /\ a \o b \in Seq(Links) /\ Len(a \o b) = (p - 1) + (n - p)
        /\ \A i \in 1 .. p - 1 : (a \o b)[i] = a[i]
        /\ \A i \in 1 .. n - p : (a \o b)[p - 1 + i] = b[i]
    <3> HIDE DEF p, n
    <3>1. a \in Seq(Links) /\ b \in Seq(Links)
      BY <1>6, <1>7
    <3>2. /\ a \o b \in Seq(Links) /\ Len(a \o b) = Len(a) + Len(b)
          /\ \A i \in 1 .. Len(a) : (a \o b)[i] = a[i]
          /\ \A i \in 1 .. Len(b) : (a \o b)[Len(a) + i] = b[i]
      BY <3>1, Concat
    <3> QED
      BY <1>6, <1>7, <3>2
  <2>2. (p - 1) + (n - p) = n - 1
    BY <1>2
  <2> HIDE DEF p, n
  <2> QED
    BY <1>6, <1>7, <1>8, <2>1, <2>2
<1> HIDE DEF n, l
<1>10. Len(turn') <= Len(clients') /\ Len(clients') - Len(turn') + 1 = p
  BY <1>1, <1>2, <1>3, <1>9
<1>11. turn' = SubSeq(clients', p, Len(clients'))
  <2> DEFINE s == SubSeq(clients', p, Len(clients'))
  <2>1. /\ s \in Seq(Links) /\ Len(s) = IF p <= Len(clients') THEN Len(clients') - p + 1 ELSE 0
        /\ \A i \in 1 .. Len(clients') - p + 1 : s[i] = clients'[p + i - 1]
    <3>1. p \in Nat \ {0} /\ Len(clients') \in 0 .. Len(clients')
      BY <1>2, <1>9
    <3> HIDE DEF p
    <3> QED
      BY <1>9, <3>1, Sub
  <2> HIDE DEF s
  <2>2. Len(s) = l - 1 /\ Len(clients') - p + 1 = l - 1
    BY <1>1, <1>2, <1>9, <2>1
  <2>3. ASSUME NEW i \in 1 .. l - 1 PROVE turn'[i] = s[i]
    <3>1. /\ i + 1 \in 1 .. l /\ i \in 1 .. n - p
          /\ p + (i + 1) - 1 = p + i /\ p + i - 1 = p - 1 + i
      BY <1>1, <1>2
    <3>2. turn'[i] = clients[p + i]
      BY <1>3, <1>4, <3>1
    <3>3. s[i] = clients'[p - 1 + i]
      BY <2>1, <2>2, <3>1
    <3> QED
      BY <1>9, <3>1, <3>2, <3>3
  <2>4. turn' = s
    BY <1>3, <2>1, <2>2, <2>3, SeqEqual
  <2> QED
    BY <2>4 DEF s
<1>12. \A i \in 1 .. n : i = p \/ i \in 1 .. p - 1 \/ (i - p \in 1 .. n - p /\ p + (i - p) = i)
  BY <1>2
<1>13. Range(clients') \subseteq Range(clients)
  <2>1. ASSUME NEW i \in 1 .. n - 1 PROVE \E j \in 1 .. n : clients'[i] = clients[j]
    <3>1. CASE i \in 1 .. p - 1
      BY <1>2, <1>9, <3>1
    <3>2. CASE i \notin 1 .. p - 1
      <4>1. i - (p - 1) \in 1 .. n - p /\ p - 1 + (i - (p - 1)) = i /\ p + (i - (p - 1)) \in 1 .. n
        BY <1>2, <3>2
      <4> QED
        BY <1>9, <4>1
    <3> QED
      BY <3>1, <3>2
  <2> QED
    BY <1>2, <1>9, <2>1 DEF Range
<1>14. ASSUME NEW i \in 1 .. n, i # p PROVE \E j \in 1 .. n - 1 : clients'[j] = clients[i]
  <2>1. CASE i \in 1 .. p - 1
    <3>1. i \in 1 .. n - 1
      BY <1>2, <2>1
    <3> QED
      BY <1>9, <2>1, <3>1
  <2>2. CASE i - p \in 1 .. n - p /\ p + (i - p) = i
    <3>1. p - 1 + (i - p) \in 1 .. n - 1
      BY <1>2, <2>2
    <3> QED
      BY <1>9, <2>2, <3>1
  <2> QED
    BY <1>12, <1>14, <2>1, <2>2
<1>15. Range(clients) \ Range(clients') \subseteq {Head(turn)}
  <2>1. DOMAIN clients' = 1 .. n - 1
    BY <1>9
  <2> QED
    BY <1>2, <1>5, <1>14, <2>1 DEF Range
<1> QED
  BY <1>3, <1>5, <1>9, <1>10, <1>11, <1>13, <1>15

\* A client that is gone is closed.
LEMMA CloseKeeps ==
  ASSUME IInv, turn # <<>>, ~Live(Head(turn)), Close(Head(turn)),
         UNCHANGED <<backlog, readable, writable, queue, time, session, debugger>>
  PROVE  IInv'
<1> DEFINE c == Head(turn)
<1>1. TypeOK /\ LinksInv /\ FrameInv /\ SayInv
  BY DEF IInv
<1>2. /\ c \in Links
      /\ clients' \in Seq(Links) /\ turn' \in Seq(Links)
      /\ Len(turn') <= Len(clients')
      /\ turn' = SubSeq(clients', Len(clients') - Len(turn') + 1, Len(clients'))
      /\ Range(clients') \subseteq Range(clients)
  BY <1>1, CloseIs
<1>3. /\ pc' = "send" /\ reset' = reset \ {c}
      /\ out' = [out EXCEPT ![c] = <<>>] /\ in' = [in EXCEPT ![c] = <<>>]
      /\ down' = [down EXCEPT ![c] = <<>>] /\ up' = [up EXCEPT ![c] = <<>>]
  BY DEF Close
<1>4. /\ UNCHANGED <<backlog, readable, writable, events, batch, time, pause, lpause, zone, lzone, stale>>
      /\ UNCHANGED <<link, open, stream, view, orders, torn>>
  BY DEF queue, session, debugger
<1>5. ~Live(c)
  OBVIOUS
<1> HIDE DEF c
<1>6. /\ out \in [Links -> Seq(Unit)] /\ in \in [Links -> Seq(Unit)]
      /\ down \in [Links -> Seq(Unit)] /\ up \in [Links -> Seq(Unit)] /\ <<>> \in Seq(Unit)
  BY <1>1, Typed, EmptySeq
<1>7. /\ out' \in [Links -> Seq(Unit)] /\ in' \in [Links -> Seq(Unit)]
      /\ down' \in [Links -> Seq(Unit)] /\ up' \in [Links -> Seq(Unit)]
      /\ out'[c] = <<>> /\ in'[c] = <<>> /\ down'[c] = <<>> /\ up'[c] = <<>>
      /\ \A d \in Links \ {c} :
           out'[d] = out[d] /\ in'[d] = in[d] /\ down'[d] = down[d] /\ up'[d] = up[d]
  BY <1>2, <1>3, <1>6
<1>8. TypeOK'
  <2>1. {clients, backlog, turn}' \subseteq Seq(Links)
    BY <1>1, <1>2, <1>4 DEF TypeOK
  <2>2. {out, in, down, up}' \subseteq [Links -> Units]
    BY <1>7 DEF Units, Unit
  <2>3. \A d \in Links : Len(down'[d]) <= Window
    <3>1. Len(<<>>) = 0 /\ 0 <= Window
      BY RemoteAssumption
    <3> QED
      BY <1>1, <1>7, <3>1 DEF TypeOK
  <2>4. reset' \subseteq Links
    BY <1>1, <1>3 DEF TypeOK
  <2> QED
    BY <1>1, <1>2, <1>3, <1>4, <2>1, <2>2, <2>3, <2>4 DEF TypeOK
<1>9. LinksInv'
  <2>1. Used' = Used /\ \A d \in Links : Live(d)' <=> Live(d)
    BY <1>4 DEF Used, Live
  <2>2. Range(clients') \union Range(backlog') \subseteq Used
    BY <1>1, <1>2, <1>4 DEF LinksInv
  <2>3. \A d \in Links \ Used : in'[d] = <<>> /\ up'[d] = <<>> /\ down'[d] = <<>> /\ out'[d] = <<>>
    BY <1>1, <1>7 DEF LinksInv
  <2>4. reset' \subseteq Used /\ \A d \in reset' : ~Live(d)' /\ d \in Links
    BY <1>1, <1>3, <2>1 DEF LinksInv, TypeOK
  <2> QED
    BY <1>1, <1>4, <2>1, <2>2, <2>3, <2>4 DEF LinksInv
<1>10. FrameInv'
  <2>1. ASSUME NEW d \in Links
        PROVE  Asked(d)' = Asked(d) \/ (Framed(Asked(d))' /\ (Live(d) => Even(Len(Asked(d)))'))
    <3>1. CASE d = c
      <4>1. Asked(d)' = <<>>
        BY <1>7, <3>1 DEF Asked
      <4> QED
        BY <1>5, <3>1, <4>1, EmptyIsFramed
    <3>2. CASE d # c
      BY <1>7, <3>2 DEF Asked
    <3> QED
      BY <3>1, <3>2
  <2>2. ASSUME NEW d \in Links, Sound(d) PROVE Path(d)' = Path(d)
    <3>1. d # c
      BY <1>5, <2>2 DEF Sound
    <3> QED
      BY <1>4, <1>7, <3>1 DEF Path
  <2> QED
    BY <1>1, <1>4, <2>1, <2>2, KeepFrame
<1>11. SayInv'
  <2>1. ASSUME NEW d \in Links, Sound(d), Greeted(d)'
        PROVE  Greeted(d) /\ Path(d)' = Path(d)
    <3>1. d # c
      BY <1>5, <2>1 DEF Sound
    <3>2. Path(d)' = Path(d)
      BY <1>4, <1>7, <3>1 DEF Path
    <3>3. d \in Range(clients') /\ \A i \in DOMAIN events : events[i] # <<"connect", d>>
      BY <1>4, <2>1 DEF Greeted, Connected
    <3> QED
      BY <1>2, <3>2, <3>3 DEF Greeted, Connected
  <2> QED
    BY <1>1, <1>4, <2>1, KeepSay, WordStays
<1> QED
  BY <1>8, <1>9, <1>10, <1>11 DEF IInv

LEMMA TurnsAreConnected ==
  ASSUME TypeOK
  PROVE  Range(turn) \subseteq Range(clients)
<1>1. /\ clients \in Seq(Links) /\ turn \in Seq(Links) /\ Len(turn) <= Len(clients)
      /\ turn = SubSeq(clients, Len(clients) - Len(turn) + 1, Len(clients))
  BY Typed DEF TypeOK
<1> DEFINE p == Len(clients) - Len(turn) + 1
<1>2. /\ Len(clients) \in Nat /\ Len(turn) \in Nat /\ p \in Nat \ {0} /\ Len(clients) \in 0 .. Len(clients)
      /\ Len(clients) - p + 1 = Len(turn)
      /\ \A i \in 1 .. Len(turn) : p + i - 1 \in 1 .. Len(clients)
  BY <1>1
<1>3. turn = SubSeq(clients, p, Len(clients))
  BY <1>1
<1> HIDE DEF p
<1>4. \A i \in 1 .. Len(turn) : turn[i] = clients[p + i - 1]
  <2>1. \A i \in 1 .. Len(clients) - p + 1 : SubSeq(clients, p, Len(clients))[i] = clients[p + i - 1]
    BY <1>1, <1>2, Sub
  <2> QED
    BY <1>2, <1>3, <2>1
<1>5. Range(turn) = {turn[i] : i \in 1 .. Len(turn)} /\ Range(clients) = {clients[i] : i \in 1 .. Len(clients)}
  BY <1>1, RangeOf
<1> QED
  BY <1>2, <1>4, <1>5

LEMMA MinOf ==
  ASSUME NEW a \in Int, NEW b \in Int
  PROVE  Min({a, b}) \in {a, b} /\ Min({a, b}) <= a /\ Min({a, b}) <= b
<1>1. \E x \in {a, b} : \A y \in {a, b} : x <= y
  OBVIOUS
<1> QED
  BY <1>1 DEF Min

\* What the server sends is moved on its path.
SendsOn(c) ==
  /\ UNCHANGED <<pc, clients, turn, in, up, reset>>
  /\ down' \in [Links -> Seq(Unit)] /\ out' \in [Links -> Seq(Unit)]
  /\ out[c] # <<>> /\ Len(down'[c]) <= Window
  /\ \A e \in Links \ {c} : down'[e] = down[e] /\ out'[e] = out[e]
  /\ \A e \in Links : Path(e)' = Path(e)

LEMMA SendIsOn ==
  ASSUME TypeOK, SendMessage, NEW c \in Links, c = Head(turn)
  PROVE  \/ pc' = "recv" /\ UNCHANGED <<out, clients, turn, in, tcp>>
         \/ c \in reset /\ Close(c)
         \/ SendsOn(c)
<1> DEFINE sent == Min({Len(out[c]), Window - Len(down[c])})
<1>1. \/ pc' = "recv" /\ UNCHANGED <<out, clients, turn, in, tcp>>
      \/ c \in reset /\ Close(c)
      \/ /\ sent > 0
         /\ down' = [down EXCEPT ![c] = @ \o SubSeq(out[c], 1, sent)]
         /\ out' = [out EXCEPT ![c] = SubSeq(@, sent + 1, Len(@))]
         /\ UNCHANGED <<pc, clients, turn, in, up, reset>>
  BY DEF SendMessage
<1>2. UNCHANGED stream
  BY DEF SendMessage, debugger
<1> HIDE DEF sent
<1>3. ASSUME sent > 0,
             down' = [down EXCEPT ![c] = @ \o SubSeq(out[c], 1, sent)],
             out' = [out EXCEPT ![c] = SubSeq(@, sent + 1, Len(@))],
             UNCHANGED <<pc, clients, turn, in, up, reset>>
      PROVE  SendsOn(c)
  <2> DEFINE o == out[c]
             d == down[c]
             s == stream[c[1]]
             x == Upto(o, sent)
             y == After(o, sent)
  <2>1. /\ out \in [Links -> Seq(Unit)] /\ down \in [Links -> Seq(Unit)]
        /\ o \in Seq(Unit) /\ d \in Seq(Unit) /\ s \in Seq(Unit) /\ s \o d \in Seq(Unit)
    BY Typed, Paths
  <2>2. sent \in 0 .. Len(o) /\ Len(d) + sent <= Window
    <3>1. Len(o) \in Nat /\ Len(d) \in Nat /\ Window \in Nat
      BY <2>1, RemoteAssumption
    <3>2. sent \in {Len(o), Window - Len(d)} /\ sent <= Len(o) /\ sent <= Window - Len(d)
      <4> DEFINE a == Len(o)
                 b == Window - Len(d)
      <4>1. a \in Int /\ b \in Int /\ sent = Min({a, b})
        BY <3>1 DEF sent
      <4> HIDE DEF a, b
      <4>2. sent \in {a, b} /\ sent <= a /\ sent <= b
        BY <4>1, MinOf
      <4> QED
        BY <4>2 DEF a, b
    <3> QED
      BY <1>3, <3>1, <3>2
  <2>3. /\ x \in Seq(Unit) /\ y \in Seq(Unit)
        /\ Join(d, x) \in Seq(Unit) /\ Len(Join(d, x)) = Len(d) + sent
        /\ Join(Join(s, Join(d, x)), y) = Join(Join(s, d), o)
    <3> HIDE DEF o, d, s
    <3> QED
      BY <2>1, <2>2, MovePath
  <2> HIDE DEF o, d, s, x, y
  <2>4. /\ down' \in [Links -> Seq(Unit)] /\ out' \in [Links -> Seq(Unit)]
        /\ down'[c] = Join(d, x) /\ out'[c] = y
        /\ \A e \in Links \ {c} : down'[e] = down[e] /\ out'[e] = out[e]
    BY <1>3, <2>1, <2>3 DEF o, d, x, y, Upto, After, Join
  <2>5. \A e \in Links : Path(e)' = Path(e)
    <3>1. Path(c)' = Path(c)
      <4>1. stream'[c[1]] = s /\ stream[c[1]] = s /\ down[c] = d /\ out[c] = o
        BY <1>2 DEF s, d, o
      <4>2. Path(c)' = Join(Join(s, Join(d, x)), y) /\ Path(c) = Join(Join(s, d), o)
        BY <2>4, <4>1 DEF Path, Join
      <4> QED
        BY <2>3, <4>2
    <3>2. ASSUME NEW e \in Links \ {c} PROVE Path(e)' = Path(e)
      <4>1. stream' = stream /\ down'[e] = down[e] /\ out'[e] = out[e]
        BY <1>2, <2>4
      <4> QED
        BY <4>1 DEF Path
    <3> QED
      BY <3>1, <3>2
  <2>6. o # <<>> /\ Len(down'[c]) <= Window
    <3>1. Len(o) # 0 /\ Len(o) \in Nat
      BY <1>3, <2>1, <2>2
    <3>2. Len(down'[c]) <= Window
      BY <2>2, <2>3, <2>4
    <3> QED
      BY <3>1, <3>2
  <2> QED
    BY <1>3, <2>4, <2>5, <2>6 DEF SendsOn, o
<1> QED
  BY <1>1, <1>3

LEMMA SendKeeps ==
  ASSUME IInv, SendMessage
  PROVE  /\ IInv'
         /\ \A d \in Connected \ Connected' : ~Live(d)
<1>1. TypeOK /\ LinksInv /\ FrameInv /\ SayInv
  BY DEF IInv
<1>2. /\ turn # <<>> /\ Head(turn) \in Links
      /\ UNCHANGED <<backlog, readable, writable, queue, time, session, debugger>>
  BY <1>1, Typed, HeadTailProperties DEF SendMessage
<1>3. UNCHANGED <<events, batch, pause, lpause, zone, lzone, stale, link, open, stream, view, orders, torn>>
  BY <1>2 DEF queue, session, debugger
<1>4. PICK c \in Links : c = Head(turn)
  BY <1>2
<1>5. CASE pc' = "recv" /\ UNCHANGED <<out, clients, turn, in, tcp>>
  <2>1. UNCHANGED <<down, up, reset>>
    BY <1>5 DEF tcp
  <2>2. TypeOK'
    BY <1>1, <1>2, <1>3, <1>5, <2>1 DEF TypeOK
  <2>3. /\ Used' = Used /\ Connected' = Connected
        /\ \A d \in Links : /\ Live(d)' = Live(d) /\ Path(d)' = Path(d) /\ Asked(d)' = Asked(d)
                            /\ Greeted(d)' = Greeted(d)
    BY <1>2, <1>3, <1>5, <2>1 DEF Used, Live, Path, Asked, Greeted, Connected
  <2>4. LinksInv'
    BY <1>1, <1>2, <1>3, <1>5, <2>1, <2>3 DEF LinksInv, TypeOK
  <2>5. FrameInv'
    BY <1>1, <1>3, <2>3, KeepFrame
  <2>6. SayInv'
    BY <1>1, <1>3, <2>3, KeepSay, WordStays
  <2> QED
    BY <2>2, <2>3, <2>4, <2>5, <2>6 DEF IInv
<1>6. CASE c \in reset /\ Close(c)
  <2>1. ~Live(c)
    BY <1>1, <1>6 DEF LinksInv
  <2>2. IInv'
    BY <1>4, <1>2, <1>6, <2>1, CloseKeeps
  <2>3. Range(clients) \ Range(clients') \subseteq {c}
    BY <1>4, <1>1, <1>2, <1>6, CloseIs
  <2> QED
    BY <2>1, <2>2, <2>3 DEF Connected
<1>7. CASE SendsOn(c)
  <2>1. /\ UNCHANGED <<pc, clients, turn, in, up, reset>>
        /\ down' \in [Links -> Seq(Unit)] /\ out' \in [Links -> Seq(Unit)]
        /\ out[c] # <<>> /\ Len(down'[c]) <= Window
        /\ \A e \in Links \ {c} : down'[e] = down[e] /\ out'[e] = out[e]
        /\ \A e \in Links : Path(e)' = Path(e)
    BY <1>7 DEF SendsOn
  <2>2. TypeOK'
    <3>1. ASSUME NEW e \in Links PROVE Len(down'[e]) <= Window
      BY <1>1, <2>1 DEF TypeOK
    <3>2. in' \in [Links -> Seq(Unit)] /\ up' \in [Links -> Seq(Unit)]
      BY <1>1, <2>1, Typed
    <3>3. {out, in, down, up}' \subseteq [Links -> Units]
      BY <2>1, <3>2 DEF Units, Unit
    <3> QED
      BY <1>1, <1>2, <1>3, <2>1, <3>1, <3>3 DEF TypeOK
  <2>3. /\ Used' = Used /\ Connected' = Connected
        /\ \A e \in Links : Live(e)' = Live(e) /\ Asked(e)' = Asked(e) /\ Greeted(e)' = Greeted(e)
    BY <1>2, <1>3, <2>1 DEF Used, Live, Asked, Greeted, Connected
  <2>4. LinksInv'
    <3>1. c \in Used
      BY <1>1, <2>1 DEF LinksInv
    <3>2. \A e \in Links \ Used : in'[e] = <<>> /\ up'[e] = <<>> /\ down'[e] = <<>> /\ out'[e] = <<>>
      BY <1>1, <2>1, <3>1 DEF LinksInv
    <3>3. \A e \in open' : link'[e] # 0
      BY <1>1, <1>3 DEF LinksInv
    <3>4. \A i \in DOMAIN events' : events'[i][1] = "connect" => events'[i][2] \in Used
      BY <1>1, <1>3 DEF LinksInv
    <3>5. UNCHANGED <<clients, backlog, reset>> /\ reset \subseteq Links
      BY <1>1, <1>2, <2>1 DEF TypeOK
    <3> QED
      BY <1>1, <2>3, <3>2, <3>3, <3>4, <3>5 DEF LinksInv
  <2>5. FrameInv'
    BY <1>1, <1>3, <2>1, <2>3, KeepFrame
  <2>6. SayInv'
    BY <1>1, <1>3, <2>1, <2>3, KeepSay, WordStays
  <2> QED
    BY <2>2, <2>3, <2>4, <2>5, <2>6 DEF IInv
<1> QED
  BY <1>1, <1>4, <1>5, <1>6, <1>7, SendIsOn

\* What is handled of the units s that have been received: a message, or nothing.
LEMMA Handled ==
  ASSUME NEW s \in Seq(Unit), NEW u \in Seq(Unit), Framed(Join(s, u)), Available(s)
  PROVE  \E m \in Messages :
           /\ Created(s) = {m}
           /\ Rest(s) \in Seq(Unit)
           /\ Framed(Join(Rest(s), u))
           /\ Even(Len(Join(s, u))) => Even(Len(Join(Rest(s), u)))
           /\ Whole(Join(s, u)) # <<>>
           /\ Whole(Join(Rest(s), u)) = Tail(Whole(Join(s, u)))
<1> DEFINE p == Join(s, u)
           m == s[2][1]
           q == SubSeq(p, 3, Len(p))
<1>1. Len(s) \in Nat /\ Len(s) >= 2 /\ p \in Seq(Unit)
  BY Joins DEF Available
<1>2. Len(s) \div 2 \in Nat /\ 1 \in 1 .. Len(s) \div 2
  <2>1. \A n \in Nat : n >= 2 => n \div 2 \in Nat /\ 1 \in 1 .. n \div 2
    <3> SUFFICES ASSUME NEW n \in Nat, n >= 2
                 PROVE  n \div 2 \in Nat /\ 1 \in 1 .. n \div 2
      OBVIOUS
    <3> QED
      BY Half
  <2> QED
    BY <1>1, <2>1
<1>3. Framed(s) /\ Len(s) \div 2 \in 0 .. Len(p) \div 2
  BY FrameFront DEF Join
<1>4. m \in Messages /\ s[1] = <<m, 1>> /\ s[2] = <<m, 2>>
  <2>1. 2 * 1 = 2 /\ 2 * 1 - 1 = 1
    OBVIOUS
  <2>2. s[2 * 1][1] \in Messages
    BY <1>2, WholeOf
  <2>3. s[2 * 1 - 1] = <<s[2 * 1][1], 1>> /\ s[2 * 1] = <<s[2 * 1][1], 2>>
    BY <1>2, <1>3 DEF Framed
  <2> QED
    BY <2>1, <2>2, <2>3
<1>5. Created(s) = {m}
  <2> HIDE DEF m
  <2> QED
    BY <1>1, <1>4, Understood
<1>6. Rest(s) \in Seq(Unit)
  <2>1. 3 \in Nat \ {0} /\ Len(s) \in 0 .. Len(s)
    BY <1>1
  <2> QED
    BY <2>1, Sub DEF Rest
<1>7. Join(Rest(s), u) = q
  <2>1. 2 \in 0 .. Len(s)
    BY <1>1
  <2>2. SubSeq(s, 2 + 1, Len(s)) \o u = SubSeq(s \o u, 2 + 1, Len(s \o u))
    BY <2>1, Drop
  <2>3. 2 + 1 = 3
    OBVIOUS
  <2> QED
    BY <2>2, <2>3 DEF Join, Rest
<1>8. /\ Framed(q) /\ (Even(Len(p)) => Even(Len(q)))
      /\ Whole(q) = SubSeq(Whole(p), 2, Len(Whole(p)))
  <2> HIDE DEF p
  <2>1. 1 \in 0 .. Len(p) \div 2
    <3>1. Len(p) \div 2 \in Nat
      BY <1>1, Half, LenProperties
    <3> HIDE DEF p
    <3> QED
      BY <1>2, <1>3, <3>1
  <2>2. 2 * 1 + 1 = 3 /\ 1 + 1 = 2
    OBVIOUS
  <2>3. Framed(p)
    BY DEF p
  <2>4. LET t == SubSeq(p, 2 * 1 + 1, Len(p))
        IN  /\ Framed(t) /\ (Even(Len(p)) => Even(Len(t)))
            /\ Whole(t) = SubSeq(Whole(p), 1 + 1, Len(Whole(p)))
    BY <1>1, <2>1, <2>3, FrameDrop
  <2> QED
    BY <2>2, <2>4
<1>9. Whole(p) \in Seq(Messages) /\ Whole(p) # <<>>
  <2> HIDE DEF p
  <2>1. Whole(p) \in Seq(Messages) /\ Len(Whole(p)) = Len(p) \div 2 /\ Len(p) \div 2 \in Nat
    BY <1>1, WholeOf
  <2>2. Len(Whole(p)) >= 1
    BY <1>2, <1>3, <2>1
  <2> QED
    BY <2>1, <2>2, EmptySeq
<1>10. Whole(q) = Tail(Whole(p))
  <2> HIDE DEF p, q
  <2> QED
    BY <1>8, <1>9, TailIsSubSeq
<1> HIDE DEF p, q, m
<1> QED
  BY <1>4, <1>5, <1>6, <1>7, <1>8, <1>9, <1>10 DEF p

LEMMA ReceiveIs ==
  ASSUME TypeOK, Receive
  PROVE  /\ turn # <<>> /\ Head(turn) \in Links
         /\ UNCHANGED <<backlog, readable, writable, batch, time, session, debugger>>
         /\ \/ Head(turn) \in reset /\ Close(Head(turn)) /\ UNCHANGED events
            \/ \E n \in 0 .. Len(up[Head(turn)]) : Take(Head(turn), n)
<1>1. turn # <<>> /\ Head(turn) \in Links
  BY Typed, HeadTailProperties DEF Receive, TypeOK
<1> DEFINE c == Head(turn)
           sizes == IF c \in readable /\ up[c] # <<>> THEN 1 .. Len(up[c]) ELSE {0}
<1>2. sizes \subseteq 0 .. Len(up[c])
  <2>1. Len(up[c]) \in Nat
    BY <1>1, Typed
  <2> QED
    BY <2>1
<1>3. \/ c \in reset /\ Close(c) /\ UNCHANGED events
      \/ \E n \in sizes : Take(c, n)
  BY DEF Receive
<1> HIDE DEF sizes
<1> QED
  BY <1>1, <1>2, <1>3 DEF Receive

\* What the server has received: less than a message, or one that it handles.
LEMMA TakeIs ==
  ASSUME IInv, NEW c \in Links, NEW n \in 0 .. Len(up[c]), Take(c, n)
  PROVE  /\ UNCHANGED <<clients, out, down, reset>>
         /\ turn' = Tail(turn) /\ pc' = "send"
         /\ in' \in [Links -> Seq(Unit)] /\ up' \in [Links -> Seq(Unit)]
         /\ \A d \in Links \ {c} : Asked(d)' = Asked(d) /\ in'[d] = in[d] /\ up'[d] = up[d]
         /\ \/ Asked(c)' = Asked(c) /\ events' = events
            \/ /\ Framed(Asked(c))' /\ (Even(Len(Asked(c))) => Even(Len(Asked(c)))')
               /\ Whole(Asked(c)) # <<>> /\ Whole(Asked(c)') = Tail(Whole(Asked(c)))
               /\ events' = events \/ \E m \in States : events' = Append(events, <<"pause", m>>)
<1> DEFINE i == in[c]
           w == up[c]
           s == Join(i, Upto(w, n))
           u == After(w, n)
           Keep(rest) == /\ in' = [in EXCEPT ![c] = rest]
                         /\ up' = [up EXCEPT ![c] = u]
                         /\ turn' = Tail(turn) /\ pc' = "send"
                         /\ UNCHANGED <<clients, out, down, reset>>
<1>1. TypeOK /\ FrameInv
  BY DEF IInv
<1>2. /\ in \in [Links -> Seq(Unit)] /\ up \in [Links -> Seq(Unit)]
      /\ i \in Seq(Unit) /\ w \in Seq(Unit)
  BY <1>1, Typed
<1>3. IF Available(s)
      THEN \E m \in Created(s) :
             IF m = "unknown" THEN Close(c) /\ UNCHANGED events
             ELSE Keep(Rest(s)) /\ events' = IF m \in States THEN Append(events, <<"pause", m>>) ELSE events
      ELSE Keep(s) /\ UNCHANGED events
  BY DEF Take, Join, Upto, After
<1> HIDE DEF i, w
<1>4. s \in Seq(Unit) /\ u \in Seq(Unit) /\ Join(s, u) = Join(i, w)
  <2>1. n \in 0 .. Len(w)
    BY DEF w
  <2> QED
    BY <1>2, <2>1, MovePath
<1>5. Asked(c) = Join(i, w) /\ Asked(c) = Join(s, u)
  BY <1>4 DEF Asked, Join, i, w
<1> HIDE DEF s, u
<1>6. ASSUME NEW rest \in Seq(Unit), Keep(rest)
      PROVE  /\ UNCHANGED <<clients, out, down, reset>>
             /\ turn' = Tail(turn) /\ pc' = "send"
             /\ in' \in [Links -> Seq(Unit)] /\ up' \in [Links -> Seq(Unit)]
             /\ \A d \in Links \ {c} : Asked(d)' = Asked(d) /\ in'[d] = in[d] /\ up'[d] = up[d]
             /\ Asked(c)' = Join(rest, u)
  <2>1. in' \in [Links -> Seq(Unit)] /\ up' \in [Links -> Seq(Unit)]
    BY <1>2, <1>4, <1>6
  <2>2. in'[c] = rest /\ up'[c] = u
    BY <1>2, <1>6
  <2>3. \A d \in Links \ {c} : in'[d] = in[d] /\ up'[d] = up[d]
    BY <1>2, <1>6
  <2>4. Asked(c)' = Join(rest, u)
    BY <2>2 DEF Asked, Join
  <2>5. \A d \in Links \ {c} : Asked(d)' = Asked(d)
    BY <2>3 DEF Asked
  <2> QED
    BY <1>6, <2>1, <2>3, <2>4, <2>5
<1>7. CASE ~Available(s)
  <2>1. Keep(s) /\ UNCHANGED events
    BY <1>3, <1>7
  <2> HIDE DEF Keep
  <2> QED
    BY <1>4, <1>5, <1>6, <2>1
<1>8. CASE Available(s)
  <2>1. Framed(Join(s, u))
    BY <1>1, <1>5 DEF FrameInv
  <2>2. PICK m \in Messages :
           /\ Created(s) = {m}
           /\ Rest(s) \in Seq(Unit)
           /\ Framed(Join(Rest(s), u))
           /\ Even(Len(Join(s, u))) => Even(Len(Join(Rest(s), u)))
           /\ Whole(Join(s, u)) # <<>>
           /\ Whole(Join(Rest(s), u)) = Tail(Whole(Join(s, u)))
    BY <1>4, <1>8, <2>1, Handled
  <2>3. m # "unknown"
    BY DEF Messages, States
  <2>4. Keep(Rest(s)) /\ events' = IF m \in States THEN Append(events, <<"pause", m>>) ELSE events
    BY <1>3, <1>8, <2>2, <2>3
  <2> HIDE DEF Keep
  <2>5. /\ UNCHANGED <<clients, out, down, reset>>
        /\ turn' = Tail(turn) /\ pc' = "send"
        /\ in' \in [Links -> Seq(Unit)] /\ up' \in [Links -> Seq(Unit)]
        /\ \A d \in Links \ {c} : Asked(d)' = Asked(d) /\ in'[d] = in[d] /\ up'[d] = up[d]
        /\ Asked(c)' = Join(Rest(s), u)
    BY <1>6, <2>2, <2>4
  <2>6. events' = events \/ \E v \in States : events' = Append(events, <<"pause", v>>)
    BY <2>4
  <2> QED
    BY <1>5, <2>2, <2>5, <2>6
<1> QED
  BY <1>7, <1>8

LEMMA ReceiveKeeps ==
  ASSUME IInv, Receive
  PROVE  /\ IInv'
         /\ \A d \in Connected \ Connected' : ~Live(d)
<1>1. TypeOK /\ LinksInv /\ FrameInv /\ SayInv
  BY DEF IInv
<1>2. /\ turn # <<>> /\ Head(turn) \in Links
      /\ UNCHANGED <<backlog, readable, writable, batch, time, session, debugger>>
  BY <1>1, ReceiveIs
<1>3. PICK c \in Links : c = Head(turn)
  BY <1>2
<1>4. \/ c \in reset /\ Close(c) /\ UNCHANGED events
      \/ \E n \in 0 .. Len(up[c]) : Take(c, n)
  BY <1>1, <1>3, ReceiveIs
<1>5. UNCHANGED <<pause, lpause, zone, lzone, stale, link, open, stream, view, orders, torn>>
  BY <1>2 DEF session, debugger
<1>6. CASE c \in reset /\ Close(c) /\ UNCHANGED events
  <2>1. ~Live(c)
    BY <1>1, <1>6 DEF LinksInv
  <2>2. IInv'
    BY <1>2, <1>3, <1>6, <2>1, CloseKeeps DEF queue
  <2>3. Range(clients) \ Range(clients') \subseteq {c}
    BY <1>1, <1>2, <1>3, <1>6, CloseIs
  <2> QED
    BY <2>1, <2>2, <2>3 DEF Connected
<1>7. ASSUME NEW n \in 0 .. Len(up[c]), Take(c, n)
      PROVE  IInv' /\ Connected' = Connected
  <2>1. /\ UNCHANGED <<clients, out, down, reset>>
        /\ turn' = Tail(turn) /\ pc' = "send"
        /\ in' \in [Links -> Seq(Unit)] /\ up' \in [Links -> Seq(Unit)]
        /\ \A d \in Links \ {c} : Asked(d)' = Asked(d) /\ in'[d] = in[d] /\ up'[d] = up[d]
        /\ \/ Asked(c)' = Asked(c) /\ events' = events
           \/ /\ Framed(Asked(c))' /\ (Even(Len(Asked(c))) => Even(Len(Asked(c)))')
              /\ Whole(Asked(c)) # <<>> /\ Whole(Asked(c)') = Tail(Whole(Asked(c)))
              /\ events' = events \/ \E m \in States : events' = Append(events, <<"pause", m>>)
    BY <1>7, TakeIs
  <2>2. /\ events' \in Seq(Events) /\ batch' \in 0 .. Len(events')
        /\ \A i \in DOMAIN events' : events'[i][1] = "connect" => \E j \in DOMAIN events : events'[i] = events[j]
        /\ \A i \in DOMAIN events : \E j \in DOMAIN events' : events[i] = events'[j]
    <3>1. events \in Seq(Events) /\ batch' = batch /\ batch \in 0 .. Len(events)
      BY <1>1, <1>2 DEF TypeOK
    <3>2. CASE events' = events
      BY <3>1, <3>2
    <3>3. ASSUME NEW m \in States, events' = Append(events, <<"pause", m>>)
          PROVE  /\ events' \in Seq(Events) /\ batch' \in 0 .. Len(events')
                 /\ \A i \in DOMAIN events' : events'[i][1] = "connect" => \E j \in DOMAIN events : events'[i] = events[j]
                 /\ \A i \in DOMAIN events : \E j \in DOMAIN events' : events[i] = events'[j]
      <4> DEFINE e == <<"pause", m>>
      <4>1. e \in Events /\ e[1] # "connect" /\ events' = Append(events, e)
        BY <3>3 DEF Events
      <4> HIDE DEF e
      <4>2. /\ Append(events, e) \in Seq(Events) /\ Len(events) \in Nat /\ Len(Append(events, e)) = Len(events) + 1
            /\ \A i \in DOMAIN Append(events, e) :
                 Append(events, e)[i] = e \/ \E j \in DOMAIN events : Append(events, e)[i] = events[j]
            /\ \A i \in DOMAIN events : \E j \in DOMAIN Append(events, e) : events[i] = Append(events, e)[j]
        BY <3>1, <4>1, PostIs
      <4>3. batch' \in 0 .. Len(events')
        BY <3>1, <4>1, <4>2
      <4> QED
        BY <4>1, <4>2, <4>3
    <3> QED
      BY <2>1, <3>2, <3>3
  <2>3. TypeOK'
    <3>1. /\ turn' \in Seq(Links) /\ Len(turn') <= Len(clients')
          /\ turn' = SubSeq(clients', Len(clients') - Len(turn') + 1, Len(clients'))
      <4>1. /\ turn \in Seq(Links) /\ clients \in Seq(Links) /\ Len(turn) <= Len(clients)
            /\ turn = SubSeq(clients, Len(clients) - Len(turn) + 1, Len(clients))
        BY <1>1, Typed DEF TypeOK
      <4>2. turn' \in Seq(Links) /\ Len(turn') = Len(turn) - 1 /\ Len(turn) \in Nat \ {0} /\ Len(clients) \in Nat
        BY <1>2, <2>1, <4>1, HeadTailProperties, EmptySeq
      <4> DEFINE p == Len(clients) - Len(turn) + 1
      <4>3. p \in 1 .. Len(clients) /\ Len(clients) \in p .. Len(clients) /\ Len(clients) - Len(turn') + 1 = p + 1
        BY <4>1, <4>2
      <4> HIDE DEF p
      <4>4. Tail(SubSeq(clients, p, Len(clients))) = SubSeq(clients, p + 1, Len(clients))
        BY <4>1, <4>3, HeadTailOfSubSeq
      <4>5. turn = SubSeq(clients, p, Len(clients))
        BY <4>1 DEF p
      <4>6. turn' = SubSeq(clients', Len(clients') - Len(turn') + 1, Len(clients'))
        BY <2>1, <4>3, <4>4, <4>5
      <4>7. Len(turn') <= Len(clients')
        BY <2>1, <4>1, <4>2
      <4> QED
        BY <4>2, <4>6, <4>7
    <3>2. {clients, backlog, turn}' \subseteq Seq(Links)
      BY <1>1, <1>2, <2>1, <3>1 DEF TypeOK
    <3>3. {out, in, down, up}' \subseteq [Links -> Units]
      BY <1>1, <2>1 DEF TypeOK, Units, Unit
    <3> QED
      BY <1>1, <1>2, <1>5, <2>1, <2>2, <3>1, <3>2, <3>3 DEF TypeOK
  <2>4. /\ Used' = Used /\ Connected' = Connected
        /\ \A d \in Links : (Live(d)' <=> Live(d)) /\ Path(d)' = Path(d)
    BY <1>5, <2>1 DEF Used, Connected, Live, Path
  <2>5. LinksInv'
    <3>1. \A i \in DOMAIN events' : events'[i][1] = "connect" => events'[i][2] \in Used
      BY <1>1, <2>2 DEF LinksInv
    <3>2. \A d \in Links \ Used : in'[d] = <<>> /\ up'[d] = <<>> /\ down'[d] = <<>> /\ out'[d] = <<>>
      <4>1. c \in Used
        <5>1. turn \in Seq(Links) /\ clients \in Seq(Links) /\ c \in Range(turn)
          BY <1>1, <1>2, <1>3, Typed, RangeOf
        <5>2. Range(turn) \subseteq Range(clients)
          BY <1>1, TurnsAreConnected
        <5> QED
          BY <1>1, <5>1, <5>2 DEF LinksInv
      <4> QED
        BY <1>1, <2>1, <4>1 DEF LinksInv
    <3>3. \A d \in open' : link'[d] # 0
      BY <1>1, <1>5 DEF LinksInv
    <3> QED
      BY <1>1, <1>2, <2>1, <2>4, <3>1, <3>2, <3>3 DEF LinksInv, TypeOK
  <2>6. FrameInv'
    <3>1. \A d \in Links : \/ Asked(d)' = Asked(d)
                           \/ Framed(Asked(d))' /\ (Live(d) => Even(Len(Asked(d)))')
      BY <1>1, <2>1 DEF FrameInv
    <3> QED
      BY <1>1, <1>5, <2>4, <3>1, KeepFrame
  <2>7. SayInv'
    <3>1. ASSUME NEW d \in Links, Greeted(d)' PROVE Greeted(d)
      <4>1. d \in Connected /\ \A i \in DOMAIN events' : events'[i] # <<"connect", d>>
        BY <2>4, <3>1 DEF Greeted
      <4> QED
        BY <2>2, <4>1 DEF Greeted
    <3> QED
      BY <1>1, <1>5, <2>4, <3>1, KeepSay, WordStays
  <2> QED
    BY <2>3, <2>4, <2>5, <2>6, <2>7 DEF IInv
<1> QED
  BY <1>4, <1>6, <1>7

----------------------------------------------------------------------------
(* The debugger and TCP                                                    *)

LEMMA ConnectIs ==
  ASSUME IInv, NEW d \in Debuggers, Connect(d)
  PROVE  LET c == <<d, link[d] + 1>>
         IN  /\ c \in Links \ Used /\ Used' = Used \union {c}
             /\ backlog' = Append(backlog, c)
             /\ link' \in [Debuggers -> 0 .. MaxLinks] /\ link'[d] # 0
             /\ \A e \in Debuggers \ {d} : link'[e] = link[e]
             /\ ~Live(c) /\ Path(c) = stream[d] /\ Asked(c) = <<>>
             /\ \A b \in Links \ {c} : Live(b)' => Live(b)
<1> DEFINE c == <<d, link[d] + 1>>
<1>1. TypeOK /\ LinksInv
  BY DEF IInv
<1>2. /\ link \in [Debuggers -> 0 .. MaxLinks] /\ link[d] < MaxLinks /\ MaxLinks \in Nat
      /\ link' = [link EXCEPT ![d] = @ + 1] /\ backlog' = Append(backlog, <<d, link'[d]>>)
      /\ d \notin open /\ open' = open \union {d}
  BY <1>1, RemoteAssumption DEF Connect, TypeOK
<1>3. /\ link[d] + 1 \in 1 .. MaxLinks /\ link'[d] = link[d] + 1 /\ link[d] \in Nat
      /\ link' \in [Debuggers -> 0 .. MaxLinks] /\ link'[d] # 0
      /\ \A e \in Debuggers \ {d} : link'[e] = link[e]
  BY <1>2
<1>4. c \in Links /\ c \notin Used
  BY <1>3 DEF Links, Used
<1>5. Used' = Used \union {c}
  <2>1. \A b \in Links : b[1] \in Debuggers /\ b[2] \in Nat /\ b = <<b[1], b[2]>>
    BY <1>2 DEF Links
  <2>2. ASSUME NEW b \in Links PROVE b[2] <= link'[b[1]] <=> b[2] <= link[b[1]] \/ b = c
    <3>1. CASE b[1] = d
      <4>1. b = <<d, b[2]>> /\ b[2] \in Nat
        BY <2>1, <3>1
      <4>2. b[2] <= link[d] + 1 <=> b[2] <= link[d] \/ b[2] = link[d] + 1
        BY <1>3, <4>1
      <4>3. b = c <=> b[2] = link[d] + 1
        BY <4>1
      <4> QED
        BY <1>3, <3>1, <4>2, <4>3
    <3>2. CASE b[1] # d
      BY <1>3, <2>1, <3>2
    <3> QED
      BY <3>1, <3>2
  <2> QED
    BY <1>4, <2>2 DEF Used
<1>6. ~Live(c)
  BY <1>2 DEF Live
<1>7. /\ in[c] = <<>> /\ up[c] = <<>> /\ down[c] = <<>> /\ out[c] = <<>>
  BY <1>1, <1>4 DEF LinksInv
<1>8. Asked(c) = <<>>
  BY <1>7 DEF Asked
<1>9. Path(c) = stream[d]
  <2>1. stream[d] \in Seq(Unit)
    BY <1>1, Typed
  <2>2. stream[d] \o <<>> = stream[d]
    BY <2>1, ConcatEmptySeq
  <2> QED
    BY <1>7, <2>2 DEF Path
<1>10. ASSUME NEW b \in Links \ {c}, Live(b)' PROVE Live(b)
  <2>1. b[1] \in open' /\ link'[b[1]] = b[2] /\ b = <<b[1], b[2]>> /\ b[1] \in Debuggers
    BY <1>10 DEF Live, Links
  <2>2. b[1] # d
    BY <1>3, <2>1
  <2> QED
    BY <1>2, <1>3, <2>1, <2>2 DEF Live
<1>11. backlog' = Append(backlog, c)
  BY <1>2, <1>3
<1> QED
  BY <1>3, <1>4, <1>5, <1>6, <1>8, <1>9, <1>10, <1>11

LEMMA ConnectKeeps ==
  ASSUME IInv, NEW d \in Debuggers, Connect(d)
  PROVE  IInv'
<1>1. TypeOK /\ LinksInv /\ FrameInv /\ SayInv
  BY DEF IInv
<1>2. PICK c : /\ c = <<d, link[d] + 1>>
               /\ c \in Links \ Used /\ Used' = Used \union {c}
               /\ backlog' = Append(backlog, c)
               /\ link' \in [Debuggers -> 0 .. MaxLinks] /\ link'[d] # 0
               /\ \A e \in Debuggers \ {d} : link'[e] = link[e]
               /\ ~Live(c) /\ Path(c) = stream[d] /\ Asked(c) = <<>>
               /\ \A b \in Links \ {c} : Live(b)' => Live(b)
  BY ConnectIs
<1>3. /\ open' = open \union {d} /\ d \notin open
      /\ UNCHANGED <<clients, in, turn, readable, writable, pause, lpause, zone, lzone, stale, out, pc, events, batch, time,
                     down, up, reset, stream, view, orders, torn>>
  BY DEF Connect, session, queue, tcp
<1>4. backlog' \in Seq(Links) /\ Range(backlog') = Range(backlog) \union {c}
  <2>1. backlog \in Seq(Links) /\ c \in Links
    BY <1>1, <1>2, Typed
  <2>2. Append(backlog, c) \in Seq(Links) /\ Range(Append(backlog, c)) = Range(backlog) \union {c}
    BY <2>1, RangeOf
  <2> QED
    BY <1>2, <2>2
<1>5. /\ Connected' = Connected
      /\ \A b \in Links : Path(b)' = Path(b) /\ Asked(b)' = Asked(b) /\ (Greeted(b)' <=> Greeted(b))
  BY <1>3 DEF Connected, Path, Asked, Greeted
<1>6. TypeOK'
  <2>1. {clients, backlog, turn}' \subseteq Seq(Links)
    BY <1>1, <1>3, <1>4 DEF TypeOK
  <2>2. open' \subseteq Debuggers
    BY <1>1, <1>3 DEF TypeOK
  <2> QED
    BY <1>1, <1>2, <1>3, <2>1, <2>2 DEF TypeOK
<1>7. LinksInv'
  <2>1. Range(clients') \union Range(backlog') \subseteq Used'
    BY <1>1, <1>2, <1>3, <1>4 DEF LinksInv
  <2>2. \A i \in DOMAIN events' : events'[i][1] = "connect" => events'[i][2] \in Used'
    BY <1>1, <1>2, <1>3 DEF LinksInv
  <2>3. \A b \in Links \ Used' : in'[b] = <<>> /\ up'[b] = <<>> /\ down'[b] = <<>> /\ out'[b] = <<>>
    BY <1>1, <1>2, <1>3 DEF LinksInv
  <2>4. reset' \subseteq Used' /\ \A b \in reset' : ~Live(b)'
    <3>1. reset \subseteq Used /\ \A b \in reset : b \in Links \ {c} /\ ~Live(b)
      BY <1>1, <1>2 DEF LinksInv, TypeOK
    <3> QED
      BY <1>2, <1>3, <3>1
  <2>5. \A e \in open' : link'[e] # 0
    <3>1. ASSUME NEW e \in open PROVE link'[e] # 0
      <4>1. e \in Debuggers \ {d} /\ link[e] # 0
        BY <1>1, <1>3 DEF LinksInv, TypeOK
      <4> QED
        BY <1>2, <4>1
    <3> QED
      BY <1>2, <1>3, <3>1
  <2> QED
    BY <2>1, <2>2, <2>3, <2>4, <2>5 DEF LinksInv
<1>8. FrameInv'
  <2>1. ASSUME NEW b \in Links PROVE Framed(Asked(b))' /\ (Live(b)' => Even(Len(Asked(b)))')
    <3>1. Framed(Asked(b))'
      BY <1>1, <1>5 DEF FrameInv
    <3>2. CASE b = c
      BY <1>2, <1>5, <3>1, <3>2, EmptyIsFramed
    <3>3. CASE b # c
      BY <1>1, <1>2, <1>5, <3>1, <3>3 DEF FrameInv
    <3> QED
      BY <3>2, <3>3
  <2>2. ASSUME NEW b \in Links, Sound(b)' PROVE Framed(Path(b))' /\ Even(Len(Path(b)))'
    <3>1. Live(b)' /\ b[1] \notin torn
      BY <1>3, <2>2 DEF Sound
    <3>2. CASE b = c
      <4>1. b[1] = d
        BY <1>2, <3>2
      <4>2. stream[d] = <<>>
        BY <1>1, <1>3, <3>1, <4>1 DEF FrameInv
      <4> QED
        BY <1>2, <1>5, <3>2, <4>2, EmptyIsFramed
    <3>3. CASE b # c
      BY <1>1, <1>2, <1>5, <3>1, <3>3 DEF FrameInv, Sound
    <3> QED
      BY <3>2, <3>3
  <2>3. \A e \in Debuggers \ (open' \union torn') : stream'[e] = <<>>
    BY <1>1, <1>3 DEF FrameInv
  <2> QED
    BY <2>1, <2>2, <2>3 DEF FrameInv
<1>9. SayInv'
  <2>1. ASSUME NEW b \in Links, Sound(b)', Greeted(b)'
        PROVE  LastState(Word(b)', Whole(Path(b)'), view'[b[1]])
    <3>1. b \in Range(clients) /\ Greeted(b)
      BY <1>5, <2>1 DEF Greeted, Connected
    <3>2. b # c
      BY <1>1, <1>2, <3>1 DEF LinksInv
    <3>3. Sound(b)
      BY <1>2, <1>3, <2>1, <3>2 DEF Sound
    <3> QED
      BY <1>1, <1>3, <1>5, <2>1, <3>1, <3>3, WordStays DEF SayInv
  <2> QED
    BY <2>1 DEF SayInv
<1> QED
  BY <1>6, <1>7, <1>8, <1>9 DEF IInv

\* A debugger that leaves.
LEMMA LeftIs ==
  ASSUME TypeOK, NEW d \in Debuggers, Left(d)
  PROVE  /\ open' = open \ {d} /\ view' \in [Debuggers -> States]
         /\ \A e \in Debuggers \ {d} : view'[e] = view[e]
<1>1. "running" \in States
  BY DEF States
<1> QED
  BY <1>1 DEF Left, TypeOK

LEMMA DisconnectKeeps ==
  ASSUME IInv, NEW d \in Debuggers, Disconnect(d)
  PROVE  IInv'
<1>1. TypeOK /\ LinksInv /\ FrameInv /\ SayInv
  BY DEF IInv
<1>2. /\ open' = open \ {d} /\ view' \in [Debuggers -> States]
      /\ \A e \in Debuggers \ {d} : view'[e] = view[e]
  BY <1>1, LeftIs DEF Disconnect
<1>3. /\ torn' = (IF stream[d] = <<>> THEN torn ELSE torn \union {d})
      /\ UNCHANGED <<clients, backlog, in, turn, readable, writable, pause, lpause, zone, lzone, stale, out, pc, events, batch, time,
                     down, up, reset, link, stream, orders>>
  BY DEF Disconnect, sockets, session, queue, tcp
<1>4. TypeOK'
  <2>1. open' \subseteq Debuggers /\ torn' \subseteq Debuggers
    BY <1>1, <1>2, <1>3 DEF TypeOK
  <2> QED
    BY <1>1, <1>2, <1>3, <2>1 DEF TypeOK
<1>5. /\ Used' = Used
      /\ \A b \in Links : /\ Path(b)' = Path(b) /\ Asked(b)' = Asked(b) /\ (Greeted(b)' <=> Greeted(b))
                          /\ Live(b)' => Live(b) /\ b[1] # d
                          /\ Sound(b)' => Sound(b) /\ b[1] # d
  BY <1>2, <1>3 DEF Used, Connected, Path, Asked, Greeted, Live, Sound
<1>6. LinksInv'
  BY <1>1, <1>2, <1>3, <1>5 DEF LinksInv, TypeOK
<1>7. FrameInv'
  <2>1. \A e \in Debuggers \ (open' \union torn') : stream'[e] = <<>>
    BY <1>1, <1>2, <1>3 DEF FrameInv
  <2> QED
    BY <1>1, <1>5, <2>1 DEF FrameInv
<1>8. SayInv'
  <2>1. ASSUME NEW b \in Links, Sound(b)', Greeted(b)'
        PROVE  LastState(Word(b)', Whole(Path(b)'), view'[b[1]])
    <3>1. view'[b[1]] = view[b[1]]
      BY <1>1, <1>2, <1>5, <2>1, Typed
    <3>2. LastState(Word(b), Whole(Path(b)), view[b[1]])
      BY <1>1, <1>5, <2>1 DEF SayInv
    <3> QED
      BY <1>3, <1>5, <3>1, <3>2, WordStays
  <2> QED
    BY <2>1 DEF SayInv
<1> QED
  BY <1>4, <1>6, <1>7, <1>8 DEF IInv

LEMMA ToggleIs ==
  ASSUME IInv, NEW d \in Debuggers, TogglePause(d)
  PROVE  \E c \in Links : \E m \in States :
           /\ Live(c) /\ m \in Messages
           /\ Asked(c)' = Join(Asked(c), Frame(m))
           /\ up' \in [Links -> Seq(Unit)] /\ up'[c] # <<>>
           /\ \A b \in Links \ {c} : up'[b] = up[b] /\ Asked(b)' = Asked(b)
<1>1. TypeOK /\ LinksInv
  BY DEF IInv
<1> DEFINE c == <<d, link[d]>>
           m == IF view[d] = "paused" THEN "running" ELSE "paused"
<1>2. /\ d \in open /\ up' = [up EXCEPT ![c] = @ \o Frame(m)] /\ in' = in
  BY DEF TogglePause, sockets
<1>3. c \in Links /\ Live(c)
  <2>1. link[d] \in 1 .. MaxLinks
    BY <1>1, <1>2, RemoteAssumption DEF LinksInv, TypeOK
  <2> QED
    BY <1>2, <2>1 DEF Links, Live
<1>4. m \in States /\ m \in Messages
  BY DEF States, Messages
<1>5. PICK a \in Links : a = c
  BY <1>3
<1>6. PICK x \in States : x = m
  BY <1>4
<1>7. /\ Live(a) /\ x \in Messages /\ up' = [up EXCEPT ![a] = @ \o Frame(x)]
  BY <1>2, <1>3, <1>4, <1>5, <1>6
<1> HIDE DEF c, m
<1>8. /\ up \in [Links -> Seq(Unit)] /\ up[a] \in Seq(Unit) /\ in[a] \in Seq(Unit) /\ Frame(x) \in Seq(Unit)
      /\ Len(Frame(x)) = 2
  BY <1>1, <1>7, Typed, FrameOf
<1>9. up[a] \o Frame(x) \in Seq(Unit) /\ up[a] \o Frame(x) # <<>>
  <2>1. /\ up[a] \o Frame(x) \in Seq(Unit) /\ Len(up[a] \o Frame(x)) = Len(up[a]) + Len(Frame(x))
        /\ Len(up[a]) \in Nat
    BY <1>8, Concat
  <2>2. Len(up[a] \o Frame(x)) # 0
    BY <1>8, <2>1
  <2> QED
    BY <2>1, <2>2
<1>10. /\ up' \in [Links -> Seq(Unit)] /\ up'[a] = up[a] \o Frame(x)
       /\ \A b \in Links \ {a} : up'[b] = up[b]
  BY <1>7, <1>8, <1>9
<1>11. \A b \in Links \ {a} : Asked(b)' = Asked(b)
  BY <1>2, <1>10 DEF Asked
<1>12. Asked(a)' = Join(Asked(a), Frame(x))
  <2>1. Asked(a)' = Join(in[a], Join(up[a], Frame(x))) /\ Asked(a) = Join(in[a], up[a])
    BY <1>2, <1>10 DEF Asked, Join
  <2> QED
    BY <1>8, <2>1, JoinOfJoin
<1> QED
  BY <1>7, <1>9, <1>10, <1>11, <1>12

LEMMA ToggleKeeps ==
  ASSUME IInv, NEW d \in Debuggers, TogglePause(d)
  PROVE  IInv'
<1>1. TypeOK /\ LinksInv /\ FrameInv /\ SayInv
  BY DEF IInv
<1>2. PICK c \in Links, m \in States :
           /\ Live(c) /\ m \in Messages
           /\ Asked(c)' = Join(Asked(c), Frame(m))
           /\ up' \in [Links -> Seq(Unit)] /\ up'[c] # <<>>
           /\ \A b \in Links \ {c} : up'[b] = up[b] /\ Asked(b)' = Asked(b)
  BY ToggleIs
<1>3. /\ orders < MaxOrders /\ orders' = orders + 1
      /\ UNCHANGED <<clients, backlog, in, turn, readable, writable, pause, lpause, zone, lzone, stale, out, pc, events, batch, time,
                     down, reset, link, open, stream, view, torn>>
  BY DEF TogglePause, sockets, session, queue, Shown
<1>4. TypeOK'
  <2>1. orders' \in 0 .. MaxOrders
    <3>1. orders \in 0 .. MaxOrders /\ MaxOrders \in Nat
      BY <1>1, RemoteAssumption DEF TypeOK
    <3> QED
      BY <1>3, <3>1
  <2>2. {out, in, down, up}' \subseteq [Links -> Units]
    BY <1>1, <1>2, <1>3 DEF TypeOK, Units, Unit
  <2> QED
    BY <1>1, <1>3, <2>1, <2>2 DEF TypeOK
<1>5. /\ Used' = Used
      /\ \A b \in Links : /\ Path(b)' = Path(b) /\ (Greeted(b)' <=> Greeted(b)) /\ (Live(b)' <=> Live(b))
  BY <1>3 DEF Used, Connected, Path, Greeted, Live
<1>6. LinksInv'
  <2>1. c \in Used
    <3>1. link[c[1]] = c[2] /\ c[2] \in Nat
      BY <1>2, RemoteAssumption DEF Live, Links
    <3> QED
      BY <3>1 DEF Used
  <2>2. \A b \in Links \ Used : in'[b] = <<>> /\ up'[b] = <<>> /\ down'[b] = <<>> /\ out'[b] = <<>>
    BY <1>1, <1>2, <1>3, <2>1 DEF LinksInv
  <2> QED
    BY <1>1, <1>3, <1>5, <2>2 DEF LinksInv, TypeOK
<1>7. FrameInv'
  <2>1. Framed(Asked(c))' /\ Even(Len(Asked(c)))'
    BY <1>1, <1>2, Paths, FrameAppend DEF FrameInv, Join
  <2>2. \A b \in Links : \/ Asked(b)' = Asked(b)
                         \/ Framed(Asked(b))' /\ (Live(b) => Even(Len(Asked(b)))')
    BY <1>2, <2>1
  <2> QED
    BY <1>1, <1>3, <1>5, <2>2, KeepFrame
<1>8. SayInv'
  BY <1>1, <1>3, <1>5, KeepSay, WordStays
<1> QED
  BY <1>4, <1>6, <1>7, <1>8 DEF IInv

\* The first k messages of s, and that they are understood.
Said(s, k) == [i \in 1 .. k |-> s[2 * i][1]]
Clear(s, k) == \A i \in 1 .. k : Created(SubSeq(s, 2 * i - 1, 2 * i)) = {s[2 * i][1]}
Complete(s) == IF Available(s) THEN Len(s) \div 2 ELSE 0

\* The debugger takes n units of d, and reads the messages that are whole.
LEMMA ReadOf ==
  ASSUME NEW t \in Seq(Unit), NEW d \in Seq(Unit), NEW o \in Seq(Unit), NEW n \in 0 .. Len(d)
  PROVE  LET s == Join(t, Upto(d, n))
             k == Complete(s)
             p == Join(Join(t, d), o)
             q == Join(Join(After(s, 2 * k), After(d, n)), o)
         IN  /\ s \in Seq(Unit) /\ After(s, 2 * k) \in Seq(Unit) /\ After(d, n) \in Seq(Unit)
             /\ Len(After(d, n)) = Len(d) - n
             /\ Framed(p) =>
                  /\ Clear(s, k)
                  /\ k \in 0 .. Len(Whole(p))
                  /\ Said(s, k) = SubSeq(Whole(p), 1, k)
                  /\ Framed(q) /\ (Even(Len(p)) => Even(Len(q)))
                  /\ Whole(q) = SubSeq(Whole(p), k + 1, Len(Whole(p)))
<1> DEFINE a == Upto(d, n)
           b == After(d, n)
           s == Join(t, a)
           k == Complete(s)
           p == Join(Join(t, d), o)
           u == Join(b, o)
           r == After(s, 2 * k)
           q == Join(Join(r, b), o)
<1>1. a \in Seq(Unit) /\ b \in Seq(Unit) /\ Len(b) = Len(d) - n
  BY Parts
<1>2. s \in Seq(Unit) /\ Len(s) \in Nat
  <2> HIDE DEF a
  <2> QED
    BY <1>1, Joins
<1>3. k = Len(s) \div 2 /\ k \in Nat /\ 2 * k <= Len(s)
  <2> HIDE DEF s
  <2>1. \A m \in Nat : /\ m \div 2 \in Nat /\ 2 * (m \div 2) <= m
                       /\ ~(m >= 2) => m \div 2 = 0
    <3> SUFFICES ASSUME NEW m \in Nat
                 PROVE  /\ m \div 2 \in Nat /\ 2 * (m \div 2) <= m
                        /\ ~(m >= 2) => m \div 2 = 0
      OBVIOUS
    <3> QED
      BY Half
  <2> QED
    BY <1>2, <2>1 DEF Available, Complete
<1>4. r \in Seq(Unit)
  <2>1. 2 * k + 1 \in Nat \ {0} /\ Len(s) \in 0 .. Len(s)
    <3> HIDE DEF k, s
    <3> QED
      BY <1>2, <1>3
  <2> HIDE DEF k, s
  <2> QED
    BY <1>2, <2>1, Sub DEF After
<1>5. p = Join(s, u)
  <2> HIDE DEF a, b
  <2>1. Join(a, b) = d
    BY UptoAndAfter DEF a, b
  <2>2. Join(Join(t, Join(a, b)), o) = Join(Join(Join(t, a), b), o)
    BY <1>1, JoinOfJoin
  <2>3. Join(Join(s, b), o) = Join(s, Join(b, o))
    <3> HIDE DEF s
    <3> QED
      BY <1>1, <1>2, JoinOfJoin
  <2> QED
    BY <2>1, <2>2, <2>3
<1>6. u \in Seq(Unit)
  <2> HIDE DEF b
  <2> QED
    BY <1>1, Joins
<1>7. p \in Seq(Unit)
  <2> HIDE DEF s, u
  <2> QED
    BY <1>2, <1>5, <1>6, Joins
<1>8. q = SubSeq(p, 2 * k + 1, Len(p))
  <2> HIDE DEF b, k, s
  <2>1. q = Join(r, u)
    <3> HIDE DEF r
    <3> QED
      BY <1>1, <1>4, JoinOfJoin
  <2>2. 2 * k \in 0 .. Len(s)
    BY <1>2, <1>3
  <2> HIDE DEF u, p, q
  <2>3. SubSeq(s, 2 * k + 1, Len(s)) \o u = SubSeq(s \o u, 2 * k + 1, Len(s \o u))
    BY <1>2, <1>6, <2>2, Drop
  <2> QED
    BY <1>5, <2>1, <2>3 DEF Join, After
<1> HIDE DEF a, b, s, k, p, u, r, q
<1>9. ASSUME Framed(p)
      PROVE  /\ Clear(s, k)
             /\ k \in 0 .. Len(Whole(p))
             /\ Said(s, k) = SubSeq(Whole(p), 1, k)
             /\ Framed(q) /\ (Even(Len(p)) => Even(Len(q)))
             /\ Whole(q) = SubSeq(Whole(p), k + 1, Len(Whole(p)))
  <2>1. /\ Len(s) \div 2 \in 0 .. Len(p) \div 2 /\ Framed(s)
        /\ Whole(s) = SubSeq(Whole(p), 1, Len(s) \div 2)
    BY <1>2, <1>5, <1>6, <1>9, FrameFront DEF Join
  <2>2. k \in 0 .. Len(p) \div 2 /\ Whole(s) = SubSeq(Whole(p), 1, k)
    BY <1>3, <2>1
  <2>3. Len(Whole(p)) = Len(p) \div 2
    BY <1>7, WholeOf
  <2>4. Said(s, k) = Whole(s)
    BY <1>3 DEF Whole, Said
  <2>5. Clear(s, k)
    BY <1>2, <1>3, <2>1, CreatedOf DEF Clear
  <2>6. /\ Framed(q) /\ (Even(Len(p)) => Even(Len(q)))
        /\ Whole(q) = SubSeq(Whole(p), k + 1, Len(Whole(p)))
    BY <1>7, <1>8, <1>9, <2>2, FrameDrop
  <2> QED
    BY <2>2, <2>3, <2>4, <2>5, <2>6
<1> QED
  BY <1>1, <1>2, <1>4, <1>9 DEF s, k, p, r, q, a, b

\* Debugger d reads k messages, and shows the last state among them.
ReadsOn(c, d) ==
  \E k \in 0 .. Len(Whole(Path(c))) :
    /\ Framed(Path(c)') /\ Even(Len(Path(c)'))
    /\ Whole(Path(c)') = SubSeq(Whole(Path(c)), k + 1, Len(Whole(Path(c))))
    /\ LastState(view'[d], SubSeq(Whole(Path(c)), 1, k), view[d])

Reads(c, d) ==
  /\ c[1] = d /\ c \in Used /\ Live(c)
  /\ down' \in [Links -> Seq(Unit)] /\ Len(down'[c]) <= Window
  /\ stream' \in [Debuggers -> Seq(Unit)] /\ view' \in [Debuggers -> States]
  /\ \A b \in Links \ {c} : down'[b] = down[b]
  /\ \A e \in Debuggers \ {d} : stream'[e] = stream[e] /\ view'[e] = view[e]
  /\ open' = open \/ (open' = open \ {d} /\ d \in torn)
  /\ d \notin torn => ReadsOn(c, d)

LEMMA ReadIs ==
  ASSUME IInv, NEW d \in Debuggers, ReadTcpData(d)
  PROVE  \E c \in Links : Reads(c, d)
<1>1. TypeOK /\ LinksInv /\ FrameInv
  BY DEF IInv
<1>2. d \in open /\ link[d] \in 1 .. MaxLinks
  BY <1>1, RemoteAssumption DEF ReadTcpData, LinksInv, TypeOK
<1>3. PICK n \in 1 .. Len(down[<<d, link[d]>>]) :
        LET c == <<d, link[d]>>
            s == Join(stream[d], Upto(down[c], n))
            k == Complete(s)
        IN  /\ down' = [down EXCEPT ![c] = SubSeq(@, n + 1, Len(@))]
            /\ stream' = [stream EXCEPT ![d] = SubSeq(s, 2 * k + 1, Len(s))]
            /\ \/ /\ \E v \in States : /\ Clear(s, k) => LastState(v, Said(s, k), view[d])
                                       /\ view' = [view EXCEPT ![d] = v]
                  /\ UNCHANGED open
               \/ ~Clear(s, k) /\ Left(d)
  BY ZenonT(60) DEF ReadTcpData, Join, Upto, Complete, Clear, Said
<1>4. PICK c : c = <<d, link[d]>>
  OBVIOUS
<1> DEFINE w == down[c]
           t == stream[d]
           o == out[c]
           s == Join(t, Upto(w, n))
           k == Complete(s)
           p == Join(Join(t, w), o)
           q == Join(Join(After(s, 2 * k), After(w, n)), o)
<1>5. c \in Links /\ c[1] = d /\ Live(c) /\ c \in Used
  BY <1>2, <1>4 DEF Links, Live, Used
<1>6. /\ down' = [down EXCEPT ![c] = After(w, n)]
      /\ stream' = [stream EXCEPT ![d] = After(s, 2 * k)]
      /\ \/ \E v \in States : /\ Clear(s, k) => LastState(v, Said(s, k), view[d])
                              /\ view' = [view EXCEPT ![d] = v]
                              /\ UNCHANGED open
         \/ ~Clear(s, k) /\ Left(d)
  BY <1>3, <1>4 DEF After
<1>7. /\ w \in Seq(Unit) /\ t \in Seq(Unit) /\ o \in Seq(Unit)
      /\ down \in [Links -> Seq(Unit)] /\ stream \in [Debuggers -> Seq(Unit)] /\ view \in [Debuggers -> States]
      /\ n \in 0 .. Len(w) /\ Len(w) - n <= Window
  <2>1. /\ w \in Seq(Unit) /\ t \in Seq(Unit) /\ o \in Seq(Unit)
        /\ down \in [Links -> Seq(Unit)] /\ stream \in [Debuggers -> Seq(Unit)]
    BY <1>1, <1>5, Typed
  <2>2. view \in [Debuggers -> States] /\ Len(w) <= Window
    BY <1>1, <1>5 DEF TypeOK
  <2>3. n \in 1 .. Len(w)
    BY <1>3, <1>4
  <2>4. Len(w) \in Nat /\ Window \in Nat
    BY <2>1, RemoteAssumption
  <2> HIDE DEF w
  <2>5. n \in 0 .. Len(w) /\ Len(w) - n <= Window
    BY <2>2, <2>3, <2>4
  <2> QED
    BY <2>1, <2>2, <2>5
<1>8. p = Path(c)
  BY <1>5 DEF Path, Join
<1>9. /\ After(s, 2 * k) \in Seq(Unit) /\ After(w, n) \in Seq(Unit)
      /\ Len(After(w, n)) = Len(w) - n
      /\ Framed(p) =>
           /\ Clear(s, k)
           /\ k \in 0 .. Len(Whole(p))
           /\ Said(s, k) = SubSeq(Whole(p), 1, k)
           /\ Framed(q) /\ (Even(Len(p)) => Even(Len(q)))
           /\ Whole(q) = SubSeq(Whole(p), k + 1, Len(Whole(p)))
  <2> HIDE DEF w, t, o
  <2> QED
    BY <1>7, ReadOf
<1>10. d \notin torn => Framed(p) /\ Even(Len(p))
  BY <1>1, <1>5, <1>8 DEF FrameInv, Sound
<1>11. UNCHANGED out
  BY DEF ReadTcpData
<1> HIDE DEF w, t, s, k
<1>12. /\ down' \in [Links -> Seq(Unit)] /\ down'[c] = After(w, n)
       /\ \A b \in Links \ {c} : down'[b] = down[b]
       /\ stream' \in [Debuggers -> Seq(Unit)] /\ stream'[d] = After(s, 2 * k)
       /\ \A e \in Debuggers \ {d} : stream'[e] = stream[e]
  BY <1>5, <1>6, <1>7, <1>9
<1>13. Len(down'[c]) <= Window
  BY <1>7, <1>9, <1>12
<1>14. Path(c)' = q
  BY <1>5, <1>11, <1>12 DEF Path, Join
<1> HIDE DEF o, p, q
<1>15. CASE Left(d) /\ ~Clear(s, k)
  <2>1. d \in torn
    BY <1>9, <1>10, <1>15
  <2>2. /\ open' = open \ {d} /\ view' \in [Debuggers -> States]
        /\ \A e \in Debuggers \ {d} : view'[e] = view[e]
    BY <1>1, <1>15, LeftIs
  <2> QED
    BY <1>5, <1>12, <1>13, <2>1, <2>2 DEF Reads
<1>16. CASE \E v \in States : /\ Clear(s, k) => LastState(v, Said(s, k), view[d])
                              /\ view' = [view EXCEPT ![d] = v]
                              /\ UNCHANGED open
  <2>1. PICK v \in States : /\ Clear(s, k) => LastState(v, Said(s, k), view[d])
                            /\ view' = [view EXCEPT ![d] = v]
                            /\ UNCHANGED open
    BY <1>16
  <2>2. view' \in [Debuggers -> States] /\ view'[d] = v /\ \A e \in Debuggers \ {d} : view'[e] = view[e]
    BY <1>7, <2>1
  <2>3. ASSUME d \notin torn
        PROVE  /\ k \in 0 .. Len(Whole(Path(c)))
               /\ Framed(Path(c)') /\ Even(Len(Path(c)'))
               /\ Whole(Path(c)') = SubSeq(Whole(Path(c)), k + 1, Len(Whole(Path(c))))
               /\ LastState(view'[d], SubSeq(Whole(Path(c)), 1, k), view[d])
    <3>1. /\ k \in 0 .. Len(Whole(p))
          /\ Framed(q) /\ Even(Len(q))
          /\ Whole(q) = SubSeq(Whole(p), k + 1, Len(Whole(p)))
      BY <1>9, <1>10, <2>3
    <3>2. LastState(v, SubSeq(Whole(p), 1, k), view[d])
      BY <1>9, <1>10, <2>1, <2>3
    <3> QED
      BY <1>8, <1>14, <2>2, <3>1, <3>2
  <2>4. d \notin torn => ReadsOn(c, d)
    BY <2>3 DEF ReadsOn
  <2>5. open' = open
    BY <2>1
  <2> QED
    BY <1>5, <1>12, <1>13, <2>2, <2>4, <2>5 DEF Reads
<1> QED
  BY <1>6, <1>15, <1>16

LEMMA ReadKeeps ==
  ASSUME IInv, NEW d \in Debuggers, ReadTcpData(d)
  PROVE  IInv'
<1>1. TypeOK /\ LinksInv /\ FrameInv /\ SayInv
  BY DEF IInv
<1>2. PICK c \in Links :
        /\ c[1] = d /\ c \in Used /\ Live(c)
        /\ down' \in [Links -> Seq(Unit)] /\ Len(down'[c]) <= Window
        /\ stream' \in [Debuggers -> Seq(Unit)] /\ view' \in [Debuggers -> States]
        /\ \A b \in Links \ {c} : down'[b] = down[b]
        /\ \A e \in Debuggers \ {d} : stream'[e] = stream[e] /\ view'[e] = view[e]
        /\ open' = open \/ (open' = open \ {d} /\ d \in torn)
        /\ d \notin torn => ReadsOn(c, d)
  BY ReadIs DEF Reads
<1>3. UNCHANGED <<clients, backlog, in, turn, readable, writable, pause, lpause, zone, lzone, stale, out, pc, events, batch, time,
                  up, reset, link, orders, torn>>
  BY DEF ReadTcpData, sockets, session, queue
<1>4. d \in open /\ open \subseteq Debuggers
  BY <1>1 DEF ReadTcpData, TypeOK
<1>5. TypeOK'
  <2>1. \A b \in Links : Len(down'[b]) <= Window
    BY <1>1, <1>2 DEF TypeOK
  <2>2. {out, in, down, up}' \subseteq [Links -> Units] /\ stream' \in [Debuggers -> Units]
    <3>1. in' \in [Links -> Seq(Unit)] /\ up' \in [Links -> Seq(Unit)] /\ out' \in [Links -> Seq(Unit)]
      BY <1>1, <1>3, Typed
    <3> QED
      BY <1>2, <3>1 DEF Units, Unit
  <2>3. open' \subseteq Debuggers
    BY <1>2, <1>4
  <2> QED
    BY <1>1, <1>2, <1>3, <2>1, <2>2, <2>3 DEF TypeOK
<1>6. /\ Used' = Used
      /\ \A b \in Links : /\ Asked(b)' = Asked(b) /\ (Greeted(b)' <=> Greeted(b))
                          /\ Live(b)' => Live(b)
                          /\ Sound(b)' => Sound(b) /\ (b = c \/ b[1] # d)
  <2>1. Used' = Used /\ \A b \in Links : Asked(b)' = Asked(b) /\ (Greeted(b)' <=> Greeted(b))
    BY <1>3 DEF Used, Asked, Greeted, Connected
  <2>2. \A b \in Links : Live(b)' => Live(b)
    BY <1>2, <1>3 DEF Live
  <2>3. ASSUME NEW b \in Links, Live(b), b[1] = d PROVE b = c
    <3>1. b = <<b[1], b[2]>> /\ c = <<c[1], c[2]>>
      BY DEF Links
    <3> QED
      BY <1>2, <2>3, <3>1 DEF Live
  <2> QED
    BY <1>3, <2>1, <2>2, <2>3 DEF Sound
<1>7. \A b \in Links : b[1] # d => Path(b)' = Path(b) /\ view'[b[1]] = view[b[1]]
  <2>1. ASSUME NEW b \in Links, b[1] # d PROVE Path(b)' = Path(b) /\ view'[b[1]] = view[b[1]]
    <3>1. b # c /\ b[1] \in Debuggers
      BY <1>1, <1>2, <2>1, Typed
    <3>2. down'[b] = down[b] /\ stream'[b[1]] = stream[b[1]] /\ view'[b[1]] = view[b[1]] /\ out' = out
      BY <1>2, <1>3, <2>1, <3>1
    <3> QED
      BY <3>2 DEF Path
  <2> QED
    BY <2>1
<1>8. LinksInv'
  <2>1. \A b \in Links \ Used : in'[b] = <<>> /\ up'[b] = <<>> /\ down'[b] = <<>> /\ out'[b] = <<>>
    BY <1>1, <1>2, <1>3 DEF LinksInv
  <2>2. \A e \in open' : link'[e] # 0
    BY <1>1, <1>2, <1>3 DEF LinksInv
  <2>3. reset' \subseteq Used' /\ \A b \in reset' : ~Live(b)'
    BY <1>1, <1>3, <1>6 DEF LinksInv, TypeOK
  <2> QED
    BY <1>1, <1>3, <1>6, <2>1, <2>2, <2>3 DEF LinksInv
<1>9. FrameInv'
  <2>1. \A b \in Links : Framed(Asked(b))' /\ (Live(b)' => Even(Len(Asked(b)))')
    BY <1>1, <1>6 DEF FrameInv
  <2>2. ASSUME NEW b \in Links, Sound(b)' PROVE Framed(Path(b))' /\ Even(Len(Path(b)))'
    <3>1. CASE b = c
      <4>1. d \notin torn
        BY <1>2, <1>6, <2>2, <3>1 DEF Sound
      <4> QED
        BY <1>2, <3>1, <4>1 DEF ReadsOn
    <3>2. CASE b # c
      BY <1>1, <1>6, <1>7, <2>2, <3>2 DEF FrameInv
    <3> QED
      BY <3>1, <3>2
  <2>3. \A e \in Debuggers \ (open' \union torn') : stream'[e] = <<>>
    <3>1. ASSUME NEW e \in Debuggers \ (open' \union torn') PROVE stream'[e] = <<>>
      <4>1. e # d /\ e \notin open /\ e \notin torn
        BY <1>2, <1>3, <1>4, <3>1
      <4> QED
        BY <1>1, <1>2, <4>1 DEF FrameInv
    <3> QED
      BY <3>1
  <2> QED
    BY <2>1, <2>2, <2>3 DEF FrameInv
<1>10. SayInv'
  <2>1. ASSUME NEW b \in Links, Sound(b)', Greeted(b)'
        PROVE  LastState(Word(b)', Whole(Path(b)'), view'[b[1]])
    <3>1. /\ Sound(b) /\ (b = c \/ b[1] # d) /\ LastState(Word(b), Whole(Path(b)), view[b[1]])
          /\ Word(b)' = Word(b)
      BY <1>1, <1>3, <1>6, <2>1, WordStays DEF SayInv
    <3>2. CASE b = c
      <4>1. d \notin torn
        BY <1>2, <3>1, <3>2 DEF Sound
      <4>2. PICK k \in 0 .. Len(Whole(Path(c))) :
               /\ Whole(Path(c)') = SubSeq(Whole(Path(c)), k + 1, Len(Whole(Path(c))))
               /\ LastState(view'[d], SubSeq(Whole(Path(c)), 1, k), view[d])
        BY <1>2, <4>1 DEF ReadsOn
      <4>3. /\ Whole(Path(c)) \in Seq(Messages) /\ Word(c) \in States /\ view'[d] \in States
        BY <1>1, <1>2, Paths, WholeOf, WordIs DEF TypeOK
      <4>4. LastState(Word(c), Whole(Path(c)), view[d])
        BY <1>2, <3>1, <3>2
      <4>5. LastState(Word(c), SubSeq(Whole(Path(c)), k + 1, Len(Whole(Path(c)))), view'[d])
        BY <4>2, <4>3, <4>4, SaysRest
      <4> QED
        BY <1>2, <3>1, <3>2, <4>2, <4>5
    <3>3. CASE b # c
      BY <1>7, <3>1, <3>3
    <3> QED
      BY <3>2, <3>3
  <2> QED
    BY <2>1 DEF SayInv
<1> QED
  BY <1>5, <1>8, <1>9, <1>10 DEF IInv

\* TCP refuses what is under way to a debugger that is gone.
LEMMA RefuseIs ==
  ASSUME IInv, NEW c \in Links, Refuse(c)
  PROVE  /\ down' \in [Links -> Seq(Unit)] /\ up' \in [Links -> Seq(Unit)] /\ down'[c] = <<>>
         /\ \A b \in Links \ {c} : down'[b] = down[b] /\ up'[b] = up[b] /\ Asked(b)' = Asked(b)
         /\ c \in Used /\ ~Live(c) /\ reset' = reset \union {c}
         /\ Framed(Asked(c)')
         /\ \E k \in 0 .. Len(Whole(Asked(c))) : Whole(Asked(c)') = SubSeq(Whole(Asked(c)), 1, k)
<1>1. TypeOK /\ LinksInv /\ FrameInv
  BY DEF IInv
<1> DEFINE w == up[c]
           i == in[c]
<1>2. /\ down \in [Links -> Seq(Unit)] /\ up \in [Links -> Seq(Unit)] /\ w \in Seq(Unit) /\ i \in Seq(Unit)
  BY <1>1, Typed
<1>3. PICK n \in 0 .. Len(w) : up' = [up EXCEPT ![c] = Upto(w, n)]
  BY DEF Refuse, Upto
<1>4. /\ down' = [down EXCEPT ![c] = <<>>] /\ reset' = reset \union {c} /\ ~Live(c) /\ down[c] # <<>> /\ in' = in
  BY DEF Refuse, sockets
<1>5. Upto(w, n) \in Seq(Unit) /\ After(w, n) \in Seq(Unit) /\ Join(Upto(w, n), After(w, n)) = w
  <2> HIDE DEF w
  <2> QED
    BY <1>2, UptoAndAfter
<1>6. c \in Used
  BY <1>1, <1>4 DEF LinksInv
<1> HIDE DEF w, i
<1> DEFINE a == Upto(w, n)
           b == After(w, n)
           s == Join(i, a)
<1>7. /\ down' \in [Links -> Seq(Unit)] /\ down'[c] = <<>>
      /\ up' \in [Links -> Seq(Unit)] /\ up'[c] = a
      /\ \A d \in Links \ {c} : down'[d] = down[d] /\ up'[d] = up[d]
  <2>1. <<>> \in Seq(Unit)
    OBVIOUS
  <2> QED
    BY <1>2, <1>3, <1>4, <1>5, <2>1
<1>8. Asked(c)' = s
  BY <1>4, <1>7 DEF Asked, Join, i
<1>9. Asked(c) = Join(s, b) /\ s \in Seq(Unit)
  <2>1. Asked(c) = Join(i, Join(a, b))
    BY <1>5 DEF Asked, Join, i, w
  <2> HIDE DEF a, b
  <2>2. Join(Join(i, a), b) = Join(i, Join(a, b)) /\ Join(i, a) \in Seq(Unit)
    BY <1>2, <1>5, JoinOfJoin, Joins DEF a, b
  <2> QED
    BY <2>1, <2>2
<1>10. b \in Seq(Unit) /\ Framed(Asked(c)) /\ Asked(c) \in Seq(Unit)
  BY <1>1, <1>5, Paths DEF FrameInv
<1> HIDE DEF a, b, s
<1>11. /\ Len(s) \div 2 \in 0 .. Len(Asked(c)) \div 2 /\ Framed(s)
       /\ Whole(s) = SubSeq(Whole(Asked(c)), 1, Len(s) \div 2)
  BY <1>9, <1>10, FrameFront DEF Join
<1>12. Len(Whole(Asked(c))) = Len(Asked(c)) \div 2
  BY <1>10, WholeOf
<1>13. \A d \in Links \ {c} : Asked(d)' = Asked(d)
  BY <1>4, <1>7 DEF Asked
<1>14. Framed(Asked(c)') /\ \E k \in 0 .. Len(Whole(Asked(c))) : Whole(Asked(c)') = SubSeq(Whole(Asked(c)), 1, k)
  BY <1>8, <1>11, <1>12
<1> QED
  BY <1>4, <1>6, <1>7, <1>13, <1>14

LEMMA RefuseKeeps ==
  ASSUME IInv, NEW c \in Links, Refuse(c)
  PROVE  IInv'
<1>1. TypeOK /\ LinksInv /\ FrameInv /\ SayInv
  BY DEF IInv
<1>2. /\ down' \in [Links -> Seq(Unit)] /\ up' \in [Links -> Seq(Unit)] /\ down'[c] = <<>>
      /\ \A b \in Links \ {c} : down'[b] = down[b] /\ up'[b] = up[b] /\ Asked(b)' = Asked(b)
      /\ c \in Used /\ ~Live(c) /\ reset' = reset \union {c}
      /\ Framed(Asked(c)')
  BY RefuseIs
<1>3. UNCHANGED <<clients, backlog, in, turn, readable, writable, pause, lpause, zone, lzone, stale, out, pc, events, batch, time,
                  link, open, stream, view, orders, torn>>
  BY DEF Refuse, sockets, session, queue, debugger
<1>4. TypeOK'
  <2>1. \A b \in Links : Len(down'[b]) <= Window
    <3>1. Len(down'[c]) <= Window
      BY <1>2, RemoteAssumption
    <3> QED
      BY <1>1, <1>2, <3>1 DEF TypeOK
  <2>2. {out, in, down, up}' \subseteq [Links -> Units]
    BY <1>1, <1>2, <1>3 DEF TypeOK, Units, Unit
  <2>3. reset' \subseteq Links
    BY <1>1, <1>2 DEF TypeOK
  <2> QED
    BY <1>1, <1>2, <1>3, <2>1, <2>2, <2>3 DEF TypeOK
<1>5. /\ Used' = Used
      /\ \A b \in Links : (Greeted(b)' <=> Greeted(b)) /\ (Live(b)' <=> Live(b)) /\ (Sound(b) => Sound(b)')
  BY <1>3 DEF Used, Greeted, Connected, Live, Sound
<1>6. \A b \in Links : Sound(b) => Path(b)' = Path(b)
  BY <1>2, <1>3 DEF Path, Sound
<1>7. LinksInv'
  <2>1. \A b \in Links \ Used : in'[b] = <<>> /\ up'[b] = <<>> /\ down'[b] = <<>> /\ out'[b] = <<>>
    BY <1>1, <1>2, <1>3 DEF LinksInv
  <2>2. reset' \subseteq Used' /\ \A b \in reset' : ~Live(b)'
    BY <1>1, <1>2, <1>5 DEF LinksInv, TypeOK
  <2> QED
    BY <1>1, <1>3, <1>5, <2>1, <2>2 DEF LinksInv
<1>8. FrameInv'
  <2>1. \A b \in Links : \/ Asked(b)' = Asked(b)
                         \/ Framed(Asked(b))' /\ (Live(b) => Even(Len(Asked(b)))')
    BY <1>2
  <2> QED
    BY <1>1, <1>3, <1>6, <2>1, KeepFrame
<1>9. SayInv'
  BY <1>1, <1>3, <1>5, <1>6, KeepSay, WordStays
<1> QED
  BY <1>4, <1>7, <1>8, <1>9 DEF IInv

----------------------------------------------------------------------------
(* The theorems                                                            *)

LEMMA InitHolds ==
  ASSUME Init
  PROVE  IInv
<1>1. /\ <<>> \in Seq(Unit) /\ <<>> \in Seq(Links) /\ <<>> \in Seq(Events) /\ Len(<<>>) = 0
      /\ "running" \in States /\ <<>> \o <<>> = <<>> /\ Range(<<>>) = {}
  BY DEF States, Range
<1>2. TypeOK
  <2>1. {clients, backlog, turn} \subseteq Seq(Links) /\ {out, in, down, up} \subseteq [Links -> Units]
    BY <1>1 DEF Init, Units, Unit
  <2>2. Len(turn) <= Len(clients) /\ turn = SubSeq(clients, Len(clients) - Len(turn) + 1, Len(clients))
    BY <1>1 DEF Init
  <2>3. time \in 0 .. PingAfter /\ orders \in 0 .. MaxOrders /\ link \in [Debuggers -> 0 .. MaxLinks]
    BY RemoteAssumption DEF Init
  <2>4. \A c \in Links : Len(down[c]) <= Window
    BY <1>1, RemoteAssumption DEF Init
  <2>5. stream \in [Debuggers -> Units] /\ view \in [Debuggers -> States]
    BY <1>1 DEF Init, Units, Unit
  <2>6. /\ events \in Seq(Events) /\ batch \in 0 .. Len(events)
        /\ {pause, lpause} \subseteq States /\ {zone, lzone} \subseteq BOOLEAN
    BY <1>1 DEF Init
  <2> QED
    BY <2>1, <2>2, <2>3, <2>4, <2>5, <2>6 DEF Init, TypeOK
<1>3. LinksInv
  BY <1>1 DEF Init, LinksInv
<1>4. \A c \in Links : Asked(c) = <<>> /\ ~Live(c)
  BY <1>1 DEF Init, Asked, Live
<1>5. FrameInv
  BY <1>4, EmptyIsFramed DEF FrameInv, Sound, Init
<1>6. SayInv
  BY <1>4 DEF SayInv, Sound
<1> QED
  BY <1>2, <1>3, <1>5, <1>6 DEF IInv

\* The invariant is kept, and a socket that is closed is one whose debugger is gone.
LEMMA NextKeeps ==
  ASSUME IInv, [Next]_vars
  PROVE  /\ IInv'
         /\ \A c \in Connected \ Connected' : ~Live(c)
<1>1. CASE UNCHANGED vars
  <2>1. UNCHANGED <<clients, backlog, in, turn, readable, writable, pause, lpause, zone, lzone, stale, out, pc, events, batch, time,
                    down, up, reset, link, open, stream, view, orders, torn>>
    BY <1>1 DEF vars, sockets, session, queue, tcp, debugger
  <2>2. TypeOK'
    BY <2>1 DEF IInv, TypeOK
  <2>3. /\ Used' = Used /\ Connected' = Connected
        /\ \A b \in Links : /\ Path(b)' = Path(b) /\ Asked(b)' = Asked(b) /\ (Greeted(b)' <=> Greeted(b))
                            /\ (Live(b)' <=> Live(b))
    BY <2>1 DEF Used, Connected, Path, Asked, Greeted, Live
  <2>4. LinksInv'
    BY <2>1, <2>3 DEF IInv, LinksInv, TypeOK
  <2>5. FrameInv'
    BY <2>1, <2>3, KeepFrame DEF IInv
  <2>6. SayInv'
    BY <2>1, <2>3, KeepSay, WordStays DEF IInv
  <2> QED
    BY <2>2, <2>3, <2>4, <2>5, <2>6 DEF IInv
<1>2. CASE Greet
  BY <1>2, GreetKeeps DEF Greet, sockets, Connected
<1>3. CASE HandlePause
  BY <1>3, PauseKeeps DEF HandlePause, sockets, Connected
<1>13. CASE HandleZone
  BY <1>13, ZoneKeeps DEF HandleZone, sockets, Connected
<1>4. CASE Select
  <2>1. Connected \subseteq Connected'
    <3>1. clients \in Seq(Links) /\ backlog \in Seq(Links)
      BY Typed DEF IInv
    <3>2. clients' = clients \/ (backlog # <<>> /\ clients' = Append(clients, Head(backlog)))
      BY <1>4 DEF Select
    <3>3. backlog # <<>> => Head(backlog) \in Links
      BY <3>1, RangeOf
    <3>4. \A c \in Links : Range(clients) \subseteq Range(Append(clients, c))
      BY <3>1, RangeOf
    <3> QED
      BY <3>2, <3>3, <3>4 DEF Connected
  <2> QED
    BY <1>4, <2>1, SelectKeeps
<1>5. CASE SendMessage
  BY <1>5, SendKeeps
<1>6. CASE Receive
  BY <1>6, ReceiveKeeps
<1>7. CASE EndUpdate
  BY <1>7, EndKeeps DEF EndUpdate, Connected
<1>8. ASSUME NEW d \in Debuggers, Connect(d)
      PROVE  IInv' /\ Connected' = Connected
  BY <1>8, ConnectKeeps DEF Connect, Connected
<1>9. ASSUME NEW d \in Debuggers, Disconnect(d)
      PROVE  IInv' /\ Connected' = Connected
  BY <1>9, DisconnectKeeps DEF Disconnect, sockets, Connected
<1>10. ASSUME NEW d \in Debuggers, TogglePause(d)
       PROVE  IInv' /\ Connected' = Connected
  BY <1>10, ToggleKeeps DEF TogglePause, sockets, Connected
<1>11. ASSUME NEW d \in Debuggers, ReadTcpData(d)
       PROVE  IInv' /\ Connected' = Connected
  BY <1>11, ReadKeeps DEF ReadTcpData, sockets, Connected
<1>12. ASSUME NEW c \in Links, Refuse(c)
       PROVE  IInv' /\ Connected' = Connected
  BY <1>12, RefuseKeeps DEF Refuse, sockets, Connected
<1> QED
  BY <1>1, <1>2, <1>3, <1>4, <1>5, <1>6, <1>7, <1>8, <1>9, <1>10, <1>11, <1>12, <1>13
  DEF Next, Update

LEMMA Invariance == Spec => []IInv
<1>1. Init => IInv
  BY InitHolds
<1>2. IInv /\ [Next]_vars => IInv'
  BY NextKeeps
<1> QED
  BY <1>1, <1>2, PTL DEF Spec

\* A debugger that has read all it was sent shows the pause state of the server
\* (AIDebugger.cpp:79), wherever the buffers are cut, unless the link is stale: it
\* was told a state that was over (ServerImpl.h:258), or nobody was told the change
\* (l. 239).  What is under way to it ends with the state it was told last.
THEOREM ViewsAlwaysAgree == Spec => []ViewsAgree
<1>1. IInv => ViewsAgree
  <2> SUFFICES ASSUME IInv PROVE ViewsAgree
    OBVIOUS
  <2>1. TypeOK /\ SayInv
    BY DEF IInv
  <2>2. ASSUME NEW c \in Links, Live(c), Greeted(c), Path(c) = <<>>, c[1] \notin torn
        PROVE  view[c[1]] = pause <=> c \notin stale
    <3>1. LastState(Word(c), Whole(Path(c)), view[c[1]])
      BY <2>1, <2>2 DEF SayInv, Sound
    <3>2. Whole(Path(c)) = <<>>
      BY <2>2, EmptyIsFramed
    <3>3. view[c[1]] = Word(c)
      BY <3>1, <3>2, SaysNothing
    <3>4. pause \in States
      BY <2>1 DEF TypeOK
    <3> QED
      BY <3>3, <3>4 DEF Word, Other, States
  <2> QED
    BY <2>1, <2>2 DEF ViewsAgree, ViewAgrees
<1> QED
  BY <1>1, Invariance, PTL

\* The server closes the sockets of debuggers that are gone, and no others
\* (NetworkImpl.h:207, 217): a reset comes from one that is gone, and what is in
\* a buffer of the server is never a message it does not know.
THEOREM OnlyTheGoneAreClosed == Spec => ClosesOnlyTheGone
<1>1. IInv /\ [Next]_vars => [\A c \in Connected \ Connected' : ~Live(c)]_vars
  BY NextKeeps
<1> QED
  BY <1>1, Invariance, PTL DEF Spec, ClosesOnlyTheGone

----------------------------------------------------------------------------
(* The queues of DebugLink                                                 *)

LEMMA SameStates ==
  /\ Queues!States = States
  /\ \A v, ms, old : Queues!LastState(v, ms, old) <=> LastState(v, ms, old)
BY DEF Queues!States, States, Queues!LastState, LastState

LEMMA Stutters ==
  ASSUME \A c \in Links : News(c)' = News(c) /\ Wishes(c)' = Wishes(c),
         \A d \in Debuggers : Shows(d)' = Shows(d)
  PROVE  UNCHANGED Queues!vars
<1>1. [c \in Links |-> News(c)]' = [c \in Links |-> News(c)]
  OBVIOUS
<1>2. [c \in Links |-> Wishes(c)]' = [c \in Links |-> Wishes(c)]
  OBVIOUS
<1>3. [d \in Debuggers |-> Shows(d)]' = [d \in Debuggers |-> Shows(d)]
  OBVIOUS
<1> QED
  BY <1>1, <1>2, <1>3 DEF Queues!vars

LEMMA Tells ==
  ASSUME NEW to \in SUBSET Links, NEW m \in Messages,
         \A c \in Links : News(c)' = IF c \in to THEN Append(News(c), m) ELSE News(c),
         \A c \in Links : Wishes(c)' = Wishes(c),
         \A d \in Debuggers : Shows(d)' = Shows(d)
  PROVE  Queues!Next
<1> DEFINE news == [c \in Links |-> News(c)]
<1>1. news' = [c \in Links |-> IF c \in to THEN Append(news[c], m) ELSE news[c]]
  OBVIOUS
<1>2. [c \in Links |-> Wishes(c)]' = [c \in Links |-> Wishes(c)]
  OBVIOUS
<1>3. [d \in Debuggers |-> Shows(d)]' = [d \in Debuggers |-> Shows(d)]
  OBVIOUS
<1>4. Queues!Tell(to, m)
  BY <1>1, <1>2, <1>3 DEF Queues!Tell
<1>5. m \in Queues!States \union {"ping"}
  BY SameStates DEF Messages
<1> QED
  BY <1>4, <1>5 DEF Queues!Next

LEMMA Hears ==
  ASSUME NEW c \in Links, Wishes(c) # <<>>, Wishes(c)' = Tail(Wishes(c)),
         \A b \in Links : News(b)' = News(b),
         \A b \in Links \ {c} : Wishes(b)' = Wishes(b),
         \A d \in Debuggers : Shows(d)' = Shows(d)
  PROVE  Queues!Next
<1> DEFINE wishes == [b \in Links |-> Wishes(b)]
<1>1. wishes' = [wishes EXCEPT ![c] = Tail(@)]
  OBVIOUS
<1>2. [b \in Links |-> News(b)]' = [b \in Links |-> News(b)]
  OBVIOUS
<1>3. [d \in Debuggers |-> Shows(d)]' = [d \in Debuggers |-> Shows(d)]
  OBVIOUS
<1>4. wishes[c] # <<>>
  OBVIOUS
<1>5. Queues!Hear(c)
  BY <1>1, <1>2, <1>3, <1>4 DEF Queues!Hear
<1> QED
  BY <1>5 DEF Queues!Next

LEMMA Asks ==
  ASSUME NEW c \in Links, NEW m \in States, Wishes(c)' = Append(Wishes(c), m),
         \A b \in Links : News(b)' = News(b),
         \A b \in Links \ {c} : Wishes(b)' = Wishes(b),
         \A d \in Debuggers : Shows(d)' = Shows(d)
  PROVE  Queues!Next
<1> DEFINE wishes == [b \in Links |-> Wishes(b)]
<1>1. wishes' = [wishes EXCEPT ![c] = Append(@, m)]
  OBVIOUS
<1>2. [b \in Links |-> News(b)]' = [b \in Links |-> News(b)]
  OBVIOUS
<1>3. [d \in Debuggers |-> Shows(d)]' = [d \in Debuggers |-> Shows(d)]
  OBVIOUS
<1>4. Queues!Ask(c, m)
  BY <1>1, <1>2, <1>3 DEF Queues!Ask
<1> QED
  BY <1>4, SameStates DEF Queues!Next

LEMMA Cuts ==
  ASSUME NEW c \in Links, News(c)' = <<>>,
         \A b \in Links \ {c} : News(b)' = News(b) /\ Wishes(b)' = Wishes(b),
         NEW n \in 0 .. Len(Wishes(c)), Wishes(c)' = SubSeq(Wishes(c), 1, n),
         NEW d \in Debuggers, d = c[1], Shows(d)' = Shows(d) \/ Shows(d)' = "running",
         \A e \in Debuggers \ {d} : Shows(e)' = Shows(e)
  PROVE  Queues!Next
<1> DEFINE news == [b \in Links |-> News(b)]
           wishes == [b \in Links |-> Wishes(b)]
           shows == [e \in Debuggers |-> Shows(e)]
<1>1. news' = [news EXCEPT ![c] = <<>>]
  OBVIOUS
<1>2. wishes' = [wishes EXCEPT ![c] = SubSeq(@, 1, n)] /\ n \in 0 .. Len(wishes[c])
  OBVIOUS
<1>3. shows' = shows \/ shows' = [shows EXCEPT ![d] = "running"]
  OBVIOUS
<1>4. Queues!Cut(c)
  BY <1>1, <1>2, <1>3 DEF Queues!Cut
<1> QED
  BY <1>4 DEF Queues!Next

LEMMA Learns ==
  ASSUME NEW c \in Links, NEW n \in 1 .. Len(News(c)),
         News(c)' = SubSeq(News(c), n + 1, Len(News(c))),
         \A b \in Links \ {c} : News(b)' = News(b),
         \A b \in Links : Wishes(b)' = Wishes(b),
         NEW d \in Debuggers, d = c[1], NEW v \in States, Shows(d)' = v,
         LastState(v, SubSeq(News(c), 1, n), Shows(d)),
         \A e \in Debuggers \ {d} : Shows(e)' = Shows(e)
  PROVE  Queues!Next
<1> DEFINE news == [b \in Links |-> News(b)]
           wishes == [b \in Links |-> Wishes(b)]
           shows == [e \in Debuggers |-> Shows(e)]
<1>1. news' = [news EXCEPT ![c] = SubSeq(@, n + 1, Len(@))] /\ news[c] = News(c)
  OBVIOUS
<1>2. wishes' = wishes
  OBVIOUS
<1>3. shows' = [shows EXCEPT ![d] = v] /\ shows[d] = Shows(d)
  OBVIOUS
<1>4. v \in Queues!States /\ Queues!LastState(v, SubSeq(News(c), 1, n), Shows(d))
  BY SameStates
<1>5. Queues!Learn(c, n)
  BY <1>1, <1>2, <1>3, <1>4 DEF Queues!Learn
<1>6. n \in 1 .. Len(news[c])
  BY <1>1
<1> QED
  BY <1>5, <1>6 DEF Queues!Next

\* What is on its way to a debugger that is not there, or not sound, is not seen.
LEMMA NewsIs ==
  ASSUME NEW c \in Links
  PROVE  /\ Sound(c) => News(c) = Whole(Path(c))
         /\ ~Sound(c) => News(c) = <<>>
         /\ Wishes(c) = Whole(Asked(c))
BY DEF News, Wishes, Sound, Asked

\* A message that is sent is told to the debuggers that are sound.
LEMMA SendRefines ==
  ASSUME IInv, NEW to \in SUBSET Links, NEW m \in Messages, Send(to, m),
         UNCHANGED <<down, stream, in, up, link, open, torn, view>>
  PROVE  Queues!Next
<1>1. TypeOK /\ FrameInv
  BY DEF IInv
<1>2. \A c \in Links : Path(c)' = IF c \in to THEN Path(c) \o Frame(m) ELSE Path(c)
  BY <1>1, SendIs
<1> DEFINE t == {c \in to : Sound(c)}
<1>3. ASSUME NEW c \in Links PROVE News(c)' = IF c \in t THEN Append(News(c), m) ELSE News(c)
  <2>1. Sound(c)' <=> Sound(c)
    BY DEF Sound, Live
  <2>2. News(c)' = IF Sound(c) THEN Whole(Path(c)') ELSE <<>>
    BY <2>1 DEF News, Sound
  <2>3. CASE Sound(c) /\ c \in to
    <3>1. Whole(Path(c) \o Frame(m)) = Append(Whole(Path(c)), m)
      BY <1>1, <2>3, Paths, FrameAppend DEF FrameInv
    <3> QED
      BY <1>2, <2>2, <2>3, <3>1, NewsIs
  <2>4. CASE ~Sound(c) \/ c \notin to
    BY <1>2, <2>2, <2>4, NewsIs
  <2> QED
    BY <2>3, <2>4
<1>4. \A c \in Links : Wishes(c)' = Wishes(c)
  BY DEF Wishes
<1>5. \A d \in Debuggers : Shows(d)' = Shows(d)
  BY DEF Shows
<1>6. t \in SUBSET Links
  OBVIOUS
<1> HIDE DEF t
<1> QED
  BY <1>3, <1>4, <1>5, <1>6, Tells

\* When the server closes a socket, the connection is cut.
LEMMA CloseRefines ==
  ASSUME IInv, NEW c \in Links, c \in reset, Close(c),
         UNCHANGED <<stream, link, open, torn, view>>
  PROVE  Queues!Next
<1>1. TypeOK /\ ~Live(c)
  BY DEF IInv, LinksInv
<1>2. /\ in' = [in EXCEPT ![c] = <<>>] /\ up' = [up EXCEPT ![c] = <<>>]
      /\ out' = [out EXCEPT ![c] = <<>>] /\ down' = [down EXCEPT ![c] = <<>>]
      /\ in \in [Links -> Seq(Unit)] /\ up \in [Links -> Seq(Unit)]
      /\ out \in [Links -> Seq(Unit)] /\ down \in [Links -> Seq(Unit)]
  BY <1>1, Typed DEF Close
<1>3. \A b \in Links \ {c} : News(b)' = News(b) /\ Wishes(b)' = Wishes(b)
  BY <1>2 DEF News, Wishes, Live, Path
<1>4. News(c)' = <<>>
  BY <1>1 DEF News, Live
<1>5. Wishes(c)' = <<>>
  <2>1. in'[c] = <<>> /\ up'[c] = <<>> /\ <<>> \o <<>> = <<>>
    BY <1>2
  <2>2. Wishes(c)' = Whole(in'[c] \o up'[c])
    BY DEF Wishes, Whole
  <2> QED
    BY <2>1, <2>2, EmptyIsFramed
<1>6. 0 \in 0 .. Len(Wishes(c)) /\ SubSeq(Wishes(c), 1, 0) = <<>>
  <2>1. Wishes(c) \in Seq(Messages)
    BY <1>1, NewsIs, Paths, WholeOf
  <2> QED
    BY <2>1, SubSeqEmpty
<1>7. PICK d \in Debuggers : d = c[1]
  BY <1>1, Typed
<1>8. \A e \in Debuggers : Shows(e)' = Shows(e)
  BY DEF Shows
<1> QED
  BY <1>3, <1>4, <1>5, <1>6, <1>7, <1>8, Cuts

\* What leaves the paths and the shown states alone is not seen.
LEMMA PathsRefine ==
  ASSUME UNCHANGED <<link, open, torn, view>>,
         \A c \in Links : Path(c)' = Path(c),
         \A c \in Links : Asked(c)' = Asked(c)
  PROVE  UNCHANGED Queues!vars
<1>1. ASSUME NEW c \in Links PROVE News(c)' = News(c) /\ Wishes(c)' = Wishes(c)
  <2>1. Path(c)' = Path(c) /\ Asked(c)' = Asked(c) /\ (Sound(c)' <=> Sound(c))
    BY DEF Sound, Live
  <2>2. News(c)' = (IF Sound(c)' THEN Whole(Path(c)') ELSE <<>>) /\ Wishes(c)' = Whole(Asked(c)')
    BY DEF News, Sound, Wishes, Asked, Whole
  <2> QED
    BY <2>1, <2>2, NewsIs
<1>2. \A d \in Debuggers : Shows(d)' = Shows(d)
  BY DEF Shows
<1> QED
  BY <1>1, <1>2, Stutters

LEMMA SendMessageRefines ==
  ASSUME IInv, SendMessage
  PROVE  Queues!Next \/ UNCHANGED Queues!vars
<1>1. TypeOK
  BY DEF IInv
<1>2. UNCHANGED <<stream, link, open, torn, view>>
  BY DEF SendMessage, debugger
<1>3. PICK c \in Links : c = Head(turn)
  BY <1>1, Typed, HeadTailProperties DEF SendMessage
<1>4. CASE c \in reset /\ Close(c)
  BY <1>2, <1>4, CloseRefines
<1>5. CASE UNCHANGED <<out, in, tcp>>
  <2>1. UNCHANGED <<out, in, down, up, stream>>
    BY <1>2, <1>5 DEF tcp
  <2>2. \A b \in Links : Path(b)' = Path(b) /\ Asked(b)' = Asked(b)
    BY <2>1 DEF Path, Asked
  <2> QED
    BY <1>2, <2>2, PathsRefine
<1>6. CASE SendsOn(c)
  <2>1. \A b \in Links : Path(b)' = Path(b) /\ Asked(b)' = Asked(b)
    BY <1>6 DEF SendsOn, Asked
  <2> QED
    BY <1>2, <2>1, PathsRefine
<1> QED
  BY <1>1, <1>3, <1>4, <1>5, <1>6, SendIsOn

LEMMA ReceiveRefines ==
  ASSUME IInv, Receive
  PROVE  Queues!Next \/ UNCHANGED Queues!vars
<1>1. TypeOK
  BY DEF IInv
<1>2. PICK c \in Links : c = Head(turn)
  BY <1>1, ReceiveIs
<1>3. /\ UNCHANGED <<stream, link, open, torn, view>>
      /\ \/ c \in reset /\ Close(c)
         \/ \E n \in 0 .. Len(up[c]) : Take(c, n)
  BY <1>1, <1>2, ReceiveIs DEF debugger
<1>4. CASE c \in reset /\ Close(c)
  BY <1>3, <1>4, CloseRefines
<1>5. ASSUME NEW n \in 0 .. Len(up[c]), Take(c, n)
      PROVE  Queues!Next \/ UNCHANGED Queues!vars
  <2>1. /\ UNCHANGED <<out, down>>
        /\ \A d \in Links \ {c} : Asked(d)' = Asked(d)
        /\ \/ Asked(c)' = Asked(c)
           \/ Whole(Asked(c)) # <<>> /\ Whole(Asked(c)') = Tail(Whole(Asked(c)))
    BY <1>5, TakeIs
  <2>2. \A d \in Links : Path(d)' = Path(d)
    BY <1>3, <2>1 DEF Path
  <2>3. CASE Asked(c)' = Asked(c)
    BY <1>3, <2>1, <2>2, <2>3, PathsRefine
  <2>4. CASE Whole(Asked(c)) # <<>> /\ Whole(Asked(c)') = Tail(Whole(Asked(c)))
    <3>1. ASSUME NEW b \in Links PROVE News(b)' = News(b) /\ Wishes(b)' = Whole(Asked(b)')
      BY <1>3, <2>2 DEF News, Live, Wishes, Asked, Whole
    <3>2. Wishes(c) # <<>> /\ Wishes(c)' = Tail(Wishes(c))
      BY <2>4, <3>1, NewsIs
    <3>3. \A b \in Links \ {c} : Wishes(b)' = Wishes(b)
      BY <2>1, <3>1, NewsIs
    <3>4. \A d \in Debuggers : Shows(d)' = Shows(d)
      BY <1>3 DEF Shows
    <3> QED
      BY <3>1, <3>2, <3>3, <3>4, Hears
  <2> QED
    BY <2>1, <2>3, <2>4
<1> QED
  BY <1>3, <1>4, <1>5

LEMMA ConnectRefines ==
  ASSUME IInv, NEW d \in Debuggers, Connect(d)
  PROVE  UNCHANGED Queues!vars
<1>1. TypeOK /\ FrameInv
  BY DEF IInv
<1>2. PICK c : /\ c = <<d, link[d] + 1>> /\ c \in Links
               /\ \A e \in Debuggers \ {d} : link'[e] = link[e]
               /\ ~Live(c) /\ Path(c) = stream[d]
               /\ \A b \in Links \ {c} : Live(b)' => Live(b)
  BY ConnectIs
<1>3. /\ open' = open \union {d} /\ d \notin open
      /\ UNCHANGED <<in, out, down, up, stream, view, torn>>
  BY DEF Connect, tcp
<1>4. \A b \in Links : Path(b)' = Path(b) /\ Asked(b)' = Asked(b)
  BY <1>3 DEF Path, Asked
<1>5. ASSUME NEW b \in Links PROVE News(b)' = News(b)
  <2>1. News(b)' = IF Sound(b)' THEN Whole(Path(b)) ELSE <<>>
    BY <1>4 DEF News, Sound
  <2>2. CASE b = c
    <3>1. ~Sound(c) /\ (Sound(c)' => d \notin open \union torn)
      BY <1>2, <1>3 DEF Sound
    <3>2. Sound(c)' => Path(c) = <<>>
      BY <1>1, <1>2, <3>1 DEF FrameInv
    <3> QED
      BY <2>1, <2>2, <3>1, <3>2, NewsIs, EmptyIsFramed
  <2>3. CASE b # c
    <3>1. Sound(b)' <=> Sound(b)
      <4>1. b[1] \in Debuggers
        BY <1>1, Typed
      <4>2. Live(b) => b[1] # d
        BY <1>3 DEF Live
      <4>3. Live(b) => Live(b)'
        BY <1>2, <1>3, <4>1, <4>2 DEF Live
      <4> QED
        BY <1>2, <1>3, <2>3, <4>3 DEF Sound
    <3> QED
      BY <2>1, <3>1, NewsIs
  <2> QED
    BY <2>2, <2>3
<1>6. \A b \in Links : Wishes(b)' = Wishes(b)
  BY <1>3 DEF Wishes
<1>7. \A e \in Debuggers : Shows(e)' = Shows(e)
  BY <1>3 DEF Shows
<1> QED
  BY <1>5, <1>6, <1>7, Stutters

LEMMA DisconnectRefines ==
  ASSUME IInv, NEW d \in Debuggers, Disconnect(d)
  PROVE  Queues!Next
<1>1. TypeOK /\ LinksInv
  BY DEF IInv
<1>2. /\ open' = open \ {d} /\ view' = [view EXCEPT ![d] = "running"] /\ d \in open
      /\ torn' = (IF stream[d] = <<>> THEN torn ELSE torn \union {d})
      /\ UNCHANGED <<in, out, down, up, stream, link>>
  BY DEF Disconnect, Left, sockets, tcp
<1>3. PICK c : c = <<d, link[d]>>
  OBVIOUS
<1>4. c \in Links /\ c[1] = d
  <2>1. link[d] \in 1 .. MaxLinks
    BY <1>1, <1>2, RemoteAssumption DEF LinksInv, TypeOK
  <2> QED
    BY <1>3, <2>1 DEF Links
<1>5. News(c)' = <<>>
  BY <1>2, <1>4 DEF News, Live
<1>6. ASSUME NEW b \in Links \ {c} PROVE News(b)' = News(b) /\ Wishes(b)' = Wishes(b)
  <2>1. b = <<b[1], b[2]>> /\ Path(b)' = Path(b)
    BY <1>2 DEF Links, Path
  <2>2. Live(b) => b[1] # d
    BY <1>3, <1>6, <2>1 DEF Live
  <2>3. Sound(b)' <=> Sound(b)
    BY <1>2, <2>2 DEF Sound, Live
  <2>4. News(b)' = IF Sound(b)' THEN Whole(Path(b)) ELSE <<>>
    BY <2>1 DEF News, Sound
  <2> QED
    BY <1>2, <2>3, <2>4, NewsIs DEF Wishes
<1>7. Wishes(c)' = Wishes(c) /\ Wishes(c) \in Seq(Messages)
  BY <1>1, <1>2, <1>4, Paths, NewsIs, WholeOf DEF Wishes
<1>8. Len(Wishes(c)) \in 0 .. Len(Wishes(c)) /\ Wishes(c)' = SubSeq(Wishes(c), 1, Len(Wishes(c)))
  BY <1>7, SubSeqFull
<1>9. Shows(d)' = "running" /\ \A e \in Debuggers \ {d} : Shows(e)' = Shows(e)
  BY <1>1, <1>2 DEF Shows, TypeOK
<1> QED
  BY <1>4, <1>5, <1>6, <1>8, <1>9, Cuts

LEMMA ToggleRefines ==
  ASSUME IInv, NEW d \in Debuggers, TogglePause(d)
  PROVE  Queues!Next
<1>1. TypeOK /\ FrameInv
  BY DEF IInv
<1>2. PICK c \in Links, m \in States :
           /\ Live(c) /\ m \in Messages
           /\ Asked(c)' = Join(Asked(c), Frame(m))
           /\ \A b \in Links \ {c} : Asked(b)' = Asked(b)
  BY ToggleIs
<1>3. UNCHANGED <<out, down, link, open, stream, view, torn>>
  BY DEF TogglePause, Shown
<1>4. \A b \in Links : News(b)' = News(b) /\ Wishes(b)' = Whole(Asked(b)')
  BY <1>3 DEF News, Live, Path, Wishes, Asked, Whole
<1>5. Wishes(c)' = Append(Wishes(c), m)
  <2>1. Whole(Asked(c) \o Frame(m)) = Append(Whole(Asked(c)), m)
    BY <1>1, <1>2, Paths, FrameAppend DEF FrameInv
  <2> QED
    BY <1>2, <1>4, <2>1, NewsIs DEF Join
<1>6. \A b \in Links \ {c} : Wishes(b)' = Wishes(b)
  BY <1>2, <1>4, NewsIs
<1>7. \A e \in Debuggers : Shows(e)' = Shows(e)
  BY <1>3 DEF Shows
<1> QED
  BY <1>4, <1>5, <1>6, <1>7, Asks

LEMMA ReadRefines ==
  ASSUME IInv, NEW d \in Debuggers, ReadTcpData(d)
  PROVE  Queues!Next \/ UNCHANGED Queues!vars
<1>1. TypeOK
  BY DEF IInv
<1>2. PICK c \in Links :
        /\ c[1] = d /\ Live(c)
        /\ view' \in [Debuggers -> States]
        /\ \A b \in Links \ {c} : down'[b] = down[b]
        /\ \A e \in Debuggers \ {d} : stream'[e] = stream[e] /\ view'[e] = view[e]
        /\ open' = open \/ (open' = open \ {d} /\ d \in torn)
        /\ d \notin torn => ReadsOn(c, d)
  BY ReadIs DEF Reads
<1>3. UNCHANGED <<in, up, out, link, torn>>
  BY DEF ReadTcpData, sockets
<1>4. ASSUME NEW b \in Links, b[1] # d PROVE News(b)' = News(b)
  <2>1. b # c /\ b[1] \in Debuggers
    BY <1>1, <1>2, <1>4, Typed
  <2>2. down'[b] = down[b] /\ stream'[b[1]] = stream[b[1]] /\ out' = out
    BY <1>2, <1>3, <1>4, <2>1
  <2>3. Path(b)' = Path(b) /\ (Sound(b)' <=> Sound(b))
    BY <1>2, <1>3, <1>4, <2>2 DEF Path, Sound, Live
  <2>4. News(b)' = IF Sound(b)' THEN Whole(Path(b)') ELSE <<>>
    BY DEF News, Sound, Whole
  <2> QED
    BY <2>3, <2>4, NewsIs
<1>5. ASSUME NEW b \in Links \ {c}, b[1] = d PROVE News(b)' = News(b)
  <2>1. b = <<b[1], b[2]>> /\ c = <<c[1], c[2]>>
    BY DEF Links
  <2>2. link[d] # b[2]
    BY <1>2, <1>5, <2>1 DEF Live
  <2> QED
    BY <1>3, <1>5, <2>2 DEF News, Live
<1>6. \A b \in Links : Wishes(b)' = Wishes(b)
  BY <1>3 DEF Wishes
<1>7. \A e \in Debuggers \ {d} : Shows(e)' = Shows(e)
  BY <1>2, <1>3 DEF Shows
<1>8. CASE d \in torn
  <2>1. News(c)' = <<>> /\ News(c) = <<>> /\ Shows(d)' = Shows(d)
    BY <1>2, <1>3, <1>8 DEF News, Shows
  <2> QED
    BY <1>4, <1>5, <1>6, <1>7, <2>1, Stutters
<1>9. CASE d \notin torn
  <2>1. Sound(c) /\ Sound(c)'
    BY <1>2, <1>3, <1>9 DEF Sound, Live
  <2>2. News(c) = Whole(Path(c)) /\ News(c)' = Whole(Path(c)')
    BY <2>1 DEF News, Sound, Whole
  <2>3. PICK k \in 0 .. Len(News(c)) :
          /\ News(c)' = SubSeq(News(c), k + 1, Len(News(c)))
          /\ LastState(view'[d], SubSeq(News(c), 1, k), view[d])
    BY <1>2, <1>9, <2>2 DEF ReadsOn
  <2>4. Shows(d)' = view'[d] /\ Shows(d) = view[d] /\ view'[d] \in States
    BY <1>2, <1>3, <1>9 DEF Shows
  <2>5. News(c) \in Seq(Messages)
    BY <1>1, <2>2, Paths, WholeOf
  <2>6. CASE k = 0
    <3>1. SubSeq(News(c), 1, 0) = <<>> /\ SubSeq(News(c), 0 + 1, Len(News(c))) = News(c)
      BY <2>5, SubSeqEmpty, SubSeqFull
    <3>2. LastState(view'[d], <<>>, view[d]) /\ News(c)' = News(c)
      BY <2>3, <2>6, <3>1
    <3>3. Shows(d)' = Shows(d)
      BY <2>4, <3>2, SaysNothing
    <3> QED
      BY <1>4, <1>5, <1>6, <1>7, <3>2, <3>3, Stutters
  <2>7. CASE k # 0
    <3>1. k \in 1 .. Len(News(c))
      BY <2>5, <2>7
    <3>2. \A b \in Links \ {c} : News(b)' = News(b)
      BY <1>4, <1>5
    <3>3. LastState(view'[d], SubSeq(News(c), 1, k), Shows(d))
      BY <2>3, <2>4
    <3> QED
      BY <1>2, <1>6, <1>7, <2>3, <2>4, <3>1, <3>2, <3>3, Learns
  <2> QED
    BY <2>6, <2>7
<1> QED
  BY <1>8, <1>9

LEMMA RefuseRefines ==
  ASSUME IInv, NEW c \in Links, Refuse(c)
  PROVE  Queues!Next
<1>1. TypeOK
  BY DEF IInv
<1>2. /\ \A b \in Links \ {c} : down'[b] = down[b] /\ Asked(b)' = Asked(b)
      /\ ~Live(c)
      /\ \E k \in 0 .. Len(Whole(Asked(c))) : Whole(Asked(c)') = SubSeq(Whole(Asked(c)), 1, k)
  BY RefuseIs
<1>3. UNCHANGED <<out, link, open, stream, view, torn>>
  BY DEF Refuse, debugger
<1>4. \A b \in Links : Wishes(b)' = Whole(Asked(b)')
  BY DEF Wishes, Asked, Whole
<1>5. \A b \in Links \ {c} : News(b)' = News(b) /\ Wishes(b)' = Wishes(b)
  BY <1>2, <1>3, <1>4, NewsIs DEF News, Live, Path
<1>6. News(c)' = <<>>
  BY <1>2, <1>3 DEF News, Live
<1>7. PICK k \in 0 .. Len(Wishes(c)) : Wishes(c)' = SubSeq(Wishes(c), 1, k)
  BY <1>2, <1>4, NewsIs
<1>8. PICK d \in Debuggers : d = c[1]
  BY <1>1, Typed
<1>9. \A e \in Debuggers : Shows(e)' = Shows(e)
  BY <1>3 DEF Shows
<1> QED
  BY <1>5, <1>6, <1>7, <1>8, <1>9, Cuts

LEMMA StepRefines ==
  ASSUME IInv, [Next]_vars
  PROVE  [Queues!Next]_(Queues!vars)
<1>1. CASE UNCHANGED vars
  <2>1. UNCHANGED <<in, up, out, down, stream, link, open, torn, view>>
    BY <1>1 DEF vars, sockets, tcp, debugger
  <2> QED
    BY <2>1, PathsRefine DEF Path, Asked
<1>2. CASE Greet
  <2>1. PICK c : c = Head(events)[2]
    OBVIOUS
  <2>2. /\ Send({c}, lpause) /\ UNCHANGED <<down, stream, in, up, link, open, torn, view>>
        /\ events # <<>> /\ Head(events)[1] = "connect"
    BY <1>2, <2>1, BatchIs DEF IInv, TypeOK, Greet, Handling, sockets, tcp, debugger
  <2>3. c \in Links /\ lpause \in Messages
    <3>1. Head(events) \in Events /\ lpause \in States
      BY <1>2, <2>2, NextEvent DEF IInv, TypeOK, Greet
    <3> QED
      BY <2>1, <2>2, <3>1 DEF Events, Messages
  <2> QED
    BY <2>2, <2>3, SendRefines
<1>3. CASE HandlePause
  <2>1. /\ Send(Told, pause') /\ UNCHANGED <<down, stream, in, up, link, open, torn, view>>
        /\ events # <<>> /\ Head(events)[1] = "pause" /\ pause' = Head(events)[2]
    BY <1>3, BatchIs DEF IInv, TypeOK, HandlePause, Handling, sockets, tcp, debugger
  <2>2. pause' \in Messages
    <3>1. Head(events) \in Events
      BY <1>3, <2>1, NextEvent DEF IInv, TypeOK, HandlePause
    <3> QED
      BY <2>1, <3>1 DEF Events, Messages
  <2>3. Told \in SUBSET Links
    BY ConnectedIs DEF IInv, Told
  <2> QED
    BY <2>1, <2>2, <2>3, SendRefines
<1>8. CASE HandleZone
  <2>1. UNCHANGED <<in, up, out, down, stream, link, open, torn, view>>
    BY <1>8 DEF HandleZone, sockets, tcp
  <2> QED
    BY <2>1, PathsRefine DEF Path, Asked
<1>4. CASE Select
  <2>1. Send(Pinged, "ping") /\ UNCHANGED <<down, stream, in, up, link, open, torn, view>>
    BY <1>4 DEF Select, tcp, debugger
  <2>2. Pinged \in SUBSET Links /\ "ping" \in Messages
    BY ConnectedIs DEF IInv, Pinged, Messages
  <2> QED
    BY <2>1, <2>2, SendRefines
<1>5. CASE SendMessage
  BY <1>5, SendMessageRefines
<1>6. CASE Receive
  BY <1>6, ReceiveRefines
<1>7. CASE EndUpdate
  <2>1. UNCHANGED <<in, up, out, down, stream, link, open, torn, view>>
    BY <1>7 DEF EndUpdate, tcp, debugger
  <2> QED
    BY <2>1, PathsRefine DEF Path, Asked
<1> QED
  BY <1>1, <1>2, <1>3, <1>4, <1>5, <1>6, <1>7, <1>8, ConnectRefines, DisconnectRefines, ToggleRefines, ReadRefines,
     RefuseRefines DEF Next, Update

LEMMA InitRefines ==
  ASSUME Init
  PROVE  Queues!Init
<1>1. \A c \in Links : News(c) = <<>> /\ Wishes(c) = <<>>
  <2>1. \A c \in Links : ~Live(c) /\ in[c] = <<>> /\ up[c] = <<>>
    BY DEF Init, Live
  <2>2. <<>> \o <<>> = <<>>
    OBVIOUS
  <2> QED
    BY <2>1, <2>2, EmptyIsFramed DEF News, Wishes
<1>2. \A d \in Debuggers : Shows(d) = "running"
  BY DEF Init, Shows
<1> QED
  BY <1>1, <1>2 DEF Queues!Init

\* Wherever the buffers of the server, of TCP and of the debugger are cut, each
\* direction of a connection is a queue of whole messages (NetworkImpl.h:207,
\* AIDebugger.cpp:248): the steps of the wire are those of DebugLink, or none.
THEOREM MessagesAreQueued == Spec => QueuesSpec
<1>1. Init => Queues!Init
  BY InitRefines
<1>2. IInv /\ [Next]_vars => [Queues!Next]_(Queues!vars)
  BY StepRefines
<1> QED
  BY <1>1, <1>2, Invariance, PTL DEF Spec, QueuesSpec, Queues!Spec
=============================================================================
