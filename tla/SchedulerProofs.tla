-------------------------- MODULE SchedulerProofs --------------------------
(***************************************************************************)
(* What the scheduler of simpleai-run guarantees for any number of users,  *)
(* timers and periods, and however late the thread or the clock is: the    *)
(* invariants of Scheduler, and that it implements TimerService.           *)
(***************************************************************************)
EXTENDS Scheduler, FiniteSets, SequenceTheorems, FiniteSetTheorems, TLAPS

NoTwice(s) == \A i, j \in DOMAIN s : s[i].id = s[j].id => i = j

\* Every timer has an id of its own and is in the heap or with the call that will
\* put it there; a cancelled one is in neither.
IdsInv ==
  /\ NoTwice(tasks)
  /\ \A t \in ToSet(tasks) : t.id <= timerId /\ t.id \notin cancelled
  /\ \A u \in Users : call[u] # NoCall =>
       /\ call[u].id <= timerId /\ call[u].id \notin cancelled
       /\ \A t \in ToSet(tasks) : t.id # call[u].id
       /\ \A v \in Users : call[v] # NoCall /\ call[v].id = call[u].id => v = u
  /\ \A id \in cancelled : id <= timerId

\* The thread has the mutex while it looks at the heap, and runs what is on top.
ThreadInv ==
  /\ locked <=> pc \in {"look", "run", "after"}
  /\ pc = "run" => TopDue

IInv == TypeOK /\ IdsInv /\ ThreadInv /\ NotForgotten /\ NothingRunsAfter

LEMMA Bounds ==
  MaxTimers \in Nat /\ MaxLate \in Nat \ {0} /\ Firsts \subseteq Nat /\ Periods \subseteq Nat
BY SchedulerAssumption

----------------------------------------------------------------------------
(* The array of the heap                                                   *)

\* Whatever order the elements end up in, they are the same.
LEMMA ArrangedTasks ==
  ASSUME NEW S, NEW s \in Seq(S), NEW sound, NEW q \in Arranged(s, sound)
  PROVE  /\ q \in Seq(S)
         /\ ToSet(q) = ToSet(s)
         /\ q = <<>> <=> s = <<>>
         /\ NoTwice(s) => NoTwice(q)
<1> DEFINE n == Len(s)
<1>1. /\ n \in Nat /\ DOMAIN s = 1 .. n /\ s \in [1 .. n -> S]
      /\ q \in [1 .. n -> ToSet(s)] /\ ToSet(q) = ToSet(s)
      /\ ToSet(s) \subseteq S
  <2>1. q \in [1 .. n -> ToSet(s)] /\ ToSet(q) = ToSet(s)
    BY DEF Arranged
  <2>2. n \in Nat /\ DOMAIN s = 1 .. n /\ s \in [1 .. n -> S]
    OBVIOUS
  <2>3. ToSet(s) \subseteq S
    BY <2>2 DEF ToSet
  <2> QED
    BY <2>1, <2>2, <2>3
<1>2. q \in [1 .. n -> S]
  BY <1>1
<1>3. q \in Seq(S) /\ Len(q) = n
  BY <1>1, <1>2
<1>4. q = <<>> <=> s = <<>>
  BY <1>1, <1>3
<1>5. ASSUME NoTwice(s) PROVE NoTwice(q)
  <2>1. s \in Surjection(1 .. n, ToSet(s)) /\ s \in Injection(1 .. n, ToSet(s))
    <3>1. s \in [1 .. n -> ToSet(s)]
      BY <1>1 DEF ToSet
    <3>2. \A a, b \in 1 .. n : s[a] = s[b] => a = b
      BY <1>1, <1>5 DEF NoTwice
    <3>3. \A t \in ToSet(s) : \E a \in 1 .. n : s[a] = t
      BY <1>1 DEF ToSet
    <3> QED
      BY <1>1, <3>1, <3>2, <3>3 DEF Surjection, Injection, IsInjective
  <2>2. q \in Surjection(1 .. n, ToSet(s))
    BY <1>1 DEF Surjection, ToSet
  <2>3. IsFiniteSet(1 .. n)
    BY <1>1, FS_Interval
  <2>4. Cardinality(ToSet(s)) = Cardinality(1 .. n)
    BY <2>1, <2>3, FS_Surjection
  <2>5. q \in Injection(1 .. n, ToSet(s))
    BY <2>2, <2>3, <2>4, FS_Surjection
  <2> SUFFICES ASSUME NEW i \in 1 .. n, NEW j \in 1 .. n, q[i].id = q[j].id PROVE i = j
    BY <1>1 DEF NoTwice
  <2>6. PICK k \in 1 .. n, l \in 1 .. n : q[i] = s[k] /\ q[j] = s[l]
    BY <1>1 DEF ToSet
  <2>7. k = l
    BY <1>1, <1>5, <2>6 DEF NoTwice
  <2>8. q[i] = q[j]
    BY <2>6, <2>7
  <2> QED
    BY <1>1, <2>5, <2>8 DEF Injection, IsInjective
<1> QED
  BY <1>1, <1>3, <1>4, <1>5

LEMMA AppendTask ==
  ASSUME NEW S, NEW s \in Seq(S), NEW t \in S
  PROVE  /\ Append(s, t) \in Seq(S)
         /\ Append(s, t) # <<>>
         /\ ToSet(Append(s, t)) = ToSet(s) \union {t}
         /\ NoTwice(s) /\ (\A r \in ToSet(s) : r.id # t.id) => NoTwice(Append(s, t))
<1>1. /\ Append(s, t) \in Seq(S) /\ Len(s) \in Nat /\ Len(Append(s, t)) = Len(s) + 1
      /\ DOMAIN s = 1 .. Len(s)
      /\ DOMAIN Append(s, t) = 1 .. Len(s) + 1
      /\ \A i \in 1 .. Len(s) : Append(s, t)[i] = s[i]
      /\ Append(s, t)[Len(s) + 1] = t
  OBVIOUS
<1>2. Append(s, t) # <<>>
  <2>1. Len(s) + 1 # Len(<<>>)
    BY <1>1
  <2> QED
    BY <1>1, <2>1
<1>3. ToSet(Append(s, t)) = ToSet(s) \union {t}
  BY <1>1 DEF ToSet
<1>4. NoTwice(s) /\ (\A r \in ToSet(s) : r.id # t.id) => NoTwice(Append(s, t))
  <2> SUFFICES ASSUME NoTwice(s), \A r \in ToSet(s) : r.id # t.id,
                      NEW i \in 1 .. Len(s) + 1, NEW j \in 1 .. Len(s) + 1,
                      Append(s, t)[i].id = Append(s, t)[j].id
               PROVE  i = j
    BY <1>1 DEF NoTwice
  <2>1. \A k \in 1 .. Len(s) : s[k].id # t.id
    BY <1>1 DEF ToSet
  <2>2. CASE i \in 1 .. Len(s) /\ j \in 1 .. Len(s)
    BY <1>1, <2>2 DEF NoTwice
  <2>3. CASE i = Len(s) + 1 /\ j \in 1 .. Len(s)
    BY <1>1, <2>1, <2>3
  <2>4. CASE j = Len(s) + 1 /\ i \in 1 .. Len(s)
    BY <1>1, <2>1, <2>4
  <2> QED
    BY <1>1, <2>2, <2>3, <2>4
<1> QED
  BY <1>1, <1>2, <1>3, <1>4

LEMMA TailTasks ==
  ASSUME NEW S, NEW s \in Seq(S), s # <<>>
  PROVE  /\ Tail(s) \in Seq(S)
         /\ Head(s) \in S
         /\ ToSet(s) = ToSet(Tail(s)) \union {Head(s)}
         /\ NoTwice(s) => NoTwice(Tail(s)) /\ \A r \in ToSet(Tail(s)) : r.id # Head(s).id
<1>1. /\ Tail(s) \in Seq(S) /\ Head(s) \in S /\ Len(s) \in Nat \ {0}
      /\ DOMAIN s = 1 .. Len(s)
      /\ DOMAIN Tail(s) = 1 .. Len(s) - 1
      /\ \A i \in 1 .. Len(s) - 1 : Tail(s)[i] = s[i + 1]
      /\ Head(s) = s[1]
  OBVIOUS
<1>2. ToSet(Tail(s)) \union {Head(s)} \subseteq ToSet(s)
  BY <1>1 DEF ToSet
<1>3. ASSUME NEW e \in ToSet(s), e # Head(s) PROVE e \in ToSet(Tail(s))
  <2>1. PICK i \in 1 .. Len(s) : e = s[i]
    BY <1>1 DEF ToSet
  <2>2. i # 1 /\ i - 1 \in 1 .. Len(s) - 1 /\ i = (i - 1) + 1
    BY <1>1, <1>3, <2>1
  <2>3. Tail(s)[i - 1] = s[i]
    BY <1>1, <2>2
  <2> QED
    BY <1>1, <2>1, <2>2, <2>3 DEF ToSet
<1>4. NoTwice(s) => NoTwice(Tail(s)) /\ \A r \in ToSet(Tail(s)) : r.id # Head(s).id
  BY <1>1 DEF NoTwice, ToSet
<1> QED
  BY <1>1, <1>2, <1>3, <1>4

\* Erasing an element takes out this one.
LEMMA ErasedTasks ==
  ASSUME NEW S, NEW s \in Seq(S), NEW i \in DOMAIN s
  PROVE  /\ Erased(s, i) \in Seq(S)
         /\ ToSet(s) = ToSet(Erased(s, i)) \union {s[i]}
         /\ NoTwice(s) => NoTwice(Erased(s, i)) /\ \A r \in ToSet(Erased(s, i)) : r.id # s[i].id
<1> DEFINE n == Len(s)
           p == SubSeq(s, 1, i - 1)
           q == SubSeq(s, i + 1, n)
           e == Erased(s, i)
<1>1. n \in Nat /\ DOMAIN s = 1 .. n /\ i \in 1 .. n
  OBVIOUS
<1>2. p \in Seq(S) /\ Len(p) = i - 1 /\ \A k \in 1 .. i - 1 : p[k] = s[k]
  BY <1>1, SubSeqProperties
<1>3. q \in Seq(S) /\ Len(q) = n - i /\ \A k \in 1 .. n - i : q[k] = s[i + k]
  BY <1>1, SubSeqProperties
<1>4. e = p \o q
  BY DEF Erased, RemoveAt
<1> HIDE DEF n, p, q, e
<1>5. /\ e \in Seq(S) /\ Len(e) = (i - 1) + (n - i)
      /\ \A k \in 1 .. (i - 1) + (n - i) : e[k] = IF k <= i - 1 THEN p[k] ELSE q[k - (i - 1)]
  BY <1>2, <1>3, <1>4, ConcatProperties, SMTT(20)
<1>6. /\ e \in Seq(S) /\ DOMAIN e = 1 .. n - 1
      /\ \A k \in 1 .. i - 1 : e[k] = s[k]
      /\ \A k \in i .. n - 1 : e[k] = s[k + 1]
  <2>1. (i - 1) + (n - i) = n - 1
    BY <1>1
  <2>2. e \in Seq(S) /\ DOMAIN e = 1 .. n - 1
    BY <1>5, <2>1
  <2>3. ASSUME NEW k \in 1 .. i - 1 PROVE e[k] = s[k]
    BY <1>1, <1>2, <1>5, <2>1
  <2>4. ASSUME NEW k \in i .. n - 1 PROVE e[k] = s[k + 1]
    <3>1. k \in 1 .. n - 1 /\ ~ k <= i - 1 /\ k - (i - 1) \in 1 .. n - i /\ i + (k - (i - 1)) = k + 1
      BY <1>1
    <3>2. e[k] = q[k - (i - 1)]
      BY <1>5, <2>1, <3>1
    <3> QED
      BY <1>3, <3>1, <3>2
  <2> QED
    BY <2>2, <2>3, <2>4
<1>7. ASSUME NEW k \in 1 .. n - 1
      PROVE  \E l \in 1 .. n : e[k] = s[l] /\ l # i /\ l = IF k < i THEN k ELSE k + 1
  <2>1. CASE k < i
    BY <1>1, <1>6, <2>1
  <2>2. CASE k >= i
    BY <1>1, <1>6, <2>2
  <2> QED
    BY <1>1, <2>1, <2>2
<1>8. ASSUME NEW r \in ToSet(e) PROVE r \in ToSet(s)
  <2>1. PICK k \in 1 .. n - 1 : r = e[k]
    BY <1>6 DEF ToSet
  <2>2. PICK l \in 1 .. n : e[k] = s[l]
    BY <1>7
  <2> QED
    BY <1>1, <2>1, <2>2 DEF ToSet
<1>9. ASSUME NEW l \in 1 .. n, l # i PROVE s[l] \in ToSet(e)
  <2>1. CASE l < i
    <3>1. l \in 1 .. n - 1 /\ e[l] = s[l]
      BY <1>1, <1>6, <2>1
    <3> QED
      BY <1>6, <3>1 DEF ToSet
  <2>2. CASE l > i
    <3>1. l - 1 \in i .. n - 1 /\ l - 1 \in 1 .. n - 1 /\ (l - 1) + 1 = l
      BY <1>1, <2>2
    <3>2. e[l - 1] = s[l]
      BY <1>6, <3>1
    <3> QED
      BY <1>6, <3>1, <3>2 DEF ToSet
  <2> QED
    BY <1>1, <1>9, <2>1, <2>2
<1>10. ToSet(s) = ToSet(e) \union {s[i]}
  BY <1>1, <1>8, <1>9 DEF ToSet
<1>11. ASSUME NoTwice(s) PROVE NoTwice(e) /\ \A r \in ToSet(e) : r.id # s[i].id
  <2>1. ASSUME NEW r \in ToSet(e) PROVE r.id # s[i].id
    <3>1. PICK k \in 1 .. n - 1 : r = e[k]
      BY <1>6 DEF ToSet
    <3>2. PICK l \in 1 .. n : e[k] = s[l] /\ l # i
      BY <1>7
    <3> QED
      BY <1>1, <1>11, <3>1, <3>2 DEF NoTwice
  <2>2. ASSUME NEW j \in 1 .. n - 1, NEW k \in 1 .. n - 1, e[j].id = e[k].id PROVE j = k
    <3>1. PICK l \in 1 .. n : e[j] = s[l] /\ l = IF j < i THEN j ELSE j + 1
      BY <1>7
    <3>2. PICK m \in 1 .. n : e[k] = s[m] /\ m = IF k < i THEN k ELSE k + 1
      BY <1>7
    <3>3. l = m
      BY <1>1, <1>11, <2>2, <3>1, <3>2 DEF NoTwice
    <3> QED
      BY <1>1, <3>1, <3>2, <3>3
  <2> QED
    BY <1>6, <2>1, <2>2 DEF NoTwice
<1> QED
  BY <1>6, <1>10, <1>11 DEF e

LEMMA PushedTasks ==
  ASSUME NEW S, NEW s \in Seq(S), NEW t \in S, NEW q \in Pushed(s, t)
  PROVE  /\ q \in Seq(S)
         /\ q # <<>>
         /\ ToSet(q) = ToSet(s) \union {t}
         /\ NoTwice(s) /\ (\A r \in ToSet(s) : r.id # t.id) => NoTwice(q)
<1> DEFINE a == Append(s, t)
<1>1. /\ a \in Seq(S) /\ a # <<>> /\ ToSet(a) = ToSet(s) \union {t}
      /\ NoTwice(s) /\ (\A r \in ToSet(s) : r.id # t.id) => NoTwice(a)
  BY AppendTask
<1>2. q \in Arranged(a, IsHeap(s))
  BY DEF Pushed
<1> HIDE DEF a
<1>3. q \in Seq(S) /\ ToSet(q) = ToSet(a) /\ (q = <<>> <=> a = <<>>) /\ (NoTwice(a) => NoTwice(q))
  BY <1>1, <1>2, ArrangedTasks
<1> QED
  BY <1>1, <1>3

LEMMA PoppedTasks ==
  ASSUME NEW S, NEW s \in Seq(S), s # <<>>, NEW q \in Popped(s)
  PROVE  /\ q \in Seq(S)
         /\ Head(s) \in S
         /\ ToSet(s) = ToSet(q) \union {Head(s)}
         /\ NoTwice(s) => NoTwice(q) /\ \A r \in ToSet(q) : r.id # Head(s).id
<1> DEFINE a == Tail(s)
<1>1. /\ a \in Seq(S) /\ Head(s) \in S /\ ToSet(s) = ToSet(a) \union {Head(s)}
      /\ NoTwice(s) => NoTwice(a) /\ \A r \in ToSet(a) : r.id # Head(s).id
  BY TailTasks
<1>2. q \in Arranged(a, IsHeap(s))
  BY DEF Popped
<1> HIDE DEF a
<1>3. q \in Seq(S) /\ ToSet(q) = ToSet(a) /\ (NoTwice(a) => NoTwice(q))
  BY <1>1, <1>2, ArrangedTasks
<1> QED
  BY <1>1, <1>3

\* The clock makes every task nearer and changes nothing else.
LEMMA NearerTasks ==
  ASSUME NEW s \in Seq(Task)
  PROVE  LET q == [i \in DOMAIN s |-> Nearer(s[i])]
         IN  /\ q \in Seq(Task)
             /\ q = <<>> <=> s = <<>>
             /\ ToSet(q) = {Nearer(t) : t \in ToSet(s)}
             /\ NoTwice(s) => NoTwice(q)
             /\ s # <<>> => Head(q) = Nearer(Head(s))
<1> DEFINE q == [i \in DOMAIN s |-> Nearer(s[i])]
<1>1. \A t \in Task : Nearer(t) \in Task /\ Nearer(t).id = t.id
  BY DEF Nearer, Task
<1>2. Len(s) \in Nat /\ DOMAIN s = 1 .. Len(s) /\ \A i \in 1 .. Len(s) : s[i] \in Task
  OBVIOUS
<1>3. q \in [1 .. Len(s) -> Task] /\ \A i \in 1 .. Len(s) : q[i] = Nearer(s[i])
  BY <1>1, <1>2
<1> HIDE DEF q
<1>4. q \in Seq(Task) /\ Len(q) = Len(s) /\ DOMAIN q = 1 .. Len(s)
  BY <1>2, <1>3
<1>5. q = <<>> <=> s = <<>>
  BY <1>2, <1>4
<1>6. ToSet(q) = {Nearer(t) : t \in ToSet(s)}
  BY <1>2, <1>3, <1>4 DEF ToSet
<1>7. NoTwice(s) => NoTwice(q)
  BY <1>1, <1>2, <1>3, <1>4 DEF NoTwice
<1>8. s # <<>> => Head(q) = Nearer(Head(s))
  <2> SUFFICES ASSUME s # <<>> PROVE Head(q) = Nearer(Head(s))
    OBVIOUS
  <2>1. 1 \in 1 .. Len(s) /\ Head(s) = s[1]
    BY <1>2
  <2>2. Head(q) = q[1]
    BY <1>4, <1>5
  <2> QED
    BY <1>3, <2>1, <2>2
<1> QED
  BY <1>4, <1>5, <1>6, <1>7, <1>8 DEF q

----------------------------------------------------------------------------
(* The invariant                                                           *)

LEMMA InitIInv == Init => IInv
<1> SUFFICES ASSUME Init PROVE IInv
  OBVIOUS
<1> USE Bounds DEF Init
<1>1. ToSet(tasks) = {} /\ NoTwice(tasks)
  BY DEF ToSet, NoTwice
<1>2. TypeOK
  <2>1. tasks \in Seq(Task) /\ call \in [Users -> Task \union {NoCall}]
    OBVIOUS
  <2>2. timerId \in 0 .. MaxTimers /\ since \in 0 .. MaxLate /\ cancelled \subseteq Ids
    OBVIOUS
  <2>3. stop \in BOOLEAN /\ notEmpty \in BOOLEAN /\ locked \in BOOLEAN
    OBVIOUS
  <2>4. pc \in Pcs /\ owner \in {"alive", "joining", "gone"}
    BY DEF Pcs
  <2> QED
    BY <2>1, <2>2, <2>3, <2>4 DEF TypeOK
<1>3. IdsInv
  BY <1>1 DEF IdsInv
<1>4. ThreadInv /\ NotForgotten /\ NothingRunsAfter
  BY DEF ThreadInv, NotForgotten, NothingRunsAfter
<1> QED
  BY <1>2, <1>3, <1>4 DEF IInv

LEMMA CallIInv ==
  ASSUME IInv, NEW u \in Users, NEW first \in Firsts, NEW delay \in Periods, Call(u, first, delay)
  PROVE  IInv'
<1> DEFINE t == [id |-> timerId + 1, left |-> first, delay |-> delay]
<1>1. /\ UNCHANGED <<tasks, stop, notEmpty, locked, pc, since, owner, cancelled>>
      /\ timerId \in 0 .. MaxTimers /\ timerId < MaxTimers /\ timerId' = timerId + 1
      /\ call[u] = NoCall /\ call' = [call EXCEPT ![u] = t]
  BY DEF Call, thread, IInv, TypeOK
<1>2. t \in Task /\ t.id = timerId + 1
  BY <1>1, Bounds DEF Task, Ids
<1>3. /\ call' \in [Users -> Task \union {NoCall}] /\ call'[u] = t
      /\ \A v \in Users : v # u => call'[v] = call[v]
      /\ \A v \in Users : call[v] # NoCall => call[v].id \in Int /\ call[v].id <= timerId
      /\ \A r \in ToSet(tasks) : r.id \in Int
  <2>1. \A r \in ToSet(tasks) : r \in Task
    BY DEF IInv, TypeOK, ToSet
  <2> QED
    BY <1>1, <1>2, <2>1, Bounds DEF IInv, TypeOK, Task, Ids, IdsInv
<1> HIDE DEF t
<1>4. TypeOK'
  BY <1>1, <1>3, Bounds DEF IInv, TypeOK
<1>5. IdsInv'
  <2>1. /\ NoTwice(tasks')
        /\ \A r \in ToSet(tasks') : r.id <= timerId' /\ r.id \notin cancelled'
        /\ \A id \in cancelled' : id <= timerId'
    <3>1. \A id \in cancelled : id \in Int
      BY Bounds DEF IInv, TypeOK, Ids
    <3> QED
      BY <1>1, <1>3, <3>1 DEF IInv, IdsInv
  <2>2. /\ t.id <= timerId' /\ t.id \notin cancelled
        /\ \A r \in ToSet(tasks) : r.id # t.id
        /\ \A v \in Users : call[v] # NoCall => call[v].id # t.id
    BY <1>1, <1>2, <1>3 DEF IInv, IdsInv
  <2>3. ASSUME NEW v \in Users, call'[v] # NoCall
        PROVE  /\ call'[v].id <= timerId' /\ call'[v].id \notin cancelled'
               /\ \A r \in ToSet(tasks') : r.id # call'[v].id
               /\ \A w \in Users : call'[w] # NoCall /\ call'[w].id = call'[v].id => w = v
    <3>1. CASE v = u
      BY <1>1, <1>3, <2>2, <3>1
    <3>2. CASE v # u
      BY <1>1, <1>3, <2>2, <2>3, <3>2 DEF IInv, IdsInv
    <3> QED
      BY <3>1, <3>2
  <2> QED
    BY <2>1, <2>3 DEF IdsInv
<1>6. ThreadInv' /\ NotForgotten' /\ NothingRunsAfter'
  BY <1>1 DEF IInv, ThreadInv, TopDue, NotForgotten, NothingRunsAfter
<1> QED
  BY <1>4, <1>5, <1>6 DEF IInv

LEMMA InsertIInv ==
  ASSUME IInv, NEW u \in Users, Insert(u)
  PROVE  IInv'
<1> DEFINE t == call[u]
<1>1. /\ UNCHANGED <<timerId, stop, locked, pc, since, owner, cancelled>>
      /\ t # NoCall /\ ~locked /\ notEmpty'
      /\ tasks' \in Pushed(tasks, t)
      /\ tasks \in Seq(Task) /\ t \in Task
      /\ call' = [call EXCEPT ![u] = NoCall]
  BY DEF Insert, Free, IInv, TypeOK
<1>2. /\ t.id <= timerId /\ t.id \notin cancelled
      /\ \A r \in ToSet(tasks) : r.id # t.id
      /\ \A v \in Users : call[v] # NoCall /\ call[v].id = t.id => v = u
  BY <1>1 DEF IInv, IdsInv
<1>3. tasks' \in Seq(Task) /\ tasks' # <<>> /\ ToSet(tasks') = ToSet(tasks) \union {t} /\ NoTwice(tasks')
  BY <1>1, <1>2, PushedTasks DEF IInv, IdsInv
<1>4. /\ call' \in [Users -> Task \union {NoCall}] /\ call'[u] = NoCall
      /\ \A v \in Users : v # u => call'[v] = call[v]
  BY <1>1 DEF IInv, TypeOK
<1> HIDE DEF t
<1>5. TypeOK'
  BY <1>1, <1>3, <1>4 DEF Insert, IInv, TypeOK
<1>6. IdsInv'
  <2>1. \A r \in ToSet(tasks') : r.id <= timerId' /\ r.id \notin cancelled'
    BY <1>1, <1>2, <1>3 DEF IInv, IdsInv
  <2>2. ASSUME NEW v \in Users, call'[v] # NoCall
        PROVE  /\ call'[v].id <= timerId' /\ call'[v].id \notin cancelled'
               /\ \A r \in ToSet(tasks') : r.id # call'[v].id
               /\ \A w \in Users : call'[w] # NoCall /\ call'[w].id = call'[v].id => w = v
    BY <1>1, <1>2, <1>3, <1>4, <2>2 DEF IInv, IdsInv
  <2> QED
    BY <1>1, <1>3, <2>1, <2>2 DEF IInv, IdsInv
<1>7. ThreadInv' /\ NotForgotten' /\ NothingRunsAfter'
  BY <1>1 DEF IInv, ThreadInv, NotForgotten, NothingRunsAfter
<1> QED
  BY <1>5, <1>6, <1>7 DEF IInv

LEMMA CancelIInv ==
  ASSUME IInv, NEW id \in Ids, Cancel(id)
  PROVE  IInv'
<1>1. /\ UNCHANGED <<timerId, stop, notEmpty, locked, pc, since, call, owner>>
      /\ ~locked /\ owner = "alive"
      /\ cancelled' = cancelled \union {id}
      /\ tasks \in Seq(Task)
  BY DEF Cancel, Free, thread, IInv, TypeOK
<1>2. PICK i \in DOMAIN tasks : tasks[i].id = id /\ tasks' = Erased(tasks, i)
  BY DEF Cancel
<1>3. /\ tasks' \in Seq(Task)
      /\ ToSet(tasks) = ToSet(tasks') \union {tasks[i]}
      /\ NoTwice(tasks') /\ \A r \in ToSet(tasks') : r.id # id
      /\ tasks # <<>>
  BY <1>1, <1>2, ErasedTasks DEF IInv, IdsInv
<1>4. TypeOK'
  BY <1>1, <1>3 DEF IInv, TypeOK
<1>5. IdsInv'
  <2>1. tasks[i].id = id /\ tasks[i] \in ToSet(tasks) /\ id <= timerId
    BY <1>2, <1>3 DEF IInv, IdsInv
  <2>2. \A v \in Users : call[v] # NoCall => call[v].id # id
    BY <2>1 DEF IInv, IdsInv
  <2> QED
    BY <1>1, <1>3, <2>1, <2>2 DEF IInv, IdsInv
<1>6. ThreadInv' /\ NotForgotten' /\ NothingRunsAfter'
  BY <1>1, <1>3 DEF IInv, ThreadInv, NotForgotten, NothingRunsAfter
<1> QED
  BY <1>4, <1>5, <1>6 DEF IInv

LEMMA FinishIInv ==
  ASSUME IInv, Finish
  PROVE  IInv'
<1> DEFINE t == Head(tasks)
<1>1. /\ UNCHANGED <<timerId, stop, notEmpty, locked, since, call, owner, cancelled>>
      /\ pc = "run" /\ pc' = "look" /\ locked
      /\ tasks \in Seq(Task) /\ tasks # <<>> /\ NoTwice(tasks)
  BY DEF Finish, IInv, TypeOK, ThreadInv, IdsInv, TopDue
<1>2. PICK rest \in Popped(tasks) :
        IF t.delay > 0 THEN tasks' \in Pushed(rest, Again(t)) ELSE tasks' = rest
  BY DEF Finish
<1>3. /\ rest \in Seq(Task) /\ t \in Task /\ ToSet(tasks) = ToSet(rest) \union {t}
      /\ NoTwice(rest) /\ \A r \in ToSet(rest) : r.id # t.id
  BY <1>1, PoppedTasks
<1> HIDE DEF t
<1>4. Again(t) \in Task /\ Again(t).id = t.id
  <2>1. t.left \in Int /\ t.delay \in Nat
    <3>1. t.left \in Int /\ t.delay \in Periods
      BY <1>3 DEF Task
    <3> QED
      BY <3>1, Bounds
  <2> QED
    BY <1>3, <2>1 DEF Again, Task
<1>5. /\ tasks' \in Seq(Task) /\ NoTwice(tasks')
      /\ ToSet(tasks') = ToSet(rest) \/ ToSet(tasks') = ToSet(rest) \union {Again(t)}
  <2>1. CASE t.delay > 0
    BY <1>2, <1>3, <1>4, <2>1, PushedTasks
  <2>2. CASE ~ t.delay > 0
    BY <1>2, <1>3, <2>2
  <2> QED
    BY <2>1, <2>2
<1>6. \A r \in ToSet(tasks') : \E q \in ToSet(tasks) : q.id = r.id
  BY <1>3, <1>4, <1>5
<1>7. TypeOK'
  BY <1>1, <1>5 DEF IInv, TypeOK, Pcs
<1>8. IdsInv'
  BY <1>1, <1>5, <1>6 DEF IInv, IdsInv
<1>9. ThreadInv' /\ NotForgotten' /\ NothingRunsAfter'
  BY <1>1 DEF IInv, ThreadInv, NotForgotten, NothingRunsAfter
<1> QED
  BY <1>7, <1>8, <1>9 DEF IInv

\* The steps that leave the heap and the calls alone.
LEMMA ControlIInv ==
  ASSUME IInv, Wake \/ Lock \/ Look \/ Rest \/ Stop \/ Join
  PROVE  IInv'
<1> USE Bounds DEF IInv, TypeOK
<1>1. UNCHANGED <<tasks, timerId, call, cancelled>>
  BY DEF Wake, Lock, Look, Rest, Stop, Join, Leave, thread
<1>2. since' \in 0 .. MaxLate /\ pc' \in Pcs /\ owner' \in {"alive", "joining", "gone"}
  BY DEF Wake, Lock, Look, Rest, Stop, Join, Leave, Pcs, thread
<1>3. stop' \in BOOLEAN /\ notEmpty' \in BOOLEAN /\ locked' \in BOOLEAN
  BY DEF Wake, Lock, Look, Rest, Stop, Join, Leave, Told, thread
<1>4. locked' <=> pc' \in {"look", "run", "after"}
  BY DEF Wake, Lock, Look, Rest, Stop, Join, Leave, ThreadInv, thread
<1>5. (pc = "run" => TopDue)'
  BY DEF Wake, Lock, Look, Rest, Stop, Join, Leave, ThreadInv, TopDue, thread
<1>6. NotForgotten'
  BY DEF Wake, Lock, Look, Rest, Stop, Join, Leave, ThreadInv, NotForgotten, thread
<1>7. NothingRunsAfter'
  BY DEF Wake, Lock, Look, Rest, Stop, Join, Leave, ThreadInv, NothingRunsAfter, thread
<1>8. TypeOK'
  BY <1>1, <1>2, <1>3
<1>9. IdsInv'
  BY <1>1 DEF IdsInv
<1> QED
  BY <1>4, <1>5, <1>6, <1>7, <1>8, <1>9 DEF ThreadInv

LEMMA TickIInv ==
  ASSUME IInv, Tick
  PROVE  IInv'
<1>1. /\ UNCHANGED <<timerId, stop, notEmpty, locked, pc, owner, cancelled>>
      /\ tasks \in Seq(Task)
      /\ since \in 0 .. MaxLate /\ since < MaxLate
      /\ since' = IF pc \in {"asleep", "ended"} THEN since ELSE since + 1
      /\ tasks' = [i \in DOMAIN tasks |-> Nearer(tasks[i])]
      /\ call' = [u \in Users |-> IF call[u] = NoCall THEN NoCall ELSE Nearer(call[u])]
  BY DEF Tick, IInv, TypeOK
<1>2. /\ tasks' \in Seq(Task)
      /\ tasks' = <<>> <=> tasks = <<>>
      /\ ToSet(tasks') = {Nearer(t) : t \in ToSet(tasks)}
      /\ NoTwice(tasks) => NoTwice(tasks')
      /\ tasks # <<>> => Head(tasks') = Nearer(Head(tasks))
  BY <1>1, NearerTasks
<1>3. \A t \in Task : /\ Nearer(t) \in Task /\ Nearer(t).id = t.id
                      /\ Nearer(t).left = t.left - 1 /\ t.left \in Int
  BY DEF Nearer, Task
<1>4. /\ call' \in [Users -> Task \union {NoCall}]
      /\ \A u \in Users : call[u] = NoCall => call'[u] = NoCall
      /\ \A u \in Users : call[u] # NoCall => call'[u].id = call[u].id
  BY <1>1, <1>3 DEF IInv, TypeOK
<1>5. \A r \in ToSet(tasks') : \E t \in ToSet(tasks) : t.id = r.id
  <2>1. \A t \in ToSet(tasks) : t \in Task
    BY <1>1 DEF ToSet
  <2> QED
    BY <1>2, <1>3, <2>1
<1>6. TypeOK'
  BY <1>1, <1>2, <1>4, Bounds DEF IInv, TypeOK
<1>7. IdsInv'
  BY <1>1, <1>2, <1>4, <1>5 DEF IInv, IdsInv
<1>8. ThreadInv'
  <2>1. pc = "run" => tasks # <<>> /\ Head(tasks) \in Task
    BY <1>1 DEF IInv, ThreadInv, TopDue
  <2> QED
    BY <1>1, <1>2, <1>3, <2>1 DEF IInv, ThreadInv, TopDue
<1>9. NotForgotten' /\ NothingRunsAfter'
  BY <1>1, <1>2 DEF IInv, NotForgotten, NothingRunsAfter
<1> QED
  BY <1>6, <1>7, <1>8, <1>9 DEF IInv

LEMMA NextIInv == IInv /\ [Next]_vars => IInv'
<1> SUFFICES ASSUME IInv, [Next]_vars PROVE IInv'
  OBVIOUS
<1>1. CASE Thread \/ Tick \/ Stop \/ Join
  BY <1>1, FinishIInv, ControlIInv, TickIInv DEF Thread
<1>2. CASE \E id \in Ids : Cancel(id)
  BY <1>2, CancelIInv
<1>3. CASE \E u \in Users : Insert(u) \/ \E first \in Firsts, delay \in Periods : Call(u, first, delay)
  BY <1>3, InsertIInv, CallIInv
<1>4. CASE UNCHANGED vars
  BY <1>4 DEF vars, thread, IInv, TypeOK, IdsInv, ThreadInv, TopDue, NotForgotten, NothingRunsAfter
<1> QED
  BY <1>1, <1>2, <1>3, <1>4 DEF Next

LEMMA Invariant == Spec => []IInv
  BY InitIInv, NextIInv, PTL DEF Spec

\* No cancelled task runs or waits to be run again, none that waits is forgotten, and
\* nothing runs after the destructor (ThreadScheduler.h:99, 148; Main.cpp:306).
THEOREM AlwaysConsistent == Spec => []Consistent
<1>1. IInv => Consistent
  <2> SUFFICES ASSUME IInv PROVE CancelledIsOut
    BY DEF IInv, Consistent
  <2> QED
    BY DEF IInv, IdsInv, CancelledIsOut, Holds, ToSet
<1> QED
  BY Invariant, <1>1, PTL

----------------------------------------------------------------------------
(* The timers                                                              *)

\* One unit of time, or one run, more or less.
LEMMA Quotients ==
  ASSUME NEW n \in Nat, NEW d \in Nat \ {0}
  PROVE  /\ n \div d \in Nat /\ n % d \in 0 .. d - 1
         /\ n % d = d - 1 => (n + 1) \div d = n \div d + 1 /\ (n + 1) % d = 0
         /\ n % d # d - 1 => (n + 1) \div d = n \div d /\ (n + 1) % d = (n % d) + 1
         /\ n < d => n \div d = 0 /\ n % d = n
         /\ n >= d => (n - d) \div d = n \div d - 1 /\ (n - d) % d = n % d
<1>1. n \div d \in Nat
  OBVIOUS
<1>2. n % d \in 0 .. d - 1
  OBVIOUS
<1>3. IF n % d = d - 1 THEN (n + 1) \div d = n \div d + 1 /\ (n + 1) % d = 0
                        ELSE (n + 1) \div d = n \div d /\ (n + 1) % d = (n % d) + 1
  OBVIOUS
<1>4. n < d => n \div d = 0 /\ n % d = n
  OBVIOUS
<1>5. n >= d => (n - d) \div d = n \div d - 1 /\ (n - d) % d = n % d
  OBVIOUS
<1> QED
  BY <1>1, <1>2, <1>3, <1>4, <1>5

LEMMA TaskFields == \A t \in Task : t.id \in Ids /\ t.left \in Int /\ t.delay \in Nat
<1>1. \A t \in Task : t.id \in Ids /\ t.left \in Int /\ t.delay \in Periods
  BY DEF Task
<1> QED
  BY <1>1, Bounds

Owing(o, w, p) == [owed |-> o, wait |-> w, period |-> p]
Owings == [owed : Int, wait : Int, period : Int]

\* What the service knows of a task.
LEMMA MineIs ==
  ASSUME NEW t \in Task
  PROVE  /\ t.left > 0 => Mine(t) = Owing(0, t.left, t.delay)
         /\ t.left <= 0 /\ t.delay = 0 => Mine(t) = Owing(1, 0, 0)
         /\ t.left <= 0 /\ t.delay # 0 =>
              Mine(t) = Owing((-t.left) \div t.delay + 1, t.delay - ((-t.left) % t.delay), t.delay)
         /\ Mine(t) \in Owings /\ Mine(t) # Nothing
         /\ Mine(t).period = t.delay
         /\ t.left <= 0 => Mine(t).owed > 0
<1>1. t.left \in Int /\ t.delay \in Nat
  BY TaskFields
<1>2. \A o, w, p \in Int : /\ Owing(o, w, p) \in Owings /\ Owing(o, w, p) # Nothing
                           /\ Owing(o, w, p).owed = o /\ Owing(o, w, p).period = p
  BY SchedulerAssumption DEF Owing, Owings
<1>3. /\ t.left > 0 => Mine(t) = Owing(0, t.left, t.delay)
      /\ t.left <= 0 /\ t.delay = 0 => Mine(t) = Owing(1, 0, 0)
      /\ t.left <= 0 /\ t.delay # 0 =>
           Mine(t) = Owing((-t.left) \div t.delay + 1, t.delay - ((-t.left) % t.delay), t.delay)
  BY <1>1 DEF Mine, Owing
<1>4. CASE t.left > 0
  BY <1>1, <1>2, <1>3, <1>4
<1>5. CASE t.left <= 0 /\ t.delay = 0
  BY <1>1, <1>2, <1>3, <1>5
<1>6. CASE t.left <= 0 /\ t.delay # 0
  <2> DEFINE n == -t.left
             d == t.delay
             o == n \div d + 1
             w == d - (n % d)
  <2>1. n \in Nat /\ d \in Nat \ {0}
    BY <1>1, <1>6
  <2>2. o \in Int /\ w \in Int /\ o > 0
    <3> HIDE DEF n, d
    <3>1. n \div d \in Nat /\ n % d \in 0 .. d - 1
      BY <2>1, Quotients
    <3> QED
      BY <2>1, <3>1
  <2>3. Mine(t) = Owing(o, w, d)
    BY <1>3, <1>6
  <2> HIDE DEF n, o, w
  <2> QED
    BY <1>1, <1>2, <1>3, <1>6, <2>2, <2>3, SMTT(20)
<1> QED
  BY <1>1, <1>4, <1>5, <1>6

\* A task that is due now owes one run and waits for the next.
LEMMA DueIsOwed ==
  ASSUME NEW t \in Task, t.left = 0
  PROVE  Mine(t) = Owing(1, t.delay, t.delay)
<1> DEFINE n == -t.left
<1>1. t.left \in Int /\ t.delay \in Nat
  BY TaskFields
<1>2. n \in Int /\ n <= 0 /\ n >= 0
  BY <1>1
<1>3. t.left <= 0 /\ (t.left <= 0 /\ t.delay # 0 => Mine(t) = Owing(n \div t.delay + 1, t.delay - (n % t.delay), t.delay))
  BY <1>1, MineIs
<1> HIDE DEF n
<1>4. n = 0
  BY <1>2
<1>5. CASE t.delay = 0
  BY <1>3, <1>5, MineIs
<1>6. CASE t.delay # 0
  <2>1. t.delay \in Nat \ {0} /\ 0 \in Nat /\ 0 < t.delay
    BY <1>1, <1>6
  <2>2. 0 \div t.delay = 0 /\ 0 % t.delay = 0
    BY <2>1, Quotients
  <2>3. n \div t.delay + 1 = 1 /\ t.delay - (n % t.delay) = t.delay
    BY <1>1, <1>4, <2>2
  <2> QED
    BY <1>3, <1>6, <2>3
<1> QED
  BY <1>5, <1>6

LEMMA OlderIs ==
  ASSUME NEW o \in Int, NEW w \in Int, NEW p \in Int
  PROVE  /\ w = 1 => Timers!Older(Owing(o, w, p)) = Owing(o + 1, p, p)
         /\ w > 1 => Timers!Older(Owing(o, w, p)) = Owing(o, w - 1, p)
         /\ w < 1 => Timers!Older(Owing(o, w, p)) = Owing(o, w, p)
<1> DEFINE t == Owing(o, w, p)
<1>1. t \in Owings /\ t.owed = o /\ t.wait = w /\ t.period = p
  BY DEF Owing, Owings
<1>2. CASE w = 1
  <2>1. Timers!Older(t) = [owed |-> t.owed + 1, wait |-> t.period, period |-> t.period]
    <3> HIDE DEF t
    <3> QED
      BY <1>1, <1>2 DEF Timers!Older
  <2> HIDE DEF t
  <2>2. Timers!Older(t) = Owing(o + 1, p, p)
    BY <1>1, <2>1 DEF Owing
  <2> QED
    BY <1>2, <2>2 DEF t
<1>3. CASE w > 1
  <2> DEFINE r == [t EXCEPT !.wait = t.wait - 1]
             s == Owing(o, w - 1, p)
  <2> HIDE DEF t
  <2>1. Timers!Older(t) = r
    BY <1>1, <1>3 DEF Timers!Older
  <2>2. r \in Owings /\ r.owed = o /\ r.wait = w - 1 /\ r.period = p
    BY <1>1 DEF Owings
  <2>3. s \in Owings /\ s.owed = o /\ s.wait = w - 1 /\ s.period = p
    BY DEF Owing, Owings
  <2> HIDE DEF r, s
  <2>4. r = s
    BY <2>2, <2>3 DEF Owings
  <2> QED
    BY <1>3, <2>1, <2>4 DEF s, t
<1>4. CASE w < 1
  <2> HIDE DEF t
  <2>1. Timers!Older(t) = t
    BY <1>1, <1>4 DEF Timers!Older
  <2> QED
    BY <1>4, <2>1 DEF t
<1> QED
  BY <1>2, <1>3, <1>4

\* When the clock advances, what is owed and waited for does as the service says.
LEMMA NearerIsOlder ==
  ASSUME NEW t \in Task
  PROVE  Nearer(t) \in Task /\ Nearer(t).id = t.id /\ Mine(Nearer(t)) = Timers!Older(Mine(t))
<1> DEFINE r == Nearer(t)
<1>1. t.left \in Int /\ t.delay \in Nat
  BY TaskFields
<1>2. r \in Task /\ r.id = t.id /\ r.left = t.left - 1 /\ r.delay = t.delay
  BY <1>1 DEF Nearer, Task
<1> HIDE DEF r
<1>3. CASE t.left > 1
  <2>1. Mine(t) = Owing(0, t.left, t.delay)
    BY <1>1, <1>3, MineIs
  <2>2. Mine(r) = Owing(0, t.left - 1, t.delay)
    BY <1>1, <1>2, <1>3, MineIs
  <2>3. Timers!Older(Owing(0, t.left, t.delay)) = Owing(0, t.left - 1, t.delay)
    BY <1>1, <1>3, OlderIs
  <2> QED
    BY <1>2, <2>1, <2>2, <2>3 DEF r
<1>4. CASE t.left = 1
  <2>1. Mine(t) = Owing(0, 1, t.delay)
    BY <1>1, <1>4, MineIs
  <2>2. Mine(r) = Owing(1, t.delay, t.delay)
    BY <1>2, <1>4, DueIsOwed
  <2>3. Timers!Older(Owing(0, 1, t.delay)) = Owing(1, t.delay, t.delay)
    BY <1>1, OlderIs
  <2> QED
    BY <1>2, <2>1, <2>2, <2>3 DEF r
<1>5. CASE t.left <= 0 /\ t.delay = 0
  <2>1. Mine(t) = Owing(1, 0, 0)
    BY <1>1, <1>5, MineIs
  <2>2. Mine(r) = Owing(1, 0, 0)
    BY <1>1, <1>2, <1>5, MineIs
  <2>3. Timers!Older(Owing(1, 0, 0)) = Owing(1, 0, 0)
    BY OlderIs
  <2> QED
    BY <1>2, <2>1, <2>2, <2>3 DEF r
<1>6. CASE t.left <= 0 /\ t.delay # 0
  <2> DEFINE n == -t.left
             d == t.delay
             w == d - (n % d)
             o == n \div d + 1
  <2>1. n \in Nat /\ d \in Nat \ {0} /\ -(t.left - 1) = n + 1
    BY <1>1, <1>6
  <2>2. Mine(t) = Owing(o, w, d)
    BY <1>6, MineIs
  <2>3. Mine(r) = Owing((n + 1) \div d + 1, d - ((n + 1) % d), d)
    <3>1. r.left <= 0 /\ r.delay # 0 /\ -r.left = n + 1
      BY <1>1, <1>2, <1>6
    <3>2. Mine(r) = Owing((-r.left) \div r.delay + 1, r.delay - ((-r.left) % r.delay), r.delay)
      BY <1>2, <3>1, MineIs
    <3> HIDE DEF n
    <3> QED
      BY <1>2, <3>1, <3>2
  <2> HIDE DEF n, d
  <2>4. /\ n \div d \in Nat /\ n % d \in 0 .. d - 1
        /\ n % d = d - 1 => (n + 1) \div d = n \div d + 1 /\ (n + 1) % d = 0
        /\ n % d # d - 1 => (n + 1) \div d = n \div d /\ (n + 1) % d = (n % d) + 1
    BY <2>1, Quotients
  <2>5. o \in Int /\ w \in Int /\ d \in Int
    BY <2>1, <2>4
  <2>6. CASE n % d = d - 1
    <3>1. w = 1 /\ (n + 1) \div d + 1 = o + 1 /\ d - ((n + 1) % d) = d
      BY <2>1, <2>4, <2>6
    <3>2. Timers!Older(Owing(o, w, d)) = Owing(o + 1, d, d)
      <4> HIDE DEF w, o
      <4> QED
        BY <2>5, <3>1, OlderIs
    <3>3. Mine(r) = Owing(o + 1, d, d)
      BY <2>3, <3>1
    <3> HIDE DEF w, o
    <3> QED
      BY <1>2, <2>2, <3>2, <3>3 DEF r
  <2>7. CASE n % d # d - 1
    <3>1. w > 1 /\ (n + 1) \div d + 1 = o /\ d - ((n + 1) % d) = w - 1
      BY <2>1, <2>4, <2>7
    <3>2. Timers!Older(Owing(o, w, d)) = Owing(o, w - 1, d)
      <4> HIDE DEF w, o
      <4> QED
        BY <2>5, <3>1, OlderIs
    <3>3. Mine(r) = Owing(o, w - 1, d)
      BY <2>3, <3>1
    <3> HIDE DEF w, o
    <3> QED
      BY <1>2, <2>2, <3>2, <3>3 DEF r
  <2> QED
    BY <2>6, <2>7
<1> QED
  BY <1>1, <1>3, <1>4, <1>5, <1>6

\* A task that has run and runs again owes one run less.
LEMMA AgainOwesLess ==
  ASSUME NEW t \in Task, t.left <= 0, t.delay > 0
  PROVE  /\ Again(t) \in Task /\ Again(t).id = t.id
         /\ Mine(Again(t)) = [Mine(t) EXCEPT !.owed = @ - 1]
<1> DEFINE r == Again(t)
           n == -t.left
           d == t.delay
           o == n \div d + 1
           w == d - (n % d)
<1>1. t.left \in Int /\ t.delay \in Nat /\ n \in Nat /\ d \in Nat \ {0} /\ t.delay # 0
  BY TaskFields
<1>2. r \in Task /\ r.id = t.id /\ r.left = t.left + t.delay /\ r.delay = t.delay
  <2>1. t.left + t.delay \in Int
    BY <1>1
  <2> QED
    BY <2>1 DEF Again, Task
<1>3. Mine(t) = Owing(o, w, d)
  BY <1>1, MineIs
<1>4. n \div d \in Nat /\ n % d \in 0 .. d - 1 /\ o \in Int /\ w \in Int
  <2> HIDE DEF n, d
  <2>1. n \div d \in Nat /\ n % d \in 0 .. d - 1
    BY <1>1, Quotients
  <2> QED
    BY <1>1, <2>1
<1> HIDE DEF r
<1>5. Mine(r) = Owing(o - 1, w, d)
  <2>1. CASE n < d
    <3>1. r.left > 0 /\ r.left = d - n
      BY <1>1, <1>2, <2>1
    <3>2. Mine(r) = Owing(0, r.left, r.delay)
      BY <1>2, <3>1, MineIs
    <3>3. o - 1 = 0 /\ w = r.left /\ d = r.delay
      <4>1. n \div d = 0 /\ n % d = n
        <5> HIDE DEF n, d
        <5> QED
          BY <1>1, <2>1, Quotients
      <4> HIDE DEF n
      <4> QED
        BY <1>1, <1>2, <3>1, <4>1
    <3> QED
      BY <3>2, <3>3
  <2>2. CASE n >= d
    <3>1. r.left <= 0 /\ -r.left = n - d
      BY <1>1, <1>2, <2>2
    <3>2. Mine(r) = Owing((-r.left) \div r.delay + 1, r.delay - ((-r.left) % r.delay), r.delay)
      BY <1>1, <1>2, <3>1, MineIs
    <3>3. (n - d) \div d = n \div d - 1 /\ (n - d) % d = n % d
      <4> HIDE DEF n, d
      <4> QED
        BY <1>1, <2>2, Quotients
    <3>4. (-r.left) \div r.delay + 1 = o - 1 /\ r.delay - ((-r.left) % r.delay) = w /\ r.delay = d
      <4> HIDE DEF n
      <4> QED
        BY <1>1, <1>2, <1>4, <3>1, <3>3
    <3> QED
      BY <3>2, <3>4
  <2> QED
    BY <1>1, <2>1, <2>2
<1> HIDE DEF n, d, o, w
<1>6. [Owing(o, w, d) EXCEPT !.owed = @ - 1] = Owing(o - 1, w, d)
  <2> DEFINE x == Owing(o, w, d)
             y == [x EXCEPT !.owed = x.owed - 1]
             z == Owing(o - 1, w, d)
  <2>1. x \in Owings /\ x.owed = o /\ x.wait = w /\ x.period = d
    BY <1>1, <1>4 DEF Owing, Owings
  <2>2. z \in Owings /\ z.owed = o - 1 /\ z.wait = w /\ z.period = d
    BY <1>1, <1>4 DEF Owing, Owings
  <2> HIDE DEF x, z
  <2>3. y \in Owings /\ y.owed = o - 1 /\ y.wait = w /\ y.period = d
    BY <1>4, <2>1 DEF Owings
  <2> HIDE DEF y
  <2>4. y = z
    BY <2>2, <2>3 DEF Owings
  <2> QED
    BY <2>4 DEF x, y, z
<1> QED
  BY <1>2, <1>3, <1>5, <1>6 DEF r

----------------------------------------------------------------------------
(* The tasks that the scheduler and the calls have, and what the service   *)
(* knows of them                                                           *)

OneEach(K) == \A s, t \in K : s.id = t.id => s = t

TimerIn(K, id) == IF \E t \in K : t.id = id THEN Mine(CHOOSE t \in K : t.id = id) ELSE Nothing

Now == [id \in Ids |-> Timer(id)]

LEMMA NowIs ==
  /\ \A id \in Ids : Now[id] = TimerIn(Known, id) /\ Now'[id] = TimerIn(Known', id)
  /\ Now = [id \in Ids |-> TimerIn(Known, id)]
  /\ Now' = [id \in Ids |-> TimerIn(Known', id)]
BY DEF Now, Timer, TimerIn

LEMMA TimerInIs ==
  ASSUME NEW K \in SUBSET Task, OneEach(K)
  PROVE  /\ \A t \in K : TimerIn(K, t.id) = Mine(t)
         /\ \A id \in Ids : (\A t \in K : t.id # id) => TimerIn(K, id) = Nothing
<1>1. ASSUME NEW t \in K PROVE TimerIn(K, t.id) = Mine(t)
  <2> DEFINE c == CHOOSE r \in K : r.id = t.id
  <2>1. c \in K /\ c.id = t.id
    OBVIOUS
  <2>2. TimerIn(K, t.id) = Mine(c)
    BY DEF TimerIn
  <2> HIDE DEF c
  <2>3. c = t
    BY <2>1 DEF OneEach
  <2> QED
    BY <2>2, <2>3
<1>2. ASSUME NEW id \in Ids, \A t \in K : t.id # id PROVE TimerIn(K, id) = Nothing
  BY <1>2 DEF TimerIn
<1> QED
  BY <1>1, <1>2

\* A task more, and only its own timer is another.
LEMMA OneMore ==
  ASSUME NEW K \in SUBSET Task, NEW t \in Task, OneEach(K), \A r \in K : r.id # t.id
  PROVE  /\ K \union {t} \in SUBSET Task /\ OneEach(K \union {t})
         /\ t.id \in Ids
         /\ TimerIn(K, t.id) = Nothing
         /\ TimerIn(K \union {t}, t.id) = Mine(t)
         /\ \A id \in Ids : id # t.id => TimerIn(K \union {t}, id) = TimerIn(K, id)
<1> DEFINE L == K \union {t}
<1>1. L \in SUBSET Task /\ t \in L /\ K \subseteq L /\ \A r \in L : r \in K \/ r = t
  OBVIOUS
<1> HIDE DEF L
<1>2. OneEach(L)
  BY <1>1 DEF OneEach
<1>3. t.id \in Ids
  BY TaskFields
<1>4. TimerIn(K, t.id) = Nothing
  BY <1>3, TimerInIs
<1>5. TimerIn(L, t.id) = Mine(t)
  BY <1>1, <1>2, TimerInIs
<1>6. ASSUME NEW id \in Ids, id # t.id PROVE TimerIn(L, id) = TimerIn(K, id)
  <2>1. CASE \E r \in K : r.id = id
    <3>1. PICK r \in K : r.id = id
      BY <2>1
    <3>2. TimerIn(K, id) = Mine(r)
      BY <3>1, TimerInIs
    <3>3. TimerIn(L, id) = Mine(r)
      BY <1>1, <1>2, <3>1, TimerInIs
    <3> QED
      BY <3>2, <3>3
  <2>2. CASE \A r \in K : r.id # id
    <3>1. TimerIn(K, id) = Nothing
      BY <2>2, TimerInIs
    <3>2. \A r \in L : r.id # id
      BY <1>1, <1>6, <2>2
    <3>3. TimerIn(L, id) = Nothing
      BY <1>1, <1>2, <3>2, TimerInIs
    <3> QED
      BY <3>1, <3>3
  <2> QED
    BY <2>1, <2>2
<1> QED
  BY <1>1, <1>2, <1>3, <1>4, <1>5, <1>6 DEF L

Called == {call[u] : u \in {v \in Users : call[v] # NoCall}}

LEMMA KnownInv ==
  ASSUME IInv
  PROVE  /\ Known = ToSet(tasks) \union Called
         /\ Known \in SUBSET Task
         /\ OneEach(Known)
         /\ \A t \in Known : t.id \in Int /\ t.id <= timerId
         /\ \A t \in ToSet(tasks) : \A c \in Called : t.id # c.id
<1>1. Known = ToSet(tasks) \union Called
  BY DEF Known, Called
<1>2. \A t \in ToSet(tasks) : t \in Task /\ t.id <= timerId
  BY DEF IInv, TypeOK, IdsInv, ToSet
<1>3. \A c \in Called : /\ c \in Task /\ c.id <= timerId
                        /\ \A t \in ToSet(tasks) : t.id # c.id
                        /\ \A d \in Called : d.id = c.id => d = c
  BY DEF IInv, TypeOK, IdsInv, Called
<1>4. \A s, t \in ToSet(tasks) : s.id = t.id => s = t
  BY DEF IInv, IdsInv, NoTwice, ToSet
<1>5. OneEach(Known)
  BY <1>1, <1>3, <1>4 DEF OneEach
<1>6. \A t \in Task : t.id \in Int
  BY TaskFields, Bounds DEF Ids
<1> QED
  BY <1>1, <1>2, <1>3, <1>5, <1>6

----------------------------------------------------------------------------
(* Every step of the scheduler is one of the service, or none              *)

LEMMA CallCreates ==
  ASSUME IInv, NEW u \in Users, NEW first \in Firsts, NEW delay \in Periods, Call(u, first, delay)
  PROVE  timerId + 1 \in Ids /\ Timers!Create(timerId + 1, first, delay)
<1> DEFINE t == [id |-> timerId + 1, left |-> first, delay |-> delay]
<1>1. /\ UNCHANGED <<tasks, pc>>
      /\ timerId \in Nat /\ timerId < MaxTimers /\ first \in Nat /\ delay \in Nat
      /\ call \in [Users -> Task \union {NoCall}]
      /\ call[u] = NoCall /\ call' = [call EXCEPT ![u] = t]
  BY Bounds DEF Call, thread, IInv, TypeOK
<1>2. t \in Task /\ t.id = timerId + 1 /\ t.left = first /\ t.delay = delay
  BY <1>1, Bounds DEF Task, Ids
<1> HIDE DEF t
<1>3. Known' = Known \union {t}
  <2>1. t # NoCall
    BY <1>2, SchedulerAssumption
  <2>2. call'[u] = t /\ \A v \in Users : v # u => call'[v] = call[v]
    BY <1>1
  <2>3. ToSet(tasks)' = ToSet(tasks)
    BY <1>1
  <2> QED
    BY <1>1, <2>1, <2>2, <2>3 DEF Known
<1>4. Known \in SUBSET Task /\ OneEach(Known) /\ \A r \in Known : r.id # t.id
  BY <1>1, <1>2, KnownInv
<1>5. /\ t.id \in Ids /\ TimerIn(Known, t.id) = Nothing /\ TimerIn(Known', t.id) = Mine(t)
      /\ \A id \in Ids : id # t.id => TimerIn(Known', id) = TimerIn(Known, id)
  BY <1>2, <1>3, <1>4, OneMore
<1>6. Now[t.id] = Nothing /\ Now' = [Now EXCEPT ![t.id] = Mine(t)]
  BY <1>5, NowIs
<1>7. Mine(t) = Timers!Created(first, delay)
  <2>1. CASE first > 0
    BY <1>2, <2>1, MineIs DEF Owing, Timers!Created
  <2>2. CASE first = 0
    BY <1>2, <2>2, DueIsOwed DEF Owing, Timers!Created
  <2> QED
    BY <1>1, <2>1, <2>2
<1>8. Running' = Running
  BY <1>1 DEF Running
<1> QED
  BY <1>2, <1>5, <1>6, <1>7, <1>8 DEF Timers!Create, Timers!There, Now

\* The steps after which the same tasks are known.
LEMMA SameTimers ==
  ASSUME Known' = Known
  PROVE  Now' = Now
BY NowIs

LEMMA InsertIsNoStep ==
  ASSUME IInv, NEW u \in Users, Insert(u)
  PROVE  Now' = Now /\ Running' = Running
<1>1. /\ tasks \in Seq(Task) /\ call \in [Users -> Task \union {NoCall}]
      /\ call[u] # NoCall /\ call[u] \in Task /\ ~locked /\ pc' = pc
      /\ tasks' \in Pushed(tasks, call[u])
      /\ call' = [call EXCEPT ![u] = NoCall]
  BY DEF Insert, Free, IInv, TypeOK
<1>2. ToSet(tasks') = ToSet(tasks) \union {call[u]}
  BY <1>1, PushedTasks
<1>3. call'[u] = NoCall /\ \A v \in Users : v # u => call'[v] = call[v]
  BY <1>1
<1>4. Known' = Known
  BY <1>1, <1>2, <1>3 DEF Known
<1>5. pc # "run"
  BY <1>1 DEF IInv, ThreadInv
<1> QED
  BY <1>1, <1>4, <1>5, SameTimers DEF Running

LEMMA CancelCancels ==
  ASSUME IInv, NEW id \in Ids, Cancel(id)
  PROVE  Timers!Cancel(id)
<1>1. /\ tasks \in Seq(Task) /\ ~locked /\ UNCHANGED <<pc, call>>
      /\ NoTwice(tasks)
  BY DEF Cancel, Free, thread, IInv, TypeOK, IdsInv
<1>2. PICK i \in DOMAIN tasks : tasks[i].id = id /\ tasks' = Erased(tasks, i)
  BY DEF Cancel
<1> DEFINE t == tasks[i]
<1>3. t \in Task /\ t \in ToSet(tasks) /\ t.id = id
  BY <1>1, <1>2 DEF ToSet
<1>4. /\ ToSet(tasks) = ToSet(tasks') \union {t}
      /\ \A r \in ToSet(tasks') : r.id # t.id
  BY <1>1, <1>2, ErasedTasks
<1> HIDE DEF t
<1>5. Known' = ToSet(tasks') \union Called
  BY <1>1 DEF Known, Called
<1>6. /\ Known = ToSet(tasks) \union Called /\ Known \in SUBSET Task /\ OneEach(Known)
      /\ \A c \in Called : t.id # c.id
  BY <1>3, KnownInv
<1>7. /\ Known = Known' \union {t} /\ Known' \in SUBSET Task
      /\ \A r \in Known' : r.id # t.id
  BY <1>4, <1>5, <1>6
<1>8. OneEach(Known')
  BY <1>6, <1>7 DEF OneEach
<1>9. /\ TimerIn(Known', id) = Nothing /\ TimerIn(Known, id) = Mine(t)
      /\ \A j \in Ids : j # id => TimerIn(Known, j) = TimerIn(Known', j)
  BY <1>3, <1>7, <1>8, OneMore
<1>10. Now[id] # Nothing /\ Now' = [Now EXCEPT ![id] = Nothing]
  BY <1>3, <1>9, NowIs, MineIs
<1>11. Running' = Running /\ Running # id
  BY <1>1, SchedulerAssumption DEF Running, IInv, ThreadInv
<1> QED
  BY <1>10, <1>11 DEF Timers!Cancel, Timers!There, Now

\* The thread starts what is owed, and puts it back owing one run less.
LEMMA LookStarts ==
  ASSUME IInv, Look
  PROVE  \/ Now' = Now /\ Running' = Running
         \/ \E id \in Ids : Timers!Start(id)
<1>1. /\ UNCHANGED <<tasks, call>> /\ pc = "look"
      /\ pc' = "run" => TopDue
      /\ tasks \in Seq(Task) /\ since \in Nat
  BY Bounds DEF Look, Leave, IInv, TypeOK
<1>2. Now' = Now
  BY <1>1, SameTimers DEF Known
<1>3. CASE pc' # "run"
  BY <1>1, <1>2, <1>3 DEF Running
<1>4. CASE pc' = "run"
  <2> DEFINE t == Head(tasks)
  <2>1. tasks # <<>> /\ t.left + since <= 0
    BY <1>1, <1>4 DEF TopDue
  <2>2. t \in Task /\ t \in ToSet(tasks)
    BY <1>1, <2>1, TailTasks
  <2>3. t.id \in Ids /\ t.left <= 0
    <3> HIDE DEF t
    <3> QED
      BY <1>1, <2>1, <2>2, TaskFields
  <2>4. Running = Nothing /\ Running' = t.id
    BY <1>1, <1>4 DEF Running
  <2> HIDE DEF t
  <2>5. Now[t.id] = Mine(t)
    BY <2>2, <2>3, KnownInv, TimerInIs, NowIs
  <2>6. Mine(t) # Nothing /\ Mine(t).owed > 0
    BY <2>2, <2>3, MineIs
  <2>7. Timers!Start(t.id)
    BY <1>2, <2>3, <2>4, <2>5, <2>6 DEF Timers!Start, Timers!There, Now
  <2> QED
    BY <2>3, <2>7
<1> QED
  BY <1>3, <1>4

LEMMA FinishFinishes ==
  ASSUME IInv, Finish
  PROVE  \E id \in Ids : Timers!Finish(id)
<1> DEFINE t == Head(tasks)
<1>1. /\ pc = "run" /\ pc' = "look" /\ call' = call
      /\ tasks \in Seq(Task) /\ NoTwice(tasks)
      /\ tasks # <<>> /\ t.left + since <= 0 /\ since \in Nat
  BY Bounds DEF Finish, IInv, TypeOK, IdsInv, ThreadInv, TopDue
<1>2. PICK rest \in Popped(tasks) :
         IF t.delay > 0 THEN tasks' \in Pushed(rest, Again(t)) ELSE tasks' = rest
  BY DEF Finish
<1>3. Running = t.id /\ Running' = Nothing
  BY <1>1 DEF Running
<1>4. /\ rest \in Seq(Task) /\ t \in Task
      /\ ToSet(tasks) = ToSet(rest) \union {t}
      /\ \A r \in ToSet(rest) : r.id # t.id
  BY <1>1, PoppedTasks
<1> HIDE DEF t
<1>5. t.id \in Ids /\ t.left \in Int /\ t.delay \in Nat /\ t.left <= 0
  BY <1>1, <1>4, TaskFields
<1> DEFINE K == ToSet(rest) \union Called
<1>6. /\ Known = K \union {t} /\ K \in SUBSET Task /\ OneEach(K)
      /\ \A r \in K : r.id # t.id
  <2>1. /\ Known = ToSet(tasks) \union Called /\ Known \in SUBSET Task /\ OneEach(Known)
        /\ \A c \in Called : t.id # c.id
    BY <1>4, KnownInv
  <2>2. /\ Known = K \union {t} /\ K \in SUBSET Task
        /\ \A r \in K : r.id # t.id
    BY <1>4, <2>1
  <2> QED
    BY <2>1, <2>2 DEF OneEach
<1>7. Known' = ToSet(tasks') \union Called
  BY <1>1 DEF Known, Called
<1> HIDE DEF K
<1>8. /\ TimerIn(K, t.id) = Nothing /\ TimerIn(Known, t.id) = Mine(t)
      /\ \A id \in Ids : id # t.id => TimerIn(Known, id) = TimerIn(K, id)
  BY <1>4, <1>6, OneMore
<1>9. Now[t.id] = Mine(t) /\ Mine(t).period = t.delay
  BY <1>4, <1>5, <1>8, NowIs, MineIs
<1>10. CASE t.delay > 0
  <2> DEFINE a == Again(t)
             m == [Mine(t) EXCEPT !.owed = @ - 1]
  <2>1. a \in Task /\ a.id = t.id /\ Mine(a) = m
    BY <1>4, <1>5, <1>10, AgainOwesLess
  <2>2. ToSet(tasks') = ToSet(rest) \union {a}
    BY <1>2, <1>4, <1>10, <2>1, PushedTasks
  <2> HIDE DEF a
  <2>3. Known' = K \union {a}
    BY <1>7, <2>2 DEF K
  <2>4. a \in Task /\ a.id = t.id /\ \A r \in K : r.id # a.id
    BY <1>6, <2>1
  <2>5. /\ TimerIn(K \union {a}, a.id) = Mine(a)
        /\ \A id \in Ids : id # a.id => TimerIn(K \union {a}, id) = TimerIn(K, id)
    BY <1>6, <2>4, OneMore
  <2>6. /\ TimerIn(Known', t.id) = Mine(a)
        /\ \A id \in Ids : id # t.id => TimerIn(Known', id) = TimerIn(K, id)
    BY <2>3, <2>4, <2>5
  <2>7. Now' = [Now EXCEPT ![t.id] = Mine(a)]
    BY <1>5, <1>8, <2>6, NowIs
  <2>8. Mine(a) = Timers!Ran(Now[t.id])
    BY <1>5, <1>9, <1>10, <2>1 DEF Timers!Ran
  <2> QED
    BY <1>3, <1>5, <2>7, <2>8 DEF Timers!Finish, Now
<1>11. CASE ~ t.delay > 0
  <2>1. Known' = K
    BY <1>2, <1>7, <1>11 DEF K
  <2>2. Now' = [Now EXCEPT ![t.id] = Nothing]
    BY <1>5, <1>8, <2>1, NowIs
  <2>3. Nothing = Timers!Ran(Now[t.id])
    BY <1>5, <1>9, <1>11 DEF Timers!Ran
  <2> QED
    BY <1>3, <1>5, <2>2, <2>3 DEF Timers!Finish, Now
<1> QED
  BY <1>10, <1>11

LEMMA TickElapses ==
  ASSUME IInv, Tick
  PROVE  Timers!Elapse
<1>1. /\ tasks \in Seq(Task) /\ pc' = pc
      /\ tasks' = [i \in DOMAIN tasks |-> Nearer(tasks[i])]
      /\ call \in [Users -> Task \union {NoCall}]
      /\ call' = [u \in Users |-> IF call[u] = NoCall THEN NoCall ELSE Nearer(call[u])]
  BY DEF Tick, IInv, TypeOK
<1>2. /\ ToSet(tasks') = {Nearer(t) : t \in ToSet(tasks)}
      /\ tasks # <<>> => Head(tasks') = Nearer(Head(tasks)) /\ Head(tasks) \in Task
  <2>1. /\ ToSet(tasks') = {Nearer(t) : t \in ToSet(tasks)}
        /\ tasks # <<>> => Head(tasks') = Nearer(Head(tasks))
    BY <1>1, NearerTasks
  <2> QED
    BY <1>1, <2>1, TailTasks
<1>3. \A t \in Task : Nearer(t) \in Task /\ Nearer(t).id = t.id /\ Mine(Nearer(t)) = Timers!Older(Mine(t))
  BY NearerIsOlder
<1>4. Running' = Running
  BY <1>1, <1>2, <1>3 DEF Running, IInv, ThreadInv, TopDue
<1>5. {call'[u] : u \in {v \in Users : call'[v] # NoCall}} = {Nearer(t) : t \in Called}
  <2>1. \A u \in Users : call[u] # NoCall => call'[u] = Nearer(call[u]) /\ call'[u] # NoCall
    BY <1>1, <1>3, SchedulerAssumption
  <2>2. \A u \in Users : call[u] = NoCall => call'[u] = NoCall
    BY <1>1
  <2> QED
    BY <2>1, <2>2 DEF Called
<1>6. Known' = {Nearer(t) : t \in Known}
  BY <1>2, <1>5, KnownInv DEF Known
<1>7. Known \in SUBSET Task /\ OneEach(Known)
  BY KnownInv
<1>8. Known' \in SUBSET Task /\ OneEach(Known')
  BY <1>3, <1>6, <1>7 DEF OneEach
<1>9. ASSUME NEW id \in Ids
      PROVE  Now'[id] = IF Now[id] # Nothing THEN Timers!Older(Now[id]) ELSE Nothing
  <2>1. CASE \E t \in Known : t.id = id
    <3>1. PICK t \in Known : t.id = id
      BY <2>1
    <3>2. Now[id] = Mine(t) /\ Mine(t) # Nothing
      BY <1>7, <3>1, TimerInIs, NowIs, MineIs
    <3>3. Nearer(t) \in Known' /\ Nearer(t).id = id /\ Mine(Nearer(t)) = Timers!Older(Mine(t))
      BY <1>3, <1>6, <1>7, <3>1
    <3>4. Now'[id] = Mine(Nearer(t))
      BY <1>8, <3>3, TimerInIs, NowIs
    <3> QED
      BY <3>2, <3>3, <3>4
  <2>2. CASE \A t \in Known : t.id # id
    <3>1. \A t \in Known' : t.id # id
      BY <1>3, <1>6, <1>7, <2>2
    <3>2. Now[id] = Nothing /\ Now'[id] = Nothing
      BY <1>7, <1>8, <2>2, <3>1, TimerInIs, NowIs
    <3> QED
      BY <3>2
  <2> QED
    BY <2>1, <2>2
<1>10. Now' = [id \in Ids |-> IF Now[id] # Nothing THEN Timers!Older(Now[id]) ELSE Nothing]
  BY <1>9, NowIs
<1> QED
  BY <1>4, <1>10 DEF Timers!Elapse, Timers!There, Now

LEMMA ControlIsNoStep ==
  ASSUME IInv, Wake \/ Lock \/ Rest \/ Stop \/ Join
  PROVE  Now' = Now /\ Running' = Running
<1>1. UNCHANGED <<tasks, call>> /\ (pc' = "run" <=> pc = "run")
  BY DEF Wake, Lock, Rest, Stop, Join, Leave, thread
<1> QED
  BY <1>1, SameTimers DEF Known, Running

LEMMA NextTimers == IInv /\ [Next]_vars => [Timers!Next]_(Timers!vars)
<1> SUFFICES ASSUME IInv, [Next]_vars PROVE [Timers!Next]_(Timers!vars)
  OBVIOUS
<1>1. Now' = Now /\ Running' = Running => UNCHANGED Timers!vars
  BY DEF Timers!vars, Now
<1>2. CASE Wake \/ Lock \/ Rest \/ Stop \/ Join
  BY <1>1, <1>2, ControlIsNoStep
<1>3. CASE Look
  BY <1>1, <1>3, LookStarts DEF Timers!Next
<1>4. CASE Finish
  BY <1>4, FinishFinishes DEF Timers!Next
<1>5. CASE Tick
  BY <1>5, TickElapses DEF Timers!Next
<1>6. CASE \E id \in Ids : Cancel(id)
  BY <1>6, CancelCancels DEF Timers!Next
<1>7. CASE \E u \in Users : Insert(u)
  BY <1>1, <1>7, InsertIsNoStep
<1>8. CASE \E u \in Users, first \in Firsts, delay \in Periods : Call(u, first, delay)
  BY <1>8, CallCreates DEF Timers!Next
<1>9. CASE UNCHANGED vars
  <2>1. Known' = Known /\ Running' = Running
    BY <1>9 DEF vars, thread, Known, Running
  <2> QED
    BY <1>1, <2>1, SameTimers
<1> QED
  BY <1>2, <1>3, <1>4, <1>5, <1>6, <1>7, <1>8, <1>9 DEF Next, Thread

LEMMA InitTimers == Init => Timers!Init
<1> SUFFICES ASSUME Init PROVE Timers!Init
  OBVIOUS
<1>1. Known = {} /\ Running = Nothing
  BY DEF Init, Known, Running, ToSet
<1>2. Now = [id \in Ids |-> Nothing]
  BY <1>1, NowIs DEF TimerIn
<1> QED
  BY <1>1, <1>2 DEF Timers!Init, Now

\* However late the thread, the tasks and the clock are, every timer gets the runs it
\* is owed and no other, one at a time, and none once it is cancelled
\* (ThreadScheduler.h:55 and :99): the scheduler implements TimerService.
THEOREM TimersAreKept == Spec => TimersSpec
  BY Invariant, InitTimers, NextTimers, PTL DEF Spec, TimersSpec, Timers!Spec
============================================================================
